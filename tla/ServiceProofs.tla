--------------------------- MODULE ServiceProofs ----------------------------
(***************************************************************************)
(* Proofs about the process around the mediation: Ingress, for every number *)
(* of keys and requests and for all lifetimes, cooldowns, timeouts and     *)
(* limits; Startup and Dialing, for every environment, registry and set of *)
(* keys the process can be started with; Shutdown, for all deadlines and   *)
(* numbers of runs; and AuditHistory, for every page size, look-back and   *)
(* length of the record.                                                   *)
(***************************************************************************)
EXTENDS AuditHistory, Ingress, Dialing, Shutdown, SequenceTheorems, FiniteSetTheorems,
        WellFoundedInduction, TLAPS

-----------------------------------------------------------------------------
(* The gateway's keys and the requests: the inductive invariant *)

Phase == {"idle", "asking", "waiting", "fetching", "verified", "reading", "serving", "streaming"}

Request == [at : Phase, key : SUBSET Keys, got : SUBSET SUBSET Keys, since : Nat, poll : BOOLEAN]

AdmittedOnes == {r \in Requests : Admitted(r)}
PollsOpen == {r \in Requests : PollAdmitted(r)}

Types ==
    /\ gateway \in [keys : SUBSET Keys, changed : [Keys -> SUBSET Nat]]
    /\ cache \in Cache
    /\ refreshing \in SUBSET Requests
    /\ calls \in [Requests -> Request]
    /\ free \in [capacity : Nat, polls : Nat]
    /\ unhelped \in SUBSET Nat
    /\ instant \in Nat

(* What was said of k, by the set `published`, is so, or was until `time` less `slack`
   at the earliest. *)
Still(k, published, time, slack) ==
    \/ k \in published <=> k \in gateway.keys
    \/ \E then \in gateway.changed[k] : then + slack >= time

(* A request that fetches does it alone, within its timeout, and what it was answered was
   so after it began. *)
FetchingOf(r) ==
    /\ calls[r].at \in {"asking", "waiting", "fetching"} => \E k \in Keys : calls[r].key = {k}
    /\ IsAt(r, "fetching") \/ calls[r].got = {}
    /\ IsAt(r, "fetching") =>
          /\ refreshing = {r}
          /\ calls[r].since <= instant /\ instant <= calls[r].since + FetchWithin
          /\ \A set \in calls[r].got, k \in Keys : Still(k, set, calls[r].since, 0)

Fetching == \A r \in Requests : FetchingOf(r)

(* The deadlines of the cache were set from the past, the one for unknown keys not after
   the set arrived it was read from or a newer one. *)
Caching ==
    /\ cache.expiry <= instant + Lifetime
    /\ cache.unknownUntil <= instant + Cooldown
    /\ cache.set = {} => cache.expiry = 0
    /\ \A set \in cache.set :
          /\ cache.unknownUntil + Lifetime <= cache.expiry + Cooldown
          /\ \A k \in Keys : Still(k, set, cache.expiry, Lifetime + FetchWithin)

(* A cooldown that has begun is over, or the cache still holds requests back. *)
Spacing ==
    \A end \in unhelped :
        /\ \/ end + Cooldown <= instant
           \/ end + Cooldown <= cache.unavailableUntil
           \/ end + Cooldown <= cache.unknownUntil /\ end + Cooldown <= cache.expiry
        /\ (\E r \in Requests : IsAt(r, "fetching")) => end + Cooldown <= instant

Permits ==
    /\ free.capacity + Cardinality(AdmittedOnes) = InFlight
    /\ free.polls + Cardinality(PollsOpen) = PollsInFlight

CacheInv == Types /\ Fetching /\ Caching /\ Spacing
IngressInv == CacheInv /\ Permits

Promises == AnswersAreRecent /\ FetchesAreSpaced /\ PollsLeaveRoom

-----------------------------------------------------------------------------
(* Requests, one at a time *)

LEMMA KeyKnown ==
    ASSUME Fetching, NEW r \in Requests, calls[r].at \in {"asking", "waiting", "fetching"}
    PROVE  KeyOf(r) \in Keys /\ calls[r].key = {KeyOf(r)}
<1>1. PICK k \in Keys : calls[r].key = {k}
  BY DEF Fetching, FetchingOf
<1>2. KeyOf(r) = k
  BY <1>1 DEF KeyOf
<1>. QED BY <1>1, <1>2

LEMMA Putting ==
    ASSUME Types, NEW r \in Requests, NEW x \in Request, calls' = [calls EXCEPT ![r] = x]
    PROVE  /\ calls' \in [Requests -> Request]
           /\ calls'[r] = x
           /\ \A q \in Requests : q # r => calls'[q] = calls[q]
  BY DEF Types

(* A request no step has touched fetches on. *)
LEMMA Standing ==
    ASSUME Fetching, NEW q \in Requests, calls'[q] = calls[q],
           IsAt(q, "fetching") => refreshing' = refreshing,
           UNCHANGED <<gateway, instant>>
    PROVE  FetchingOf(q)'
<1>1. FetchingOf(q)
  BY DEF Fetching
<1>2. /\ calls'[q].at \in {"asking", "waiting", "fetching"} => \E k \in Keys : calls'[q].key = {k}
      /\ IsAt(q, "fetching")' \/ calls'[q].got = {}
  BY <1>1 DEF FetchingOf, IsAt
<1>3. ASSUME IsAt(q, "fetching")
      PROVE  /\ (refreshing = {q})'
             /\ (calls[q].since <= instant /\ instant <= calls[q].since + FetchWithin)'
             /\ (\A set \in calls[q].got, k \in Keys : Still(k, set, calls[q].since, 0))'
  BY <1>1, <1>3 DEF FetchingOf, Still
<1>4. IsAt(q, "fetching")' => IsAt(q, "fetching")
  BY DEF IsAt
<1>. QED BY <1>2, <1>3, <1>4 DEF FetchingOf

(* A step of one request that neither fetches nor is told of a fetch leaves the cache,
   and what is known of it, alone. *)
LEMMA Passing ==
    ASSUME CacheInv, NEW r \in Requests, NEW x \in Request, calls' = [calls EXCEPT ![r] = x],
           x.at # "fetching", x.got = {},
           x.at \in {"asking", "waiting"} => \E k \in Keys : x.key = {k},
           refreshing' = refreshing \/ refreshing' = refreshing \ {r},
           free' \in [capacity : Nat, polls : Nat],
           UNCHANGED <<gateway, cache, unhelped, instant>>
    PROVE  CacheInv'
<1>0. calls'[r] = x /\ \A q \in Requests : q # r => calls'[q] = calls[q]
  BY Putting DEF CacheInv
<1>1. Types'
  BY Putting DEF CacheInv, Types
<1>2. FetchingOf(r)'
  BY <1>0 DEF FetchingOf, IsAt
<1>3. ASSUME NEW q \in Requests, q # r PROVE FetchingOf(q)'
  <2>1. calls'[q] = calls[q]
    BY <1>0, <1>3
  <2>2. IsAt(q, "fetching") => refreshing = {q}
    BY DEF CacheInv, Fetching, FetchingOf
  <2>3. IsAt(q, "fetching") => refreshing' = refreshing
    BY <1>3, <2>2
  <2>. QED BY <2>1, <2>3, Standing DEF CacheInv
<1>4. Fetching'
  BY <1>2, <1>3 DEF Fetching
<1>5. Caching'
  BY DEF CacheInv, Caching, Still
<1>6. Spacing'
  <2>1. \A q \in Requests : calls'[q].at = "fetching" => calls[q].at = "fetching"
    BY <1>0
  <2>. QED BY <2>1 DEF CacheInv, Spacing, IsAt
<1>. QED BY <1>1, <1>4, <1>5, <1>6 DEF CacheInv

-----------------------------------------------------------------------------
(* What a step tells *)

LEMMA TellsNothing ==
    ASSUME told' = {} \/ \E answer \in {"unavailable", "unauthorized"} : \E key : told' = {[answer |-> answer, key |-> key]}
    PROVE  Promises'
<1>1. \A t \in told' : t.answer \in {"unavailable", "unauthorized"}
  OBVIOUS
<1>2. ToldOf("verified")' = {} /\ ToldOf("unknown")' = {} /\ ToldOf("fetch")' = {}
  BY <1>1 DEF ToldOf
<1>. QED BY <1>1, <1>2 DEF Promises, AnswersAreRecent, FetchesAreSpaced, PollsLeaveRoom

(* What the cache says is recent. *)
LEMMA Answering ==
    ASSUME CacheInv, NEW r \in Requests, KeyOf(r) \in Keys, calls[r].key = {KeyOf(r)},
           Cached(KeyOf(r)) # "ask",
           told' = {[answer |-> Cached(KeyOf(r)), key |-> calls[r].key]},
           UNCHANGED <<gateway, instant>>
    PROVE  Promises'
<1>. DEFINE k == KeyOf(r)
<1>1. /\ cache \in Cache /\ instant \in Nat /\ gateway.changed \in [Keys -> SUBSET Nat]
      /\ Lifetime \in Nat /\ Cooldown \in Nat /\ FetchWithin \in Nat
  BY IngressAssumption DEF CacheInv, Types
<1>2. Cached(k) \in {"verified", "unknown", "unavailable"}
  BY DEF Cached
<1>3. CASE Cached(k) = "verified"
  <2>1. PICK set \in cache.set : k \in set /\ cache.expiry > instant
    BY <1>3 DEF Cached
  <2>2. k \in gateway.keys \/ \E then \in gateway.changed[k] : then + (Lifetime + FetchWithin) >= cache.expiry
    BY <2>1 DEF CacheInv, Caching, Still
  <2>3. k \in gateway.keys \/ Lately(k, Lifetime + FetchWithin)
    BY <1>1, <2>1, <2>2 DEF Lately, Cache
  <2>4. ToldOf("verified")' = {k} /\ ToldOf("unknown")' = {} /\ ToldOf("fetch")' = {} /\ ~(\E t \in told' : t.answer = "busy")
    BY <1>3 DEF ToldOf
  <2>. QED BY <2>3, <2>4 DEF Promises, AnswersAreRecent, FetchesAreSpaced, PollsLeaveRoom, Lately
<1>4. CASE Cached(k) = "unknown"
  <2>1. cache.expiry > instant /\ cache.unknownUntil > instant /\ \A set \in cache.set : k \notin set
    BY <1>4 DEF Cached
  <2>2. PICK set \in cache.set : TRUE
    BY <1>1, <2>1 DEF CacheInv, Caching, Cache
  <2>3. /\ cache.unknownUntil + Lifetime <= cache.expiry + Cooldown
        /\ k \notin gateway.keys \/ \E then \in gateway.changed[k] : then + (Lifetime + FetchWithin) >= cache.expiry
    BY <2>1, <2>2 DEF CacheInv, Caching, Still
  <2>4. k \notin gateway.keys \/ Lately(k, Cooldown + FetchWithin)
    BY <1>1, <2>1, <2>3 DEF Lately, Cache
  <2>5. ToldOf("unknown")' = {k} /\ ToldOf("verified")' = {} /\ ToldOf("fetch")' = {} /\ ~(\E t \in told' : t.answer = "busy")
    BY <1>4 DEF ToldOf
  <2>. QED BY <2>4, <2>5 DEF Promises, AnswersAreRecent, FetchesAreSpaced, PollsLeaveRoom, Lately
<1>5. CASE Cached(k) = "unavailable"
  BY <1>5, TellsNothing
<1>. QED BY <1>2, <1>3, <1>4, <1>5

-----------------------------------------------------------------------------
(* Each step *)

LEMMA Shapes == Idle \in Request /\ [Idle EXCEPT !.at = "verified"] \in Request
  BY DEF Idle, Request, Phase

(* A step of one request leaves what the others fetch alone: they do not fetch while it
   has the mutex, or while no one has. *)
LEMMA Others ==
    ASSUME CacheInv, NEW r \in Requests, NEW x \in Request, calls' = [calls EXCEPT ![r] = x],
           refreshing \subseteq {r},
           UNCHANGED <<gateway, instant>>
    PROVE  \A q \in Requests : q # r => FetchingOf(q)' /\ ~IsAt(q, "fetching")'
<1>. SUFFICES ASSUME NEW q \in Requests, q # r PROVE FetchingOf(q)' /\ ~IsAt(q, "fetching")'
  OBVIOUS
<1>1. ~IsAt(q, "fetching")
  BY DEF CacheInv, Fetching, FetchingOf
<1>2. calls'[q] = calls[q]
  BY Putting DEF CacheInv
<1>. QED BY <1>1, <1>2, Standing DEF CacheInv, IsAt

(* Steps that are told of no fetch. *)
LEMMA GatewayAnswered ==
    ASSUME CacheInv, NEW r \in Requests, NEW answer, Says(r, answer),
           refreshing' = refreshing \/ refreshing' = refreshing \ {r},
           free' \in [capacity : Nat, polls : Nat],
           UNCHANGED <<gateway, cache, unhelped, instant>>
    PROVE  CacheInv'
<1>1. CASE answer = "verified"
  <2>1. calls' = [calls EXCEPT ![r] = [Idle EXCEPT !.at = "verified"]]
    BY <1>1 DEF Says
  <2>2. [Idle EXCEPT !.at = "verified"].at = "verified" /\ [Idle EXCEPT !.at = "verified"].got = {}
    BY DEF Idle
  <2>. QED BY <2>1, <2>2, Shapes, Passing
<1>2. CASE answer # "verified"
  <2>1. calls' = [calls EXCEPT ![r] = Idle] /\ Idle.at = "idle" /\ Idle.got = {}
    BY <1>2 DEF Says, Idle
  <2>. QED BY <2>1, Shapes, Passing
<1>. QED BY <1>1, <1>2

LEMMA ChangesKept ==
    ASSUME CacheInv, NEW k \in Keys, Changes(k)
    PROVE  CacheInv' /\ Promises'
<1>1. /\ gateway' \in [keys : SUBSET Keys, changed : [Keys -> SUBSET Nat]]
      /\ gateway'.changed[k] = {instant}
      /\ \A j \in Keys : j # k => /\ gateway'.changed[j] = gateway.changed[j]
                                  /\ j \in gateway'.keys <=> j \in gateway.keys
  BY DEF CacheInv, Types, Changes
<1>2. Types'
  BY <1>1 DEF CacheInv, Types, Changes
<1>4. Fetching'
  <2>. SUFFICES ASSUME NEW r \in Requests PROVE FetchingOf(r)'
    BY DEF Fetching
  <2>1. FetchingOf(r) /\ calls' = calls /\ refreshing' = refreshing /\ instant' = instant
    BY DEF CacheInv, Fetching, Changes
  <2>2. calls[r] \in Request /\ instant \in Nat
    BY DEF CacheInv, Types
  <2>3. ASSUME IsAt(r, "fetching"), NEW set \in calls[r].got, NEW j \in Keys
        PROVE  Still(j, set, calls[r].since, 0)'
    <3>1. calls[r].since \in Nat /\ calls[r].since <= instant + 0 /\ Still(j, set, calls[r].since, 0)
      BY <2>1, <2>2, <2>3 DEF FetchingOf, Request
    <3>2. Still(j, set, calls[r].since, 0)' <=> (\/ j \in set <=> j \in gateway'.keys
                                                \/ \E then \in gateway'.changed[j] : then + 0 >= calls[r].since)
      BY <2>1 DEF Still
    <3>3. CASE j = k
      BY <3>1, <3>2, <3>3, <1>1, <2>2
    <3>4. CASE j # k
      BY <3>1, <3>2, <3>4, <1>1 DEF Still
    <3>. QED BY <3>3, <3>4
  <2>. QED BY <2>1, <2>3 DEF FetchingOf, IsAt
<1>5. Caching'
  <2>1. Caching /\ cache' = cache /\ instant' = instant /\ cache \in Cache /\ instant \in Nat /\ Lifetime + FetchWithin \in Nat
    BY IngressAssumption DEF CacheInv, Changes, Types
  <2>2. ASSUME NEW set \in cache.set, NEW j \in Keys
        PROVE  Still(j, set, cache.expiry, Lifetime + FetchWithin)'
    <3>1. cache.expiry \in Nat /\ cache.expiry <= instant + (Lifetime + FetchWithin) /\ Still(j, set, cache.expiry, Lifetime + FetchWithin)
      BY <2>1, IngressAssumption DEF Caching, Cache
    <3>2. Still(j, set, cache.expiry, Lifetime + FetchWithin)'
             <=> (\/ j \in set <=> j \in gateway'.keys
                  \/ \E then \in gateway'.changed[j] : then + (Lifetime + FetchWithin) >= cache.expiry)
      BY <2>1 DEF Still
    <3>3. CASE j = k
      BY <3>1, <3>2, <3>3, <1>1, <2>1
    <3>4. CASE j # k
      BY <3>1, <3>2, <3>4, <1>1 DEF Still
    <3>. QED BY <3>3, <3>4
  <2>. QED BY <2>1, <2>2 DEF Caching
<1>6. Spacing'
  BY DEF CacheInv, Spacing, Changes, IsAt
<1>. QED BY <1>2, <1>4, <1>5, <1>6, TellsNothing DEF CacheInv, Changes

LEMMA GatewayAnswersKept ==
    ASSUME CacheInv, NEW r \in Requests, GatewayAnswers(r)
    PROVE  CacheInv' /\ Promises'
<1>. DEFINE x == [calls[r] EXCEPT !.got = {gateway.keys}]
<1>1. x \in Request /\ calls' = [calls EXCEPT ![r] = x] /\ x.at = "fetching" /\ x.since = calls[r].since /\ x.key = calls[r].key
      /\ x.got = {gateway.keys}
  BY DEF GatewayAnswers, Puts, IsAt, CacheInv, Types, Request, Phase
<1>2. UNCHANGED <<gateway, cache, refreshing, free, unhelped, instant>> /\ told' = {} /\ IsAt(r, "fetching")
  BY DEF GatewayAnswers, Puts
<1>3. calls' \in [Requests -> Request] /\ calls'[r] = x
  BY <1>1, Putting DEF CacheInv
<1>4. FetchingOf(r)'
  <2>1. FetchingOf(r)
    BY DEF CacheInv, Fetching
  <2>. QED BY <2>1, <1>1, <1>2, <1>3 DEF FetchingOf, IsAt, Still
<1>5. refreshing \subseteq {r}
  BY <1>2 DEF CacheInv, Fetching, FetchingOf
<1>6. \A q \in Requests : q # r => FetchingOf(q)' /\ ~IsAt(q, "fetching")'
  BY <1>1, <1>2, <1>5, Others
<1>7. Types'
  BY <1>2, <1>3 DEF CacheInv, Types
<1>8. Fetching'
  BY <1>4, <1>6 DEF Fetching
<1>9. Caching'
  BY <1>2 DEF CacheInv, Caching, Still
<1>10. Spacing'
  BY <1>2 DEF CacheInv, Spacing
<1>. QED BY <1>2, <1>7, <1>8, <1>9, <1>10, TellsNothing DEF CacheInv

(* A request is told what the cache says, or fetches: every cooldown that has begun is
   over then. *)
LEMMA LookKept ==
    ASSUME CacheInv, NEW r \in Requests, Look(r)
    PROVE  CacheInv' /\ Promises'
<1>1. KeyOf(r) \in Keys /\ calls[r].key = {KeyOf(r)}
  BY KeyKnown DEF CacheInv, Look, IsAt
<1>2. UNCHANGED <<gateway, cache, refreshing, free, unhelped, instant>> /\ free' \in [capacity : Nat, polls : Nat]
  BY DEF Look, CacheInv, Types
<1>3. CASE Cached(KeyOf(r)) = "ask"
  <2>. DEFINE x == [calls[r] EXCEPT !.at = "waiting"]
  <2>1. x \in Request /\ x.at = "waiting" /\ x.key = calls[r].key /\ x.got = {}
    BY DEF CacheInv, Types, Request, Phase, Fetching, FetchingOf, Look, IsAt
  <2>2. calls' = [calls EXCEPT ![r] = x] /\ told' = {}
    BY <1>3 DEF Look, Looked, Proceeds, Puts
  <2>. QED BY <1>1, <1>2, <2>1, <2>2, Passing, TellsNothing
<1>4. CASE Cached(KeyOf(r)) # "ask"
  <2>1. Says(r, Cached(KeyOf(r)))
    BY <1>4 DEF Look, Looked
  <2>2. told' = {[answer |-> Cached(KeyOf(r)), key |-> calls[r].key]}
    BY <2>1 DEF Says
  <2>. QED BY <1>1, <1>2, <1>4, <2>1, <2>2, GatewayAnswered, Answering
<1>. QED BY <1>3, <1>4

LEMMA LookAgainKept ==
    ASSUME CacheInv, NEW r \in Requests, LookAgain(r)
    PROVE  CacheInv' /\ Promises'
<1>1. KeyOf(r) \in Keys /\ calls[r].key = {KeyOf(r)}
  BY KeyKnown DEF CacheInv, LookAgain, IsAt
<1>2. UNCHANGED <<gateway, cache, free, unhelped, instant>> /\ free' \in [capacity : Nat, polls : Nat] /\ refreshing = {}
  BY DEF LookAgain, CacheInv, Types
<1>3. CASE Cached(KeyOf(r)) # "ask"
  <2>1. Says(r, Cached(KeyOf(r))) /\ refreshing' = refreshing
    BY <1>2, <1>3 DEF LookAgain, Looked
  <2>2. told' = {[answer |-> Cached(KeyOf(r)), key |-> calls[r].key]}
    BY <2>1 DEF Says
  <2>. QED BY <1>1, <1>2, <1>3, <2>1, <2>2, GatewayAnswered, Answering
<1>4. CASE Cached(KeyOf(r)) = "ask"
  <2>. DEFINE x == [calls[r] EXCEPT !.at = "fetching", !.since = instant]
  <2>1. x \in Request /\ x.at = "fetching" /\ x.since = instant /\ x.key = calls[r].key /\ x.got = {}
    <3>1. calls[r] \in Request /\ instant \in Nat
      BY DEF CacheInv, Types
    <3>2. calls[r].got = {}
      BY DEF CacheInv, Fetching, FetchingOf, LookAgain, IsAt
    <3>. QED BY <3>1, <3>2 DEF Request, Phase
  <2>2. calls' = [calls EXCEPT ![r] = x] /\ told' = {[answer |-> "fetch", key |-> calls[r].key]} /\ refreshing' = {r}
    BY <1>4 DEF LookAgain, Looked, Fetches, CacheInv, Types
  <2>3. calls' \in [Requests -> Request] /\ calls'[r] = x
    BY <2>1, <2>2, Putting DEF CacheInv
  <2>4. \A q \in Requests : q # r => FetchingOf(q)' /\ ~IsAt(q, "fetching")'
    BY <1>2, <2>1, <2>2, Others
  <2>5. \A end \in unhelped : end + Cooldown <= instant
    <3>1. (cache.expiry <= instant \/ cache.unknownUntil <= instant) /\ cache.unavailableUntil <= instant
      BY <1>4 DEF Cached, CacheInv, Types, Cache
    <3>. QED BY <3>1, IngressAssumption DEF CacheInv, Spacing, Types, Cache
  <2>6. Types'
    BY <1>2, <2>2, <2>3 DEF CacheInv, Types
  <2>7. FetchingOf(r)'
    <3>1. instant \in Nat /\ FetchWithin \in Nat
      BY IngressAssumption DEF CacheInv, Types
    <3>. QED BY <1>1, <1>2, <2>1, <2>2, <2>3, <3>1 DEF FetchingOf, IsAt
  <2>8. Fetching'
    BY <2>4, <2>7 DEF Fetching
  <2>9. Caching'
    BY <1>2 DEF CacheInv, Caching, Still
  <2>10. Spacing'
    BY <1>2, <2>5 DEF Spacing
  <2>11. Promises'
    <3>1. ToldOf("verified")' = {} /\ ToldOf("unknown")' = {} /\ ~(\E t \in told' : t.answer = "busy")
      BY <2>2 DEF ToldOf
    <3>2. FetchesAreSpaced'
      BY <1>2, <2>5, IngressAssumption DEF FetchesAreSpaced, CacheInv, Types
    <3>. QED BY <3>1, <3>2 DEF Promises, AnswersAreRecent, PollsLeaveRoom
  <2>. QED BY <2>6, <2>8, <2>9, <2>10, <2>11 DEF CacheInv
<1>. QED BY <1>3, <1>4

(* A fetch that is over: no one fetches, and what it has answered is recent. *)
LEMMA FetchOver ==
    ASSUME CacheInv, NEW r \in Requests, NEW answer, Says(r, answer),
           refreshing \subseteq {r}, refreshing' = {},
           UNCHANGED <<gateway, instant>>
    PROVE  /\ calls' \in [Requests -> Request]
           /\ Fetching'
           /\ \A q \in Requests : ~IsAt(q, "fetching")'
<1>1. PICK x \in Request : calls' = [calls EXCEPT ![r] = x] /\ x.at \in {"idle", "verified"} /\ x.got = {}
  BY Shapes DEF Says, Idle
<1>2. calls' \in [Requests -> Request] /\ calls'[r] = x
  BY <1>1, Putting DEF CacheInv
<1>3. \A q \in Requests : q # r => FetchingOf(q)' /\ ~IsAt(q, "fetching")'
  BY <1>1, Others
<1>4. FetchingOf(r)' /\ ~IsAt(r, "fetching")'
  BY <1>1, <1>2 DEF FetchingOf, IsAt
<1>. QED BY <1>2, <1>3, <1>4 DEF Fetching

LEMMA FetchFailsKept ==
    ASSUME CacheInv, NEW r \in Requests, FetchFails(r)
    PROVE  CacheInv' /\ Promises'
<1>1. refreshing \subseteq {r}
  BY DEF CacheInv, Fetching, FetchingOf, FetchFails
<1>2. UNCHANGED <<gateway, free, instant>> /\ unhelped' = {instant} /\ refreshing' = {} /\ Says(r, "unavailable")
  BY DEF FetchFails
<1>3. calls' \in [Requests -> Request] /\ Fetching' /\ \A q \in Requests : ~IsAt(q, "fetching")'
  BY <1>1, <1>2, FetchOver
<1>4. /\ cache' \in Cache /\ cache'.set = cache.set /\ cache'.expiry = cache.expiry
      /\ cache'.unknownUntil = cache.unknownUntil /\ cache'.unavailableUntil = instant + Cooldown
      /\ instant \in Nat /\ Cooldown \in Nat
  BY IngressAssumption DEF FetchFails, CacheInv, Types, Cache
<1>5. Types'
  BY <1>2, <1>3, <1>4 DEF CacheInv, Types
<1>6. Caching'
  BY <1>2, <1>4 DEF CacheInv, Caching, Still
<1>7. Spacing'
  BY <1>2, <1>3, <1>4 DEF Spacing
<1>8. Promises'
  BY <1>2, TellsNothing DEF Says
<1>. QED BY <1>3, <1>5, <1>6, <1>7, <1>8 DEF CacheInv

LEMMA FetchEndsKept ==
    ASSUME CacheInv, NEW r \in Requests, FetchEnds(r)
    PROVE  CacheInv' /\ Promises'
<1>. DEFINE since == calls[r].since
<1>1. PICK k \in Keys : k = KeyOf(r) /\ calls[r].key = {k}
  BY KeyKnown DEF CacheInv, FetchEnds, IsAt
<1>2. refreshing \subseteq {r} /\ since <= instant /\ instant <= since + FetchWithin
  BY DEF CacheInv, Fetching, FetchingOf, FetchEnds
<1>3. UNCHANGED <<gateway, free, instant>> /\ refreshing' = {}
  BY DEF FetchEnds
<1>4. /\ since \in Nat /\ instant \in Nat /\ cache \in Cache /\ gateway.changed \in [Keys -> SUBSET Nat]
      /\ Lifetime \in Nat /\ Cooldown \in Nat /\ FetchWithin \in Nat /\ Cooldown >= 1 /\ Lifetime > Cooldown
  BY IngressAssumption DEF CacheInv, Types, Request
<1>5. PICK set \in calls[r].got :
         LET fetched == [cache EXCEPT !.set = {set}, !.expiry = instant + Lifetime, !.unavailableUntil = 0]
         IN IF k \in set
            THEN cache' = fetched /\ Says(r, "verified") /\ UNCHANGED unhelped
            ELSE /\ cache' = [fetched EXCEPT !.unknownUntil = instant + Cooldown]
                 /\ Says(r, "unknown")
                 /\ unhelped' = {instant}
  BY <1>1 DEF FetchEnds
<1>6. set \in SUBSET Keys /\ \A j \in Keys : Still(j, set, since, 0)
  BY DEF CacheInv, Types, Request, Fetching, FetchingOf, FetchEnds
<1>7. calls' \in [Requests -> Request] /\ Fetching' /\ \A q \in Requests : ~IsAt(q, "fetching")'
  BY <1>2, <1>3, <1>5, FetchOver
<1>8. /\ cache' \in Cache /\ cache'.set = {set} /\ cache'.expiry = instant + Lifetime
      /\ cache'.unknownUntil = IF k \in set THEN cache.unknownUntil ELSE instant + Cooldown
  <2>1. CASE k \in set
    <3>1. cache' = [cache EXCEPT !.set = {set}, !.expiry = instant + Lifetime, !.unavailableUntil = 0]
      BY <1>5, <2>1
    <3>2. cache'.set = {set} /\ cache'.expiry = instant + Lifetime /\ cache'.unknownUntil = cache.unknownUntil
      BY <1>4, <3>1 DEF Cache
    <3>3. {set} \in SUBSET SUBSET Keys /\ instant + Lifetime \in Nat
      BY <1>4, <1>6
    <3>4. cache' \in Cache
      BY <1>4, <3>1, <3>3 DEF Cache
    <3>. QED BY <2>1, <3>2, <3>4
  <2>2. CASE k \notin set
    <3>1. cache' = [cache EXCEPT !.set = {set}, !.expiry = instant + Lifetime, !.unavailableUntil = 0,
                                 !.unknownUntil = instant + Cooldown]
      BY <1>5, <2>2
    <3>2. cache'.set = {set} /\ cache'.expiry = instant + Lifetime /\ cache'.unknownUntil = instant + Cooldown
      BY <1>4, <3>1 DEF Cache
    <3>3. {set} \in SUBSET SUBSET Keys /\ instant + Lifetime \in Nat /\ instant + Cooldown \in Nat
      BY <1>4, <1>6
    <3>4. cache' \in Cache
      BY <1>4, <3>1, <3>3 DEF Cache
    <3>. QED BY <2>2, <3>2, <3>4
  <2>. QED BY <2>1, <2>2
<1>9. \A j \in Keys : \/ j \in set <=> j \in gateway.keys
                      \/ \E then \in gateway.changed[j] : then >= since
  BY <1>4, <1>6 DEF Still
<1>10. unhelped' \in SUBSET Nat
  BY <1>4, <1>5 DEF CacheInv, Types
<1>11. Types'
  BY <1>3, <1>7, <1>8, <1>10 DEF CacheInv, Types
<1>12. Caching'
  <2>1. cache'.unknownUntil <= instant + Cooldown
    BY <1>4, <1>8 DEF CacheInv, Caching
  <2>2. ASSUME NEW j \in Keys PROVE Still(j, set, cache.expiry, Lifetime + FetchWithin)'
    <3>1. \A then \in gateway.changed[j] : then >= since => then + (Lifetime + FetchWithin) >= instant + Lifetime
      BY <1>2, <1>4
    <3>. QED BY <1>3, <1>8, <1>9, <3>1 DEF Still
  <2>3. cache'.unknownUntil + Lifetime <= cache'.expiry + Cooldown
    BY <1>4, <1>8, <2>1 DEF Cache
  <2>4. cache'.expiry <= instant' + Lifetime /\ cache'.unknownUntil <= instant' + Cooldown
    BY <1>3, <1>4, <1>8, <2>1
  <2>. QED BY <1>8, <2>2, <2>3, <2>4 DEF Caching
<1>13. Spacing'
  <2>1. CASE k \in set
    <3>1. \A end \in unhelped : end + Cooldown <= instant
      BY DEF CacheInv, Spacing, FetchEnds
    <3>. QED BY <1>3, <1>5, <1>7, <2>1, <3>1 DEF Spacing
  <2>2. CASE k \notin set
    <3>1. unhelped' = {instant} /\ cache'.unknownUntil = instant + Cooldown
      BY <1>5, <1>8, <2>2
    <3>. QED BY <1>4, <1>7, <1>8, <3>1 DEF Spacing
  <2>. QED BY <2>1, <2>2
<1>14. Promises'
  <2>1. Lately(k, Lifetime + FetchWithin)' <=> Lately(k, Lifetime + FetchWithin)
    BY <1>3 DEF Lately
  <2>2. Lately(k, Cooldown + FetchWithin)' <=> Lately(k, Cooldown + FetchWithin)
    BY <1>3 DEF Lately
  <2>3. (\E then \in gateway.changed[k] : then >= since)
           => Lately(k, Lifetime + FetchWithin) /\ Lately(k, Cooldown + FetchWithin)
    BY <1>1, <1>2, <1>4 DEF Lately
  <2>4. CASE k \in set
    <3>1. told' = {[answer |-> "verified", key |-> {k}]}
      BY <1>1, <1>5, <2>4 DEF Says
    <3>2. ToldOf("verified")' = {k} /\ ToldOf("unknown")' = {} /\ ToldOf("fetch")' = {} /\ ~(\E t \in told' : t.answer = "busy")
      BY <1>1, <3>1 DEF ToldOf
    <3>3. k \in gateway'.keys \/ Lately(k, Lifetime + FetchWithin)'
      BY <1>1, <1>3, <1>9, <2>1, <2>3, <2>4
    <3>. QED BY <3>2, <3>3 DEF Promises, AnswersAreRecent, FetchesAreSpaced, PollsLeaveRoom
  <2>5. CASE k \notin set
    <3>1. told' = {[answer |-> "unknown", key |-> {k}]}
      BY <1>1, <1>5, <2>5 DEF Says
    <3>2. ToldOf("unknown")' = {k} /\ ToldOf("verified")' = {} /\ ToldOf("fetch")' = {} /\ ~(\E t \in told' : t.answer = "busy")
      BY <1>1, <3>1 DEF ToldOf
    <3>3. k \notin gateway'.keys \/ Lately(k, Cooldown + FetchWithin)'
      BY <1>1, <1>3, <1>9, <2>2, <2>3, <2>5
    <3>. QED BY <3>2, <3>3 DEF Promises, AnswersAreRecent, FetchesAreSpaced, PollsLeaveRoom
  <2>. QED BY <2>4, <2>5
<1>. QED BY <1>7, <1>11, <1>12, <1>13, <1>14 DEF CacheInv

LEMMA InstantPassesKept ==
    ASSUME CacheInv, InstantPasses
    PROVE  CacheInv' /\ Promises'
<1>1. instant \in Nat /\ instant' = instant + 1 /\ UNCHANGED <<gateway, cache, refreshing, calls, free, unhelped>>
      /\ cache \in Cache /\ calls \in [Requests -> Request]
      /\ Lifetime \in Nat /\ Cooldown \in Nat /\ FetchWithin \in Nat
  BY IngressAssumption DEF CacheInv, Types, InstantPasses
<1>2. Types'
  BY <1>1 DEF CacheInv, Types
<1>3. ASSUME NEW r \in Requests PROVE FetchingOf(r)'
  <2>1. FetchingOf(r) /\ calls[r].since \in Nat
    BY <1>1 DEF CacheInv, Fetching, Request
  <2>2. IsAt(r, "fetching") => instant < calls[r].since + FetchWithin
    BY DEF InstantPasses
  <2>. QED BY <1>1, <2>1, <2>2 DEF FetchingOf, IsAt, Still
<1>4. Caching'
  BY <1>1 DEF CacheInv, Caching, Still, Cache
<1>5. unhelped \in SUBSET Nat
  BY DEF CacheInv, Types
<1>6. Spacing'
  BY <1>1, <1>5 DEF CacheInv, Spacing, Cache, IsAt
<1>7. told' = {}
  BY DEF InstantPasses
<1>. QED BY <1>2, <1>3, <1>4, <1>6, <1>7, TellsNothing DEF CacheInv, Fetching

-----------------------------------------------------------------------------
(* Permits *)

(* What is free and what is held add up, when one request changes and its permit with it. *)
LEMMA Counting ==
    ASSUME NEW S, IsFiniteSet(S), NEW r \in S, NEW A \in SUBSET S, NEW B \in SUBSET S, A \ {r} = B \ {r},
           NEW n \in Nat, NEW m \in Nat, NEW limit,
           n + Cardinality(A) = limit,
           m + (IF r \in B THEN 1 ELSE 0) = n + (IF r \in A THEN 1 ELSE 0)
    PROVE  m + Cardinality(B) = limit
<1>1. IsFiniteSet(A) /\ IsFiniteSet(B) /\ Cardinality(A) \in Nat /\ Cardinality(B) \in Nat
  BY FS_Subset, FS_CardinalityType
<1>2. Cardinality(A \ {r}) = IF r \in A THEN Cardinality(A) - 1 ELSE Cardinality(A)
  BY <1>1, FS_RemoveElement
<1>3. Cardinality(B \ {r}) = IF r \in B THEN Cardinality(B) - 1 ELSE Cardinality(B)
  BY <1>1, FS_RemoveElement
<1>. QED BY <1>1, <1>2, <1>3

Held(x) == IF x.at \in {"reading", "serving", "streaming"} THEN 1 ELSE 0
PollHeld(x) == IF x.at \in {"serving", "streaming"} /\ x.poll THEN 1 ELSE 0

LEMMA PermitsKept ==
    ASSUME Types, Permits, NEW r \in Requests, NEW x \in Request, calls' = [calls EXCEPT ![r] = x],
           free' \in [capacity : Nat, polls : Nat],
           free'.capacity + Held(x) = free.capacity + Held(calls[r]),
           free'.polls + PollHeld(x) = free.polls + PollHeld(calls[r])
    PROVE  Permits'
<1>1. calls'[r] = x /\ \A q \in Requests : q # r => calls'[q] = calls[q]
  BY Putting
<1>2. /\ r \in AdmittedOnes <=> Held(calls[r]) = 1
      /\ r \in AdmittedOnes' <=> Held(x) = 1
      /\ r \in PollsOpen <=> PollHeld(calls[r]) = 1
      /\ r \in PollsOpen' <=> PollHeld(x) = 1
  BY <1>1 DEF AdmittedOnes, PollsOpen, Admitted, PollAdmitted, Held, PollHeld
<1>3. Held(x) \in {0, 1} /\ Held(calls[r]) \in {0, 1} /\ PollHeld(x) \in {0, 1} /\ PollHeld(calls[r]) \in {0, 1}
  BY DEF Held, PollHeld
<1>4. AdmittedOnes \ {r} = AdmittedOnes' \ {r} /\ PollsOpen \ {r} = PollsOpen' \ {r}
  BY <1>1 DEF AdmittedOnes, PollsOpen, Admitted, PollAdmitted
<1>5. AdmittedOnes \in SUBSET Requests /\ AdmittedOnes' \in SUBSET Requests
      /\ PollsOpen \in SUBSET Requests /\ PollsOpen' \in SUBSET Requests
  BY DEF AdmittedOnes, PollsOpen
<1>6. IsFiniteSet(Requests) /\ free \in [capacity : Nat, polls : Nat]
  BY IngressAssumption DEF Types
<1>7. free'.capacity + Cardinality(AdmittedOnes') = InFlight
  <2>1. free'.capacity + (IF r \in AdmittedOnes' THEN 1 ELSE 0) = free.capacity + (IF r \in AdmittedOnes THEN 1 ELSE 0)
    BY <1>2, <1>3
  <2>2. free.capacity + Cardinality(AdmittedOnes) = InFlight
    BY DEF Permits
  <2>. QED BY <1>4, <1>5, <1>6, <2>1, <2>2, Counting
<1>8. free'.polls + Cardinality(PollsOpen') = PollsInFlight
  <2>1. free'.polls + (IF r \in PollsOpen' THEN 1 ELSE 0) = free.polls + (IF r \in PollsOpen THEN 1 ELSE 0)
    BY <1>2, <1>3
  <2>2. free.polls + Cardinality(PollsOpen) = PollsInFlight
    BY DEF Permits
  <2>. QED BY <1>4, <1>5, <1>6, <2>1, <2>2, Counting
<1>. QED BY <1>7, <1>8 DEF Permits

(* A request is turned away while every permit is held, and polls hold no more than theirs. *)
LEMMA TurnedAwayForOthers ==
    ASSUME IngressInv, NEW r \in Requests, TurnAway(r)
    PROVE  Promises'
<1>. DEFINE others == {q \in Requests : Admitted(q) /\ ~PollAdmitted(q)}
<1>1. IsFiniteSet(AdmittedOnes) /\ IsFiniteSet(PollsOpen) /\ IsFiniteSet(Requests)
      /\ Cardinality(AdmittedOnes) \in Nat /\ Cardinality(PollsOpen) \in Nat
  BY IngressAssumption, FS_Subset, FS_CardinalityType DEF AdmittedOnes, PollsOpen
<1>2. Cardinality(AdmittedOnes) = InFlight /\ Cardinality(PollsOpen) <= PollsInFlight
  BY <1>1, IngressAssumption DEF IngressInv, CacheInv, Types, Permits, TurnAway
<1>3. others = AdmittedOnes \ PollsOpen /\ AdmittedOnes \cap PollsOpen = PollsOpen
  BY DEF AdmittedOnes, PollsOpen, Admitted, PollAdmitted
<1>4. Cardinality(others) >= InFlight - PollsInFlight
  <2>1. Cardinality(AdmittedOnes \ PollsOpen) = Cardinality(AdmittedOnes) - Cardinality(AdmittedOnes \cap PollsOpen)
    BY <1>1, FS_Difference
  <2>2. Cardinality(others) = Cardinality(AdmittedOnes) - Cardinality(PollsOpen)
    BY <1>3, <2>1
  <2>3. InFlight \in Nat /\ PollsInFlight \in Nat
    BY IngressAssumption
  <2>. QED BY <1>1, <1>2, <2>2, <2>3
<1>5. calls' = [calls EXCEPT ![r] = Idle] /\ IsAt(r, "verified") /\ Idle.at = "idle"
      /\ told' = {[answer |-> "busy", key |-> calls[r].key]}
  BY DEF TurnAway, Says, Idle
<1>6. others' = others
  <2>1. calls'[r] = Idle /\ \A q \in Requests : q # r => calls'[q] = calls[q]
    BY <1>5, Putting, Shapes DEF IngressInv, CacheInv
  <2>2. \A q \in Requests : (Admitted(q) /\ ~PollAdmitted(q))' <=> Admitted(q) /\ ~PollAdmitted(q)
    BY <1>5, <2>1 DEF Admitted, PollAdmitted, IsAt
  <2>. QED BY <2>2
<1>7. ToldOf("verified")' = {} /\ ToldOf("unknown")' = {} /\ ToldOf("fetch")' = {}
  BY <1>5 DEF ToldOf
<1>. QED BY <1>4, <1>6, <1>7 DEF Promises, AnswersAreRecent, FetchesAreSpaced, PollsLeaveRoom

-----------------------------------------------------------------------------
(* Requests that are admitted, served and dropped *)

(* A step of one request that is not about keys or permits, but to what it is at. *)
LEMMA PassingKept ==
    ASSUME IngressInv, NEW r \in Requests, NEW x \in Request, calls' = [calls EXCEPT ![r] = x],
           x.at # "fetching", x.got = {},
           x.at \in {"asking", "waiting"} => \E k \in Keys : x.key = {k},
           refreshing' = refreshing \/ refreshing' = refreshing \ {r},
           free' \in [capacity : Nat, polls : Nat],
           free'.capacity + Held(x) = free.capacity + Held(calls[r]),
           free'.polls + PollHeld(x) = free.polls + PollHeld(calls[r]),
           UNCHANGED <<gateway, cache, unhelped, instant>>
    PROVE  IngressInv'
  BY Passing, PermitsKept DEF IngressInv, CacheInv

LEMMA ArriveKept ==
    ASSUME IngressInv, NEW r \in Requests, ArriveAlone(r) \/ \E k \in Keys : Arrive(r, k)
    PROVE  IngressInv' /\ Promises'
<1>0. calls[r] \in Request /\ free \in [capacity : Nat, polls : Nat] /\ told' = {} /\ IsAt(r, "idle")
      /\ UNCHANGED <<gateway, cache, refreshing, free, unhelped, instant>>
  BY DEF IngressInv, CacheInv, Types, ArriveAlone, Arrive, Proceeds, Puts
<1>1. CASE ArriveAlone(r)
  <2>. DEFINE x == [calls[r] EXCEPT !.at = "verified"]
  <2>1. x \in Request /\ x.at = "verified" /\ x.got = {} /\ calls' = [calls EXCEPT ![r] = x]
    <3>1. calls[r].got = {}
      BY <1>0 DEF IngressInv, CacheInv, Fetching, FetchingOf, IsAt
    <3>. QED BY <1>0, <1>1, <3>1 DEF ArriveAlone, Proceeds, Puts, Request, Phase
  <2>2. Held(x) = 0 /\ Held(calls[r]) = 0 /\ PollHeld(x) = 0 /\ PollHeld(calls[r]) = 0
    BY <1>0, <2>1 DEF Held, PollHeld, IsAt
  <2>. QED BY <1>0, <2>1, <2>2, PassingKept, TellsNothing
<1>2. ASSUME NEW k \in Keys, Arrive(r, k) PROVE IngressInv' /\ Promises'
  <2>. DEFINE x == [Idle EXCEPT !.at = "asking", !.key = {k}]
  <2>1. x \in Request /\ x.at = "asking" /\ x.key = {k} /\ x.got = {} /\ calls' = [calls EXCEPT ![r] = x]
    BY <1>2 DEF Arrive, Puts, Request, Phase, Idle
  <2>2. Held(x) = 0 /\ Held(calls[r]) = 0 /\ PollHeld(x) = 0 /\ PollHeld(calls[r]) = 0
    BY <1>0, <2>1 DEF Held, PollHeld, IsAt
  <2>. QED BY <1>0, <2>1, <2>2, PassingKept, TellsNothing
<1>. QED BY <1>1, <1>2

LEMMA RefusedKept ==
    ASSUME IngressInv, NEW r \in Requests, Unverifiable(r) \/ TurnAway(r)
    PROVE  IngressInv' /\ Promises'
<1>1. calls' = [calls EXCEPT ![r] = Idle] /\ Idle \in Request /\ Idle.at = "idle" /\ Idle.got = {} /\ IsAt(r, "verified")
      /\ UNCHANGED <<gateway, cache, refreshing, free, unhelped, instant>> /\ free \in [capacity : Nat, polls : Nat]
  BY Shapes DEF Unverifiable, TurnAway, Says, Idle, IngressInv, CacheInv, Types
<1>2. Held(Idle) = 0 /\ Held(calls[r]) = 0 /\ PollHeld(Idle) = 0 /\ PollHeld(calls[r]) = 0
  BY <1>1 DEF Held, PollHeld, IsAt
<1>3. IngressInv'
  BY <1>1, <1>2, PassingKept
<1>4. CASE Unverifiable(r)
  BY <1>3, <1>4, TellsNothing DEF Unverifiable, Says
<1>5. CASE TurnAway(r)
  BY <1>3, <1>5, TurnedAwayForOthers
<1>. QED BY <1>4, <1>5

LEMMA ServedKept ==
    ASSUME IngressInv, NEW r \in Requests,
           Admit(r) \/ Classified(r, TRUE) \/ Classified(r, FALSE) \/ Respond(r)
    PROVE  IngressInv' /\ Promises'
<1>1. calls[r] \in Request /\ free \in [capacity : Nat, polls : Nat] /\ told' = {}
      /\ UNCHANGED <<gateway, cache, refreshing, unhelped, instant>>
  BY DEF IngressInv, CacheInv, Types, Admit, Classified, Respond, Proceeds, Puts
<1>2. calls[r].got = {}
  BY DEF IngressInv, CacheInv, Fetching, FetchingOf, IsAt, Admit, Classified, Respond
<1>3. CASE Admit(r)
  <2>. DEFINE x == [calls[r] EXCEPT !.at = "reading"]
  <2>1. x \in Request /\ x.at = "reading" /\ x.got = {} /\ calls' = [calls EXCEPT ![r] = x]
    BY <1>1, <1>2, <1>3 DEF Admit, Proceeds, Puts, Request, Phase
  <2>2. Held(x) = 1 /\ Held(calls[r]) = 0 /\ PollHeld(x) = 0 /\ PollHeld(calls[r]) = 0
    BY <1>3, <2>1 DEF Held, PollHeld, IsAt, Admit
  <2>3. free' \in [capacity : Nat, polls : Nat] /\ free'.capacity + 1 = free.capacity /\ free'.polls = free.polls
    BY <1>1, <1>3 DEF Admit
  <2>4. free'.capacity + Held(x) = free.capacity + Held(calls[r]) /\ free'.polls + PollHeld(x) = free.polls + PollHeld(calls[r])
    BY <1>1, <2>2, <2>3
  <2>. QED BY <1>1, <2>1, <2>3, <2>4, PassingKept, TellsNothing
<1>4. ASSUME NEW poll \in BOOLEAN, Classified(r, poll) PROVE IngressInv' /\ Promises'
  <2>. DEFINE x == [calls[r] EXCEPT !.at = "serving", !.poll = poll]
  <2>1. x \in Request /\ x.at = "serving" /\ x.poll = poll /\ x.got = {} /\ calls' = [calls EXCEPT ![r] = x]
    BY <1>1, <1>2, <1>4 DEF Classified, Puts, Request, Phase
  <2>2. Held(x) = 1 /\ Held(calls[r]) = 1 /\ PollHeld(calls[r]) = 0
    BY <1>4, <2>1 DEF Held, PollHeld, IsAt, Classified
  <2>3. CASE poll
    <3>1. free' \in [capacity : Nat, polls : Nat] /\ free'.capacity = free.capacity /\ free'.polls + 1 = free.polls
      BY <1>1, <1>4, <2>3 DEF Classified
    <3>2. PollHeld(x) = 1
      BY <2>1, <2>3 DEF PollHeld
    <3>3. free'.capacity + Held(x) = free.capacity + Held(calls[r]) /\ free'.polls + PollHeld(x) = free.polls + PollHeld(calls[r])
      BY <1>1, <2>2, <3>1, <3>2
    <3>. QED BY <1>1, <2>1, <3>1, <3>3, PassingKept, TellsNothing
  <2>4. CASE ~poll
    <3>1. free' = free
      BY <1>4, <2>4 DEF Classified
    <3>2. PollHeld(x) = 0
      BY <2>1, <2>4 DEF PollHeld
    <3>. QED BY <1>1, <2>1, <2>2, <3>1, <3>2, PassingKept, TellsNothing
  <2>. QED BY <2>3, <2>4
<1>5. CASE Respond(r)
  <2>. DEFINE x == [calls[r] EXCEPT !.at = "streaming"]
  <2>1. x \in Request /\ x.at = "streaming" /\ x.poll = calls[r].poll /\ x.got = {} /\ calls' = [calls EXCEPT ![r] = x]
        /\ free' = free
    BY <1>1, <1>2, <1>5 DEF Respond, Proceeds, Puts, Request, Phase
  <2>2. Held(x) = 1 /\ Held(calls[r]) = 1 /\ PollHeld(x) = PollHeld(calls[r])
    BY <1>5, <2>1 DEF Held, PollHeld, IsAt, Respond
  <2>. QED BY <1>1, <2>1, <2>2, PassingKept, TellsNothing
<1>. QED BY <1>3, <1>4, <1>5

LEMMA DropKept ==
    ASSUME IngressInv, NEW r \in Requests, Drop(r)
    PROVE  IngressInv' /\ Promises'
<1>1. calls' = [calls EXCEPT ![r] = Idle] /\ Idle \in Request /\ Idle.at = "idle" /\ Idle.got = {} /\ told' = {}
      /\ refreshing' = refreshing \ {r} /\ UNCHANGED <<gateway, cache, unhelped, instant>>
      /\ free \in [capacity : Nat, polls : Nat]
  BY Shapes DEF Drop, Puts, Idle, IngressInv, CacheInv, Types
<1>2. free' = [capacity |-> free.capacity + Held(calls[r]), polls |-> free.polls + PollHeld(calls[r])]
  BY <1>1 DEF Drop, Held, PollHeld, Admitted, PollAdmitted
<1>3. Held(calls[r]) \in {0, 1} /\ PollHeld(calls[r]) \in {0, 1} /\ Held(Idle) = 0 /\ PollHeld(Idle) = 0
  BY <1>1 DEF Held, PollHeld
<1>4. free' \in [capacity : Nat, polls : Nat]
  BY <1>1, <1>2, <1>3
<1>5. free'.capacity + Held(Idle) = free.capacity + Held(calls[r]) /\ free'.polls + PollHeld(Idle) = free.polls + PollHeld(calls[r])
  BY <1>1, <1>2, <1>3
<1>. QED BY <1>1, <1>4, <1>5, PassingKept, TellsNothing

-----------------------------------------------------------------------------
(* Theorems *)

LEMMA IngressStart == IngressInit => IngressInv
<1>. SUFFICES ASSUME IngressInit PROVE IngressInv
  OBVIOUS
<1>1. PICK keys \in SUBSET Keys :
          /\ gateway = [keys |-> keys, changed |-> [k \in Keys |-> {}]]
          /\ cache \in {[set |-> {}, expiry |-> 0, unknownUntil |-> 0, unavailableUntil |-> 0],
                        [set |-> {keys}, expiry |-> Lifetime, unknownUntil |-> 0, unavailableUntil |-> 0]}
  BY DEF IngressInit
<1>2. /\ calls \in [Requests -> Request] /\ \A r \in Requests : calls[r].at = "idle" /\ calls[r].got = {}
      /\ refreshing = {} /\ unhelped = {} /\ instant = 0 /\ free = [capacity |-> InFlight, polls |-> PollsInFlight]
  BY Shapes DEF IngressInit, Idle
<1>3. Types
  BY <1>1, <1>2, IngressAssumption DEF Types, Cache
<1>4. Fetching
  BY <1>2 DEF Fetching, FetchingOf, IsAt
<1>5. Caching
  BY <1>1, <1>2, IngressAssumption DEF Caching, Still
<1>6. Spacing
  BY <1>2 DEF Spacing
<1>7. Permits
  <2>1. AdmittedOnes = {} /\ PollsOpen = {}
    BY <1>2 DEF AdmittedOnes, PollsOpen, Admitted, PollAdmitted
  <2>. QED BY <1>2, <2>1, FS_EmptySet, IngressAssumption DEF Permits
<1>. QED BY <1>3, <1>4, <1>5, <1>6, <1>7 DEF IngressInv, CacheInv

(* The steps that are about keys only: what a request holds stays as it is. *)
LEMMA AboutKeys ==
    ASSUME IngressInv, NEW r \in Requests,
           GatewayAnswers(r) \/ Look(r) \/ LookAgain(r) \/ FetchFails(r) \/ FetchEnds(r)
    PROVE  Permits'
<1>1. calls \in [Requests -> Request] /\ calls[r].at \in {"asking", "waiting", "fetching"} /\ free' = free
  BY DEF IngressInv, CacheInv, Types, IsAt, GatewayAnswers, Look, LookAgain, FetchFails, FetchEnds
<1>2. \E x : calls' = [calls EXCEPT ![r] = x] /\ x.at \in {"idle", "asking", "waiting", "fetching", "verified"}
  <2>1. ASSUME NEW answer, Says(r, answer)
        PROVE  \E x : calls' = [calls EXCEPT ![r] = x] /\ x.at \in {"idle", "verified"}
    <3>1. Idle.at = "idle" /\ [Idle EXCEPT !.at = "verified"].at = "verified"
      BY DEF Idle
    <3>2. calls' = [calls EXCEPT ![r] = Idle] \/ calls' = [calls EXCEPT ![r] = [Idle EXCEPT !.at = "verified"]]
      BY <2>1 DEF Says
    <3>. QED BY <3>1, <3>2
  <2>2. CASE GatewayAnswers(r)
    <3>1. calls' = [calls EXCEPT ![r] = [calls[r] EXCEPT !.got = {gateway.keys}]]
      BY <2>2 DEF GatewayAnswers, Puts
    <3>2. [calls[r] EXCEPT !.got = {gateway.keys}].at = calls[r].at
      BY <1>1 DEF Request
    <3>. QED BY <1>1, <3>1, <3>2
  <2>3. CASE Look(r)
    <3>1. CASE Cached(KeyOf(r)) = "ask"
      <4>1. calls' = [calls EXCEPT ![r] = [calls[r] EXCEPT !.at = "waiting"]]
        BY <2>3, <3>1 DEF Look, Looked, Proceeds, Puts
      <4>2. [calls[r] EXCEPT !.at = "waiting"].at = "waiting"
        BY <1>1 DEF Request
      <4>. QED BY <4>1, <4>2
    <3>2. CASE Cached(KeyOf(r)) # "ask"
      BY <2>1, <2>3, <3>2 DEF Look, Looked
    <3>. QED BY <3>1, <3>2
  <2>4. CASE LookAgain(r)
    <3>1. CASE Cached(KeyOf(r)) = "ask"
      <4>1. calls' = [calls EXCEPT ![r] = [calls[r] EXCEPT !.at = "fetching", !.since = instant]]
        BY <1>1, <2>4, <3>1 DEF LookAgain, Looked, Fetches, Request
      <4>2. [calls[r] EXCEPT !.at = "fetching", !.since = instant].at = "fetching"
        BY <1>1 DEF Request
      <4>. QED BY <4>1, <4>2
    <3>2. CASE Cached(KeyOf(r)) # "ask"
      BY <2>1, <2>4, <3>2 DEF LookAgain, Looked
    <3>. QED BY <3>1, <3>2
  <2>5. CASE FetchFails(r) \/ FetchEnds(r)
    <3>1. \E answer : Says(r, answer)
      BY <2>5 DEF FetchFails, FetchEnds
    <3>. QED BY <2>1, <3>1
  <2>. QED BY <2>2, <2>3, <2>4, <2>5
<1>3. AdmittedOnes' = AdmittedOnes /\ PollsOpen' = PollsOpen
  BY <1>1, <1>2 DEF AdmittedOnes, PollsOpen, Admitted, PollAdmitted
<1>. QED BY <1>1, <1>3 DEF IngressInv, Permits

LEMMA IngressSteps ==
    ASSUME IngressInv, IngressNext
    PROVE  IngressInv' /\ Promises'
<1>1. CASE vouched /\ \E k \in Keys : Changes(k)
  <2>1. PICK k \in Keys : Changes(k)
    BY <1>1
  <2>2. UNCHANGED <<calls, free>>
    BY <2>1 DEF Changes
  <2>3. Permits'
    BY <2>2 DEF IngressInv, Permits, AdmittedOnes, PollsOpen, Admitted, PollAdmitted
  <2>. QED BY <2>1, <2>3, ChangesKept DEF IngressInv
<1>2. CASE vouched /\ InstantPasses
  <2>1. UNCHANGED <<calls, free>>
    BY <1>2 DEF InstantPasses
  <2>2. Permits'
    BY <2>1 DEF IngressInv, Permits, AdmittedOnes, PollsOpen, Admitted, PollAdmitted
  <2>. QED BY <1>2, <2>2, InstantPassesKept DEF IngressInv
<1>3. ASSUME NEW r \in Requests,
             \/ ArriveAlone(r)
             \/ \E k \in Keys : Arrive(r, k)
             \/ GatewayAnswers(r)
             \/ Look(r) \/ LookAgain(r) \/ FetchFails(r) \/ FetchEnds(r) \/ Unverifiable(r)
             \/ Admit(r) \/ TurnAway(r) \/ Classified(r, TRUE) \/ Classified(r, FALSE) \/ Respond(r) \/ Drop(r)
      PROVE  IngressInv' /\ Promises'
  <2>1. CASE GatewayAnswers(r)
    BY <2>1, GatewayAnswersKept, AboutKeys DEF IngressInv
  <2>2. CASE Look(r)
    BY <2>2, LookKept, AboutKeys DEF IngressInv
  <2>3. CASE LookAgain(r)
    BY <2>3, LookAgainKept, AboutKeys DEF IngressInv
  <2>4. CASE FetchFails(r)
    BY <2>4, FetchFailsKept, AboutKeys DEF IngressInv
  <2>5. CASE FetchEnds(r)
    BY <2>5, FetchEndsKept, AboutKeys DEF IngressInv
  <2>. QED BY <1>3, <2>1, <2>2, <2>3, <2>4, <2>5, ArriveKept, RefusedKept, ServedKept, DropKept
<1>. QED BY <1>1, <1>2, <1>3 DEF IngressNext

(* The inductive invariant and what the three properties say: the mutex, the cache and
   the permits of request_limits.rs agree with what each request is at. *)
THEOREM IngressInvariant == IngressSpec => [](IngressInv /\ Promises)
<1>1. IngressInit => IngressInv /\ Promises
  BY IngressStart, IngressAssumption DEF IngressInit, Promises, AnswersAreRecent, FetchesAreSpaced, PollsLeaveRoom, ToldOf
<1>2. IngressInv /\ Promises /\ [IngressNext]_ingressVars => (IngressInv /\ Promises)'
  <2>1. CASE IngressNext
    BY <2>1, IngressSteps
  <2>2. CASE UNCHANGED ingressVars
    BY <2>2 DEF ingressVars, IngressInv, CacheInv, Types, Fetching, FetchingOf, IsAt, Caching, Still, Spacing, Permits,
                AdmittedOnes, PollsOpen, Admitted, PollAdmitted,
                Promises, AnswersAreRecent, FetchesAreSpaced, PollsLeaveRoom, ToldOf, Lately
  <2>. QED BY <2>1, <2>2
<1>. QED BY <1>1, <1>2, PTL DEF IngressSpec

(* What a request is told of its key (KeyCache::lookup and cached, fetch_keys of
   ingress.rs) is no older than the cache's lifetime, or its cooldown, and a fetch. *)
THEOREM AnswersAlwaysRecent == IngressSpec => []AnswersAreRecent
  BY IngressInvariant, PTL DEF Promises

(* No fetch of the gateway's keys begins within the cooldown after one that failed or
   did not have the key it was for. *)
THEOREM FetchesAlwaysSpaced == IngressSpec => []FetchesAreSpaced
  BY IngressInvariant, PTL DEF Promises

(* admit of request_limits.rs turns a request away only while requests that are not
   admitted polls take the room that polls cannot. *)
THEOREM PollsAlwaysLeaveRoom == IngressSpec => []PollsLeaveRoom
  BY IngressInvariant, PTL DEF Promises

-----------------------------------------------------------------------------
(* The start: helpers *)

LEMMA LeastIsThere ==
  ASSUME NEW T \in SUBSET Nat, T # {}
  PROVE  Min(T) \in T /\ \A y \in T : Min(T) <= y
<1>1. \E x \in T : \A y \in T : ~(<<y, x>> \in OpToRel(<, Nat))
  BY NatLessThanWellFounded, WFMin, Zenon
<1>2. PICK x \in T : \A y \in T : ~(<<y, x>> \in OpToRel(<, Nat))
  BY <1>1
<1>3. \A y \in T : x <= y
  <2>1. \A y \in T : ~(y < x)
    <3>1. ASSUME NEW y \in T, y < x PROVE <<y, x>> \in OpToRel(<, Nat)
      <4>1. <<y, x>> \in Nat \X Nat /\ <<y, x>>[1] = y /\ <<y, x>>[2] = x
        OBVIOUS
      <4>. QED BY <3>1, <4>1, Zenon DEF OpToRel
    <3>. QED BY <1>2, <3>1, Zenon
  <2>. QED BY <2>1
<1>. QED BY <1>3 DEF Min

(* A list of faults, whatever they are. *)
AreFaults(s) == \E T : s \in Seq(T)

(* None of the faults is one. *)
Clear(faults) == \A i \in 1 .. Len(faults) : ~faults[i][1]

LEMMA OneFault ==
  ASSUME NEW a
  PROVE  AreFaults(<<a>>) /\ Len(<<a>>) = 1
<1>1. <<a>> \in Seq({a})
  OBVIOUS
<1>. QED BY <1>1 DEF AreFaults

LEMMA TwoFaults ==
  ASSUME NEW a, NEW b
  PROVE  AreFaults(<<a, b>>) /\ Len(<<a, b>>) = 2
<1>1. <<a, b>> \in Seq({a, b})
  OBVIOUS
<1>. QED BY <1>1 DEF AreFaults

LEMMA ThreeFaults ==
  ASSUME NEW a, NEW b, NEW c
  PROVE  AreFaults(<<a, b, c>>) /\ Len(<<a, b, c>>) = 3
<1>1. <<a, b, c>> \in Seq({a, b, c})
  OBVIOUS
<1>. QED BY <1>1 DEF AreFaults

LEMMA FourFaults ==
  ASSUME NEW a, NEW b, NEW c, NEW d
  PROVE  AreFaults(<<a, b, c, d>>) /\ Len(<<a, b, c, d>>) = 4
<1>1. <<a, b, c, d>> \in Seq({a, b, c, d})
  OBVIOUS
<1>. QED BY <1>1 DEF AreFaults

LEMMA SixFaults ==
  ASSUME NEW a, NEW b, NEW c, NEW d, NEW e, NEW f
  PROVE  AreFaults(<<a, b, c, d, e, f>>) /\ Len(<<a, b, c, d, e, f>>) = 6
<1>1. <<a, b, c, d, e, f>> \in Seq({a, b, c, d, e, f})
  OBVIOUS
<1>. QED BY <1>1 DEF AreFaults

LEMMA ThirteenFaults ==
  ASSUME NEW a, NEW b, NEW c, NEW d, NEW e, NEW f, NEW g, NEW h, NEW i, NEW j, NEW k, NEW l, NEW m
  PROVE  AreFaults(<<a, b, c, d, e, f, g, h, i, j, k, l, m>>)
<1>1. <<a, b, c, d, e, f, g, h, i, j, k, l, m>> \in Seq({a, b, c, d, e, f, g, h, i, j, k, l, m})
  OBVIOUS
<1>. QED BY <1>1 DEF AreFaults

LEMMA ClearJoin ==
  ASSUME NEW s, NEW t, AreFaults(s), AreFaults(t)
  PROVE  AreFaults(s \o t) /\ (Clear(s \o t) => Clear(s) /\ Clear(t))
<1>1. PICK T : s \in Seq(T)
  BY DEF AreFaults
<1>2. PICK U : t \in Seq(U)
  BY DEF AreFaults
<1>3. s \in Seq(T \cup U) /\ t \in Seq(T \cup U) /\ Len(s) \in Nat /\ Len(t) \in Nat
  BY <1>1, <1>2
<1>4. /\ s \o t \in Seq(T \cup U) /\ Len(s \o t) = Len(s) + Len(t)
      /\ \A i \in 1 .. Len(s) + Len(t) : (s \o t)[i] = IF i <= Len(s) THEN s[i] ELSE t[i - Len(s)]
  BY <1>3, ConcatProperties
<1>5. ASSUME Clear(s \o t), NEW i \in 1 .. Len(s) PROVE ~s[i][1]
  <2>1. i \in 1 .. Len(s) + Len(t) /\ i <= Len(s)
    BY <1>3
  <2>. QED BY <1>4, <1>5, <2>1 DEF Clear
<1>6. ASSUME Clear(s \o t), NEW i \in 1 .. Len(t) PROVE ~t[i][1]
  <2>1. i + Len(s) \in 1 .. Len(s) + Len(t) /\ ~(i + Len(s) <= Len(s)) /\ (i + Len(s)) - Len(s) = i
    BY <1>3
  <2>. QED BY <1>4, <1>6, <2>1 DEF Clear
<1>. QED BY <1>4, <1>5, <1>6 DEF Clear, AreFaults

(* `?` lets a start go on that has no fault. *)
LEMMA FirstIsClear ==
  ASSUME NEW s, AreFaults(s), First(s) = <<>>
  PROVE  Clear(s)
<1>. DEFINE found == {i \in DOMAIN s : s[i][1]}
<1>1. First(s) = IF found = {} THEN <<>> ELSE <<s[Min(found)][2]>>
  BY DEF First
<1>. HIDE DEF found
<1>2. found = {}
  BY <1>1
<1>3. DOMAIN s = 1 .. Len(s)
  BY DEF AreFaults
<1>. QED BY <1>2, <1>3 DEF Clear, found

(* The four surfaces one after the other. *)
LEMMA FlattenFour ==
  ASSUME NEW T, NEW s \in [1 .. 4 -> T]
  PROVE  FlattenSeq(s) = ((s[1] \o s[2]) \o s[3]) \o s[4]
<1>. DEFINE step(f) == [i \in 1 .. 4 |-> IF i = 1 THEN s[i] ELSE f[i - 1] \o s[i]]
            chosen == CHOOSE f : f = step(f)
            made == [i \in 1 .. 4 |-> IF i = 1 THEN s[1] ELSE IF i = 2 THEN s[1] \o s[2]
                                      ELSE IF i = 3 THEN (s[1] \o s[2]) \o s[3]
                                      ELSE ((s[1] \o s[2]) \o s[3]) \o s[4]]
<1>1. Len(s) = 4
  OBVIOUS
<1>2. FlattenSeq(s) = chosen[4]
  BY <1>1 DEF FlattenSeq
<1>3. made = step(made)
  OBVIOUS
<1>4. chosen = step(chosen)
  BY <1>3
<1>. HIDE DEF chosen
<1>5. \A i \in 1 .. 4 : chosen[i] = IF i = 1 THEN s[i] ELSE chosen[i - 1] \o s[i]
  <2>1. chosen = [i \in 1 .. 4 |-> IF i = 1 THEN s[i] ELSE chosen[i - 1] \o s[i]]
    BY <1>4
  <2>. QED BY <2>1
<1>6. /\ chosen[1] = s[1]
      /\ chosen[2] = chosen[1] \o s[2]
      /\ chosen[3] = chosen[2] \o s[3]
      /\ chosen[4] = chosen[3] \o s[4]
  <2>1. 1 \in 1 .. 4 /\ 2 \in 1 .. 4 /\ 3 \in 1 .. 4 /\ 4 \in 1 .. 4 /\ 2 - 1 = 1 /\ 3 - 1 = 2 /\ 4 - 1 = 3
    OBVIOUS
  <2>. QED BY <1>5, <2>1
<1>. QED BY <1>2, <1>6

LEMMA ClearFour ==
  ASSUME NEW T, NEW s \in [1 .. 4 -> T], \A i \in 1 .. 4 : AreFaults(s[i])
  PROVE  AreFaults(FlattenSeq(s)) /\ (Clear(FlattenSeq(s)) => \A i \in 1 .. 4 : Clear(s[i]))
<1>1. AreFaults(s[1]) /\ AreFaults(s[2]) /\ AreFaults(s[3]) /\ AreFaults(s[4])
  OBVIOUS
<1>2. AreFaults(s[1] \o s[2]) /\ (Clear(s[1] \o s[2]) => Clear(s[1]) /\ Clear(s[2]))
  BY <1>1, ClearJoin
<1>3. /\ AreFaults((s[1] \o s[2]) \o s[3])
      /\ Clear((s[1] \o s[2]) \o s[3]) => Clear(s[1] \o s[2]) /\ Clear(s[3])
  BY <1>1, <1>2, ClearJoin
<1>4. /\ AreFaults(((s[1] \o s[2]) \o s[3]) \o s[4])
      /\ Clear(((s[1] \o s[2]) \o s[3]) \o s[4]) => Clear((s[1] \o s[2]) \o s[3]) /\ Clear(s[4])
  BY <1>1, <1>3, ClearJoin
<1>5. \A i \in 1 .. 4 : i = 1 \/ i = 2 \/ i = 3 \/ i = 4
  OBVIOUS
<1>. QED BY <1>2, <1>3, <1>4, <1>5, FlattenFour

-----------------------------------------------------------------------------
(* What a start that goes on has found clear *)

LEMMA ProcessFaultsAre ==
  ASSUME NEW e
  PROVE  /\ AreFaults(ProcessFaults(e))
         /\ Clear(ProcessFaults(e)) =>
              /\ Stdio(e) => AuditSink(e) \in Paths /\ LogSink(e) # "stdout"
              /\ AuditSink(e) # LogSink(e)
<1>1. AreFaults(ProcessFaults(e)) /\ Len(ProcessFaults(e)) = 6
  BY SixFaults DEF ProcessFaults
<1>2. ASSUME Clear(ProcessFaults(e))
      PROVE  /\ Stdio(e) => AuditSink(e) \in Paths /\ LogSink(e) # "stdout"
             /\ AuditSink(e) # LogSink(e)
  <2>1. /\ ProcessFaults(e)[4][1] = (Stdio(e) /\ AuditSink(e) \notin Paths)
        /\ ProcessFaults(e)[5][1] = (Stdio(e) /\ LogSink(e) = "stdout")
        /\ ProcessFaults(e)[6][1] = (AuditSink(e) = LogSink(e))
    BY DEF ProcessFaults
  <2>2. ~ProcessFaults(e)[4][1] /\ ~ProcessFaults(e)[5][1] /\ ~ProcessFaults(e)[6][1]
    BY <1>1, <1>2, <2>1 DEF Clear
  <2>. QED BY <2>1, <2>2
<1>. QED BY <1>1, <1>2

LEMMA ModeFaultsAre ==
  ASSUME NEW e
  PROVE  AreFaults(ModeFaults(e))
<1>. DEFINE foreign == IF Gateway(e) THEN OfStandalone ELSE OfGateway
            middle == [i \in DOMAIN foreign |-> <<Given(e, foreign[i]), {foreign[i]}>>]
            front == << <<~Given(e, "REGISTRY"), {"REGISTRY"}>>,
                        <<e["AUTH_MODE"] = "bad" \/ (Gateway(e) /\ Stdio(e)), {"AUTH_MODE"}>> >>
            back == << <<Stdio(e) = Given(e, AgentVar(e)), {AgentVar(e)}>> >>
<1>1. AreFaults(front)
  BY TwoFaults
<1>2. AreFaults(back)
  BY OneFault
<1>3. AreFaults(middle)
  <2>1. \E n \in Nat : DOMAIN foreign = 1 .. n
    <3>1. DOMAIN OfStandalone = 1 .. 4 /\ DOMAIN OfGateway = 1 .. 6
      BY DEF OfStandalone, OfGateway
    <3>. QED BY <3>1
  <2>. HIDE DEF foreign
  <2>2. PICK n \in Nat : DOMAIN foreign = 1 .. n
    BY <2>1
  <2>3. middle \in Seq({<<Given(e, foreign[i]), {foreign[i]}>> : i \in 1 .. n})
    BY <2>2
  <2>. QED BY <2>3 DEF AreFaults
<1>4. ModeFaults(e) = (front \o middle) \o back
  BY DEF ModeFaults
<1>. HIDE DEF front, middle, back
<1>. QED BY <1>1, <1>2, <1>3, <1>4, ClearJoin

LEMMA ReviewFaultsAre ==
  ASSUME NEW e
  PROVE  /\ AreFaults(ReviewFaults(e))
         /\ Clear(ReviewFaults(e)) =>
              (e["REVIEW"] \in {"all", "privileged"} => Given(e, ProxyVar(e)) /\ Given(e, "DASHBOARD"))
<1>1. AreFaults(ReviewFaults(e)) /\ Len(ReviewFaults(e)) = 6
  BY SixFaults DEF ReviewFaults
<1>2. ASSUME Clear(ReviewFaults(e)), e["REVIEW"] \in {"all", "privileged"}
      PROVE  Given(e, ProxyVar(e)) /\ Given(e, "DASHBOARD")
  <2>1. /\ ReviewFaults(e)[5][1] = (e["REVIEW"] \in {"all", "privileged"} /\ ~Given(e, ProxyVar(e)))
        /\ ReviewFaults(e)[6][1] = (e["REVIEW"] \in {"all", "privileged"} /\ ~Given(e, "DASHBOARD"))
    BY DEF ReviewFaults
  <2>2. ~ReviewFaults(e)[5][1] /\ ~ReviewFaults(e)[6][1]
    BY <1>1, <1>2, <2>1 DEF Clear
  <2>. QED BY <1>2, <2>1, <2>2
<1>. QED BY <1>1, <1>2

LEMMA EvaluatorFaultsAre ==
  ASSUME NEW e
  PROVE  AreFaults(EvaluatorFaults(e))
BY ThreeFaults DEF EvaluatorFaults

LEMMA IdentityFaultsAre ==
  ASSUME NEW e
  PROVE  /\ AreFaults(IdentityFaults(e))
         /\ Clear(IdentityFaults(e)) =>
              Gateway(e) \/ {Principal(e), Operator(e)} \cap TokensOf(e) = {}
<1>1. CASE Gateway(e)
  BY <1>1, TwoFaults DEF IdentityFaults
<1>2. CASE ~Gateway(e)
  <2>. DEFINE faults == << <<Principal(e) = "bad", {"PRINCIPAL"}>>, <<Operator(e) = "bad", {"OPERATOR_NAME"}>>,
                           <<Principal(e) \in TokensOf(e), {"PRINCIPAL"}>>,
                           <<Operator(e) \in TokensOf(e), {"OPERATOR_NAME"}>> >>
  <2>1. IdentityFaults(e) = faults
    BY <1>2 DEF IdentityFaults
  <2>2. AreFaults(faults) /\ Len(faults) = 4
    BY FourFaults
  <2>3. faults[3][1] = (Principal(e) \in TokensOf(e)) /\ faults[4][1] = (Operator(e) \in TokensOf(e))
    OBVIOUS
  <2>. HIDE DEF faults
  <2>4. ASSUME Clear(faults) PROVE Principal(e) \notin TokensOf(e) /\ Operator(e) \notin TokensOf(e)
    <3>1. ~faults[3][1] /\ ~faults[4][1]
      BY <2>2, <2>4 DEF Clear
    <3>. QED BY <2>3, <3>1
  <2>. QED BY <2>1, <2>2, <2>4
<1>. QED BY <1>1, <1>2

LEMMA OtherFaultsAre ==
  ASSUME NEW e
  PROVE  AreFaults(OtherFaults(e))
BY ThirteenFaults DEF OtherFaults

LEMMA SharedFaultsAre ==
  ASSUME NEW e
  PROVE  /\ AreFaults(SharedFaults(e))
         /\ Clear(SharedFaults(e)) =>
              \A i, j \in 1 .. 4 : i # j => Takes(e, Surfaces(e)[i]) \cap Takes(e, Surfaces(e)[j]) = {}
<1>. DEFINE Checks(i) == << <<e[Surfaces(e)[i].current] \in TakenBefore(e, i), {Surfaces(e)[i].current}>>,
                            <<e[Surfaces(e)[i].previous] \in TakenBefore(e, i), {Surfaces(e)[i].previous}>> >>
            s == [i \in 1 .. 4 |-> Checks(i)]
<1>1. ASSUME NEW i \in 1 .. 4
      PROVE  /\ AreFaults(Checks(i))
             /\ Clear(Checks(i)) => /\ e[Surfaces(e)[i].current] \notin TakenBefore(e, i)
                                    /\ e[Surfaces(e)[i].previous] \notin TakenBefore(e, i)
  <2>. DEFINE current == Surfaces(e)[i].current
              previous == Surfaces(e)[i].previous
              before == TakenBefore(e, i)
              c == e[current] \in before
              p == e[previous] \in before
  <2>1. Checks(i) = << <<c, {current}>>, <<p, {previous}>> >>
    OBVIOUS
  <2>. HIDE DEF Checks, c, p, current, previous
  <2>2. AreFaults(Checks(i)) /\ Len(Checks(i)) = 2 /\ Checks(i)[1][1] = c /\ Checks(i)[2][1] = p
    BY <2>1, TwoFaults
  <2>3. Clear(Checks(i)) => ~c /\ ~p
    BY <2>2 DEF Clear
  <2>. QED BY <2>2, <2>3 DEF c, p, current, previous
<1>2. SharedFaults(e) = FlattenSeq(s)
  BY DEF SharedFaults
<1>. HIDE DEF Checks
<1>3. s \in [1 .. 4 -> {Checks(i) : i \in 1 .. 4}] /\ \A i \in 1 .. 4 : s[i] = Checks(i) /\ AreFaults(s[i])
  BY <1>1
<1>. HIDE DEF s
<1>4. AreFaults(SharedFaults(e)) /\ (Clear(SharedFaults(e)) => \A i \in 1 .. 4 : Clear(s[i]))
  BY <1>2, <1>3, ClearFour
<1>5. ASSUME Clear(SharedFaults(e)), NEW i \in 1 .. 4, NEW j \in 1 .. 4, i < j
      PROVE  Takes(e, Surfaces(e)[i]) \cap Takes(e, Surfaces(e)[j]) = {}
  <2>1. Takes(e, Surfaces(e)[i]) \subseteq TakenBefore(e, j)
    <3>1. i \in 1 .. j - 1
      BY <1>5
    <3>. QED BY <3>1 DEF TakenBefore
  <2>2. /\ e[Surfaces(e)[j].current] \notin TakenBefore(e, j)
        /\ e[Surfaces(e)[j].previous] \notin TakenBefore(e, j)
    BY <1>1, <1>3, <1>4, <1>5
  <2>3. \A x \in Takes(e, Surfaces(e)[j]) : x = e[Surfaces(e)[j].current] \/ x = e[Surfaces(e)[j].previous]
    BY DEF Takes
  <2>. QED BY <2>1, <2>2, <2>3
<1>6. ASSUME Clear(SharedFaults(e)), NEW i \in 1 .. 4, NEW j \in 1 .. 4, i # j
      PROVE  Takes(e, Surfaces(e)[i]) \cap Takes(e, Surfaces(e)[j]) = {}
  <2>1. i < j \/ j < i
    BY <1>6
  <2>2. CASE i < j
    BY <1>5, <1>6, <2>2
  <2>3. CASE j < i
    <3>1. Takes(e, Surfaces(e)[j]) \cap Takes(e, Surfaces(e)[i]) = {}
      BY <1>5, <1>6, <2>3
    <3>. QED BY <3>1
  <2>. QED BY <2>1, <2>2, <2>3
<1>. QED BY <1>4, <1>6

LEMMA PairFaultsAre ==
  ASSUME NEW e
  PROVE  AreFaults(PairFaults(e))
<1>. DEFINE Which(i) == IF i = 1 THEN 4 ELSE IF i = 4 THEN 3 ELSE i - 1
            Checks(i) == LET surface == Surfaces(e)[Which(i)]
                         current == surface.current
                         previous == surface.previous
                     IN << <<~Given(e, current) /\ Given(e, previous), {current}>>,
                           <<e[current] = "short", {current}>>,
                           <<e[previous] = "short", {previous}>>,
                           <<Given(e, current) /\ e[current] = e[previous], {previous}>> >>
            s == [i \in 1 .. 4 |-> Checks(i)]
<1>1. ASSUME NEW i \in 1 .. 4 PROVE AreFaults(Checks(i))
  BY FourFaults
<1>2. PairFaults(e) = FlattenSeq(s)
  BY DEF PairFaults
<1>. HIDE DEF Checks
<1>3. s \in [1 .. 4 -> {Checks(i) : i \in 1 .. 4}] /\ \A i \in 1 .. 4 : AreFaults(s[i])
  BY <1>1
<1>. QED BY <1>2, <1>3, ClearFour

(* What the settings of a start that goes on have in common. *)
SettingsFine(e) ==
    /\ \A i, j \in 1 .. 4 : i # j => Takes(e, Surfaces(e)[i]) \cap Takes(e, Surfaces(e)[j]) = {}
    /\ Gateway(e) \/ {Principal(e), Operator(e)} \cap TokensOf(e) = {}
    /\ Stdio(e) => AuditSink(e) \in Paths /\ LogSink(e) # "stdout"
    /\ AuditSink(e) # LogSink(e)
    /\ e["REVIEW"] \in {"all", "privileged"} => Given(e, ProxyVar(e)) /\ Given(e, "DASHBOARD")

LEMMA SettingsAreFine ==
  ASSUME NEW e, First(SettingsFaults(e)) = <<>>
  PROVE  SettingsFine(e)
<1>. DEFINE p == ProcessFaults(e)
            m == ModeFaults(e)
            r == ReviewFaults(e)
            v == EvaluatorFaults(e)
            s == SharedFaults(e)
            b == PairFaults(e)
            i == IdentityFaults(e)
            o == OtherFaults(e)
<1>1. /\ AreFaults(p) /\ AreFaults(m) /\ AreFaults(r) /\ AreFaults(v)
      /\ AreFaults(s) /\ AreFaults(b) /\ AreFaults(i) /\ AreFaults(o)
  BY ProcessFaultsAre, ModeFaultsAre, ReviewFaultsAre, EvaluatorFaultsAre, SharedFaultsAre, PairFaultsAre,
     IdentityFaultsAre, OtherFaultsAre
<1>2. SettingsFaults(e) = p \o m \o r \o v \o s \o b \o i \o o
  BY DEF SettingsFaults
<1>. HIDE DEF p, m, r, v, s, b, i, o
<1>3. AreFaults(p \o m) /\ (Clear(p \o m) => Clear(p))
  BY <1>1, ClearJoin
<1>4. AreFaults(p \o m \o r) /\ (Clear(p \o m \o r) => Clear(p \o m) /\ Clear(r))
  BY <1>1, <1>3, ClearJoin
<1>5. AreFaults(p \o m \o r \o v) /\ (Clear(p \o m \o r \o v) => Clear(p \o m \o r))
  BY <1>1, <1>4, ClearJoin
<1>6. AreFaults(p \o m \o r \o v \o s) /\ (Clear(p \o m \o r \o v \o s) => Clear(p \o m \o r \o v) /\ Clear(s))
  BY <1>1, <1>5, ClearJoin
<1>7. AreFaults(p \o m \o r \o v \o s \o b) /\ (Clear(p \o m \o r \o v \o s \o b) => Clear(p \o m \o r \o v \o s))
  BY <1>1, <1>6, ClearJoin
<1>8. /\ AreFaults(p \o m \o r \o v \o s \o b \o i)
      /\ Clear(p \o m \o r \o v \o s \o b \o i) => Clear(p \o m \o r \o v \o s \o b) /\ Clear(i)
  BY <1>1, <1>7, ClearJoin
<1>9. /\ AreFaults(p \o m \o r \o v \o s \o b \o i \o o)
      /\ Clear(p \o m \o r \o v \o s \o b \o i \o o) => Clear(p \o m \o r \o v \o s \o b \o i)
  BY <1>1, <1>8, ClearJoin
<1>10. Clear(p \o m \o r \o v \o s \o b \o i \o o)
  BY <1>2, <1>9, FirstIsClear
<1>11. Clear(p) /\ Clear(r) /\ Clear(s) /\ Clear(i)
  BY <1>3, <1>4, <1>5, <1>6, <1>7, <1>8, <1>9, <1>10
<1>12. Clear(ProcessFaults(e)) /\ Clear(ReviewFaults(e)) /\ Clear(SharedFaults(e)) /\ Clear(IdentityFaults(e))
  BY <1>11 DEF p, r, s, i
<1>. QED BY <1>12, ProcessFaultsAre, ReviewFaultsAre, SharedFaultsAre, IdentityFaultsAre DEF SettingsFine

(* A single fault. *)
LEMMA OnlyFault ==
  ASSUME NEW condition, NEW fault, First(<<<<condition, fault>>>>) = <<>>
  PROVE  ~condition
<1>1. Clear(<<<<condition, fault>>>>) /\ Len(<<<<condition, fault>>>>) = 1
  BY OneFault, FirstIsClear
<1>2. ~(<<<<condition, fault>>>>[1][1])
  BY <1>1 DEF Clear
<1>. QED BY <1>2

-----------------------------------------------------------------------------
(* The start: the inductive invariant *)

(* What every stage leaves behind it. *)
StartupInv ==
    /\ DOMAIN held = {"A_B", "C"}
    /\ boot.at \in {"outputs", "registry", "credentials", "surfaces", "serving"} => SettingsFine(environment)
    /\ boot.at \in {"registry", "credentials", "surfaces", "serving"} =>
          ~SameOutput(AuditSink(environment), LogSink(environment))
    /\ boot.at \in {"credentials", "surfaces", "serving"} =>
          ~Malformed(registryFile) /\ accounts = AccountsOf(registryFile)
    /\ boot.at \in {"surfaces", "serving"} =>
          /\ ~Collides(accounts)
          /\ \A account \in accounts : KeyFor(account.credential) \in {"usable", "none"}

LEMMA ReadsMoves ==
  ASSUME NEW stage, NEW faults, NEW then, Reads(stage, faults, then)
  PROVE  boot.at = stage /\ (boot'.at = "refused" \/ (boot'.at = then /\ First(faults) = <<>>))
BY DEF Reads, Stage

LEMMA StartupSteps ==
  ASSUME StartupInv, StartupNext
  PROVE  StartupInv'
<1>. USE DEF StartupInv
<1>1. CASE ReadConfig
  <2>1. UNCHANGED <<environment, registryFile, held, accounts>> /\ boot'.at \in {"refused", "settings"}
    BY <1>1, ReadsMoves DEF ReadConfig
  <2>. QED BY <2>1
<1>2. CASE ReadSettings
  <2>1. /\ UNCHANGED <<environment, registryFile, held, accounts>>
        /\ boot'.at = "refused" \/ (boot'.at = "outputs" /\ First(SettingsFaults(environment)) = <<>>)
    BY <1>2, ReadsMoves DEF ReadSettings
  <2>. QED BY <2>1, SettingsAreFine
<1>3. CASE OpenOutputs
  <2>. DEFINE same == SameOutput(AuditSink(environment), LogSink(environment))
  <2>1. UNCHANGED <<environment, registryFile, held, accounts>> /\ boot.at = "outputs"
    BY <1>3, ReadsMoves DEF OpenOutputs
  <2>2. boot'.at = "refused" \/ (boot'.at = "registry" /\ ~same)
    <3>1. CASE Reads("outputs", <<<<same, {"AUDIT_SINK", "LOG_SINK"}>>>>, "registry")
      BY <3>1, ReadsMoves, OnlyFault
    <3>2. CASE \E variable \in {"AUDIT_SINK", "LOG_SINK"} : boot' = Stage("refused", {variable})
      BY <3>2 DEF Stage
    <3>. QED BY <1>3, <3>1, <3>2 DEF OpenOutputs
  <2>. QED BY <2>1, <2>2
<1>4. CASE ReadRegistry
  <2>1. /\ boot.at = "registry" /\ UNCHANGED <<environment, registryFile, held>>
        /\ accounts' = IF boot'.at = "refused" THEN {} ELSE AccountsOf(registryFile)
    BY <1>4, ReadsMoves DEF ReadRegistry
  <2>2. boot'.at = "refused" \/ (boot'.at = "credentials" /\ ~Malformed(registryFile))
    <3>1. CASE Reads("registry", <<<<Malformed(registryFile), {"REGISTRY"}>>>>, "credentials")
      BY <3>1, ReadsMoves, OnlyFault
    <3>2. CASE boot' = Stage("refused", {"REGISTRY"})
      BY <3>2 DEF Stage
    <3>. QED BY <1>4, <3>1, <3>2 DEF ReadRegistry
  <2>. QED BY <2>1, <2>2
<1>5. CASE CheckRegistry
  <2>1. /\ boot.at = "credentials" /\ UNCHANGED <<environment, registryFile, accounts>>
        /\ Reads("credentials", <<<<Collides(accounts), {"REGISTRY"}>>>>, "surfaces")
        /\ held' = Checked(accounts, held)
    BY <1>5, ReadsMoves DEF CheckRegistry
  <2>2. boot'.at = "refused" \/ (boot'.at = "surfaces" /\ ~Collides(accounts))
    BY <2>1, ReadsMoves, OnlyFault
  <2>3. DOMAIN held' = {"A_B", "C"}
    BY <2>1 DEF Checked
  <2>4. ASSUME NEW account \in accounts PROVE held'[Variable(account.credential)] \in {"usable", "none"}
    <3>1. Variable(account.credential) \in DOMAIN held
      BY DEF Variable
    <3>. QED BY <2>1, <3>1 DEF Checked, Usable
  <2>. QED BY <2>1, <2>2, <2>3, <2>4 DEF KeyFor
<1>6. CASE Serve
  <2>1. /\ boot.at = "surfaces" /\ UNCHANGED <<environment, registryFile, held, accounts>>
        /\ boot'.at \in {"serving", "failed"}
    BY <1>6 DEF Serve, Stage
  <2>. QED BY <2>1 DEF KeyFor
<1>. QED BY <1>1, <1>2, <1>3, <1>4, <1>5, <1>6 DEF StartupNext

LEMMA StartupStarts ==
  ASSUME KeysHeld, StartupInit
  PROVE  StartupInv
BY DEF KeysHeld, StartupInit, StartupInv, Stage

LEMMA StartupStays ==
  ASSUME StartupInv, UNCHANGED startupVars
  PROVE  StartupInv'
BY DEF StartupInv, startupVars, KeyFor

LEMMA StartupServes ==
  ASSUME StartupInv
  PROVE  ServesKeptApart
<1>1. SUFFICES ASSUME Serving PROVE TokensApart /\ NamesAreNoCredentials /\ OutputsApart /\ KeysApart /\ Answerable
  BY DEF ServesKeptApart
<1>. DEFINE e == environment
<1>2. /\ SettingsFine(environment) /\ ~SameOutput(AuditSink(environment), LogSink(environment))
      /\ ~Malformed(registryFile) /\ accounts = AccountsOf(registryFile)
      /\ ~Collides(accounts)
      /\ \A account \in accounts : KeyFor(account.credential) \in {"usable", "none"}
  BY <1>1 DEF StartupInv, Serving
<1>3. TokensApart /\ NamesAreNoCredentials
  <2>1. ASSUME NEW i \in 1 .. 4, Surfaces(environment)[i].of # "metrics"
        PROVE  Takes(environment, Surfaces(environment)[i]) \subseteq TokensOf(environment)
    <3>1. Surfaces(environment)[4].of = "metrics"
      BY DEF Surfaces
    <3>2. i \in 1 .. 4 - 1
      BY <2>1, <3>1
    <3>. QED BY <3>2 DEF TokensOf, TakenBefore
  <2>. QED BY <1>2, <2>1 DEF SettingsFine, TokensApart, NamesAreNoCredentials
<1>4. OutputsApart
  <2>1. ASSUME NEW a, NEW b, a # b, ~SameOutput(a, b) PROVE FileAt(a) # FileAt(b)
    BY <2>1 DEF SameOutput, FileAt, Paths
  <2>2. FileAt(AuditSink(environment)) # FileAt(LogSink(environment))
    BY <1>2, <2>1 DEF SettingsFine
  <2>3. Stdio(environment) => AuditSink(environment) # "stdout" /\ LogSink(environment) # "stdout"
    BY <1>2 DEF SettingsFine, Paths
  <2>. QED BY <2>2, <2>3 DEF OutputsApart
<1>5. KeysApart
  <2>1. ASSUME NEW one \in accounts, NEW other \in accounts, one.credential # other.credential
        PROVE  Variable(one.credential) # Variable(other.credential)
    BY <1>2, <2>1 DEF Collides
  <2>2. ASSUME NEW one \in accounts, NEW other \in accounts, one.host = other.host, one.role = other.role
        PROVE  one = other
    <3>. DEFINE account(i, j) == [host |-> registryFile[i].host, pin |-> registryFile[i].pin,
                                  role |-> registryFile[i].roles[j].role,
                                  credential |-> registryFile[i].roles[j].credential]
    <3>1. \A x \in accounts : \E i \in DOMAIN registryFile : \E j \in DOMAIN registryFile[i].roles : x = account(i, j)
      BY <1>2 DEF AccountsOf
    <3>2. PICK i \in DOMAIN registryFile : \E j \in DOMAIN registryFile[i].roles : one = account(i, j)
      BY <3>1
    <3>3. PICK j \in DOMAIN registryFile[i].roles : one = account(i, j)
      BY <3>2
    <3>4. PICK k \in DOMAIN registryFile : \E l \in DOMAIN registryFile[k].roles : other = account(k, l)
      BY <3>1
    <3>5. PICK l \in DOMAIN registryFile[k].roles : other = account(k, l)
      BY <3>4
    <3>6. /\ IsInjective([m \in DOMAIN registryFile |-> registryFile[m].host])
          /\ \A m \in DOMAIN registryFile :
                IsInjective([n \in DOMAIN registryFile[m].roles |-> registryFile[m].roles[n].role])
      BY <1>2 DEF Malformed
    <3>7. registryFile[i].host = registryFile[k].host /\ registryFile[i].roles[j].role = registryFile[k].roles[l].role
      BY <2>2, <3>3, <3>5
    <3>8. i = k
      BY <3>6, <3>7 DEF IsInjective
    <3>9. j = l
      BY <3>6, <3>7, <3>8 DEF IsInjective
    <3>. QED BY <3>3, <3>5, <3>8, <3>9
  <2>3. ASSUME NEW one \in accounts, NEW other \in accounts, <<one.host, one.role>> = <<other.host, other.role>>
        PROVE  one = other
    BY <2>2, <2>3
  <2>. QED BY <1>2, <2>1, <2>3 DEF KeysApart
<1>6. Answerable
  <2>1. SUFFICES ASSUME environment["REVIEW"] \in {"all", "privileged"}
                 PROVE  /\ Listens(environment) /\ Given(environment, "DASHBOARD")
                        /\ Takes(environment, Surfaces(environment)[2]) # {}
    BY DEF Answerable
  <2>2. Given(environment, ProxyVar(environment)) /\ Given(environment, "DASHBOARD")
    BY <1>2, <2>1 DEF SettingsFine
  <2>3. Surfaces(environment)[2].current = ProxyVar(environment)
    BY DEF Surfaces
  <2>4. environment[ProxyVar(environment)] \in Takes(environment, Surfaces(environment)[2])
    BY <2>2, <2>3 DEF Takes
  <2>. QED BY <2>2, <2>4 DEF Listens
<1>. QED BY <1>3, <1>4, <1>5, <1>6

(* The invariant of the start (server lib.rs: serve; process.rs, settings.rs): a stage
   that was passed found what it reads without a fault, and nothing read since has
   changed that. *)
THEOREM StartupInvariant == StartupSpec => []StartupInv
<1>1. KeysHeld /\ StartupInit => StartupInv
  BY StartupStarts
<1>2. StartupInv /\ [StartupNext]_startupVars => StartupInv'
  BY StartupSteps, StartupStays
<1>. QED BY <1>1, <1>2, PTL DEF StartupSpec

(* A process that serves keeps its surfaces, its outputs and its accounts apart, and the
   names its settings give from the tokens of the agent, the operator and the evaluator,
   whatever its environment, its registry and its keys were (settings.rs: from_lookup,
   process.rs: open_outputs, credentials.rs: check_registry). *)
THEOREM ServesApart == StartupSpec => []ServesKeptApart
<1>1. StartupInv => ServesKeptApart
  BY StartupServes
<1>. QED BY <1>1, StartupInvariant, PTL

-----------------------------------------------------------------------------
(* What a refused start says: lists of faults, by what is in them *)

(* None of the faults that are there names the variable. *)
Innocent(faults, v) == \A fault \in Range(faults) : fault[1] => v \notin fault[2]

(* Whatever the faults, only these are named, and something is. *)
NamesOnly(faults, names) == \A fault \in Range(faults) : fault[2] # {} /\ fault[2] \subseteq names

LEMMA RangeIs ==
  ASSUME NEW s, AreFaults(s)
  PROVE  /\ DOMAIN s = 1 .. Len(s) /\ Len(s) \in Nat
         /\ Range(s) = {s[i] : i \in 1 .. Len(s)}
BY DEF AreFaults, Range

LEMMA RangeOfOne == ASSUME NEW a PROVE Range(<<a>>) = {a}
<1>1. DOMAIN <<a>> = {1} /\ <<a>>[1] = a
  OBVIOUS
<1>. QED BY <1>1 DEF Range

LEMMA RangeOfTwo == ASSUME NEW a, NEW b PROVE Range(<<a, b>>) = {a, b}
<1>1. DOMAIN <<a, b>> = {1, 2} /\ <<a, b>>[1] = a /\ <<a, b>>[2] = b
  OBVIOUS
<1>. HIDE DEF Range
<1>. QED BY <1>1 DEF Range

LEMMA RangeOfThree == ASSUME NEW a, NEW b, NEW c PROVE Range(<<a, b, c>>) = {a, b, c}
<1>1. DOMAIN <<a, b, c>> = {1, 2, 3} /\ <<a, b, c>>[1] = a /\ <<a, b, c>>[2] = b /\ <<a, b, c>>[3] = c
  OBVIOUS
<1>. QED BY <1>1 DEF Range

LEMMA RangeOfFour == ASSUME NEW a, NEW b, NEW c, NEW d PROVE Range(<<a, b, c, d>>) = {a, b, c, d}
<1>. DEFINE s == <<a, b, c, d>>
<1>1. DOMAIN s = {1, 2, 3, 4} /\ s[1] = a /\ s[2] = b /\ s[3] = c /\ s[4] = d
  OBVIOUS
<1>. HIDE DEF s
<1>. QED BY <1>1 DEF Range

LEMMA RangeOfSix ==
  ASSUME NEW a, NEW b, NEW c, NEW d, NEW e, NEW f
  PROVE  Range(<<a, b, c, d, e, f>>) = {a, b, c, d, e, f}
<1>. DEFINE s == <<a, b, c, d, e, f>>
<1>1. DOMAIN s = {1, 2, 3, 4, 5, 6} /\ s[1] = a /\ s[2] = b /\ s[3] = c /\ s[4] = d /\ s[5] = e /\ s[6] = f
  OBVIOUS
<1>. HIDE DEF s
<1>. QED BY <1>1 DEF Range

LEMMA RangeOfThirteen ==
  ASSUME NEW a, NEW b, NEW c, NEW d, NEW e, NEW f, NEW g, NEW h, NEW i, NEW j, NEW k, NEW l, NEW m
  PROVE  Range(<<a, b, c, d, e, f, g, h, i, j, k, l, m>>) = {a, b, c, d, e, f, g, h, i, j, k, l, m}
<1>. DEFINE s == <<a, b, c, d, e, f, g, h, i, j, k, l, m>>
<1>1. /\ DOMAIN s = {1, 2, 3, 4, 5, 6, 7, 8, 9, 10, 11, 12, 13}
      /\ s[1] = a /\ s[2] = b /\ s[3] = c /\ s[4] = d /\ s[5] = e /\ s[6] = f /\ s[7] = g
      /\ s[8] = h /\ s[9] = i /\ s[10] = j /\ s[11] = k /\ s[12] = l /\ s[13] = m
  OBVIOUS
<1>. HIDE DEF s
<1>. QED BY <1>1 DEF Range

LEMMA RangeOfJoin ==
  ASSUME NEW s, NEW t, AreFaults(s), AreFaults(t)
  PROVE  Range(s \o t) = Range(s) \cup Range(t)
<1>1. PICK T : s \in Seq(T)
  BY DEF AreFaults
<1>2. PICK U : t \in Seq(U)
  BY DEF AreFaults
<1>3. s \in Seq(T \cup U) /\ t \in Seq(T \cup U) /\ Len(s) \in Nat /\ Len(t) \in Nat
  BY <1>1, <1>2
<1>4. /\ s \o t \in Seq(T \cup U) /\ Len(s \o t) = Len(s) + Len(t)
      /\ \A i \in 1 .. Len(s) + Len(t) : (s \o t)[i] = IF i <= Len(s) THEN s[i] ELSE t[i - Len(s)]
  BY <1>3, ConcatProperties
<1>5. /\ Range(s) = {s[i] : i \in 1 .. Len(s)} /\ Range(t) = {t[i] : i \in 1 .. Len(t)}
      /\ Range(s \o t) = {(s \o t)[i] : i \in 1 .. Len(s) + Len(t)}
  <2>1. AreFaults(s \o t)
    BY ClearJoin
  <2>. QED BY <2>1, <1>4, RangeIs
<1>6. ASSUME NEW i \in 1 .. Len(s) PROVE s[i] \in Range(s \o t)
  <2>1. i \in 1 .. Len(s) + Len(t) /\ i <= Len(s)
    BY <1>3
  <2>. QED BY <1>4, <1>5, <2>1
<1>7. ASSUME NEW i \in 1 .. Len(t) PROVE t[i] \in Range(s \o t)
  <2>1. i + Len(s) \in 1 .. Len(s) + Len(t) /\ ~(i + Len(s) <= Len(s)) /\ (i + Len(s)) - Len(s) = i
    BY <1>3
  <2>. QED BY <1>4, <1>5, <2>1
<1>8. ASSUME NEW i \in 1 .. Len(s) + Len(t) PROVE (s \o t)[i] \in Range(s) \cup Range(t)
  <2>1. CASE i <= Len(s)
    <3>1. i \in 1 .. Len(s)
      BY <1>3, <2>1
    <3>. QED BY <1>4, <1>5, <2>1, <3>1
  <2>2. CASE ~(i <= Len(s))
    <3>1. i - Len(s) \in 1 .. Len(t)
      BY <1>3, <2>2
    <3>. QED BY <1>4, <1>5, <2>2, <3>1
  <2>. QED BY <2>1, <2>2
<1>. QED BY <1>5, <1>6, <1>7, <1>8

(* Two lists that both speak well of a variable do so together. *)
LEMMA BothInnocent ==
  ASSUME NEW s, NEW t, NEW v, AreFaults(s), AreFaults(t), Innocent(s, v), Innocent(t, v)
  PROVE  AreFaults(s \o t) /\ Innocent(s \o t, v)
BY RangeOfJoin, ClearJoin DEF Innocent

LEMMA ClearIs ==
  ASSUME NEW s, AreFaults(s)
  PROVE  Clear(s) <=> \A fault \in Range(s) : ~fault[1]
BY RangeIs DEF Clear

(* The first fault is one that is there ... *)
LEMMA FirstIsThere ==
  ASSUME NEW s, AreFaults(s), First(s) # <<>>
  PROVE  \E fault \in Range(s) : fault[1] /\ First(s) = <<fault[2]>>
<1>. DEFINE found == {i \in DOMAIN s : s[i][1]}
<1>1. First(s) = IF found = {} THEN <<>> ELSE <<s[Min(found)][2]>>
  BY DEF First
<1>2. found \in SUBSET Nat /\ DOMAIN s = 1 .. Len(s) /\ Range(s) = {s[i] : i \in 1 .. Len(s)}
  BY RangeIs
<1>3. \A i \in found : i \in DOMAIN s /\ s[i][1]
  OBVIOUS
<1>. HIDE DEF found
<1>4. found # {}
  BY <1>1
<1>5. Min(found) \in found
  BY <1>2, <1>4, LeastIsThere
<1>. QED BY <1>1, <1>2, <1>3, <1>4, <1>5

(* ... and a list that has one is asked before those after it. *)
LEMMA FirstOfJoin ==
  ASSUME NEW s, NEW t, AreFaults(s), AreFaults(t)
  PROVE  First(s \o t) = IF Clear(s) THEN First(t) ELSE First(s)
<1>1. PICK T : s \in Seq(T)
  BY DEF AreFaults
<1>2. PICK U : t \in Seq(U)
  BY DEF AreFaults
<1>3. s \in Seq(T \cup U) /\ t \in Seq(T \cup U) /\ Len(s) \in Nat /\ Len(t) \in Nat
  BY <1>1, <1>2
<1>4. /\ s \o t \in Seq(T \cup U) /\ Len(s \o t) = Len(s) + Len(t)
      /\ \A i \in 1 .. Len(s) + Len(t) : (s \o t)[i] = IF i <= Len(s) THEN s[i] ELSE t[i - Len(s)]
  BY <1>3, ConcatProperties
<1>. DEFINE FoundIn(l) == {i \in 1 .. Len(l) : l[i][1]}
<1>5. ASSUME NEW l, AreFaults(l)
      PROVE  /\ First(l) = IF FoundIn(l) = {} THEN <<>> ELSE <<l[Min(FoundIn(l))][2]>>
             /\ FoundIn(l) \in SUBSET Nat
             /\ FoundIn(l) # {} => Min(FoundIn(l)) \in FoundIn(l) /\ \A y \in FoundIn(l) : Min(FoundIn(l)) <= y
  <2>1. DOMAIN l = 1 .. Len(l) /\ Len(l) \in Nat
    BY <1>5, RangeIs
  <2>2. First(l) = IF FoundIn(l) = {} THEN <<>> ELSE <<l[Min(FoundIn(l))][2]>>
    BY <2>1 DEF First
  <2>3. FoundIn(l) \in SUBSET Nat
    OBVIOUS
  <2>. HIDE DEF FoundIn
  <2>. QED BY <2>2, <2>3, LeastIsThere
<1>6. AreFaults(s \o t)
  BY ClearJoin
<1>. DEFINE S == FoundIn(s)
            R == FoundIn(t)
            B == FoundIn(s \o t)
<1>7. \A i \in 1 .. Len(s) : i \in B <=> i \in S
  BY <1>3, <1>4
<1>8. \A i \in 1 .. Len(t) : i + Len(s) \in B <=> i \in R
  <2>1. ASSUME NEW i \in 1 .. Len(t) PROVE i + Len(s) \in B <=> i \in R
    <3>1. i + Len(s) \in 1 .. Len(s) + Len(t) /\ ~(i + Len(s) <= Len(s)) /\ (i + Len(s)) - Len(s) = i
      BY <1>3
    <3>. QED BY <1>4, <3>1
  <2>. QED BY <2>1
<1>9. B \subseteq 1 .. Len(s) + Len(t) /\ S \subseteq 1 .. Len(s) /\ R \subseteq 1 .. Len(t)
  BY <1>4
<1>10. Clear(s) <=> S = {}
  BY DEF Clear
<1>11. /\ First(s) = IF S = {} THEN <<>> ELSE <<s[Min(S)][2]>>
       /\ S # {} => Min(S) \in S /\ \A y \in S : Min(S) <= y
  BY <1>5
<1>12. /\ First(t) = IF R = {} THEN <<>> ELSE <<t[Min(R)][2]>>
       /\ R # {} => Min(R) \in R /\ \A y \in R : Min(R) <= y
  BY <1>5
<1>13. /\ First(s \o t) = IF B = {} THEN <<>> ELSE <<(s \o t)[Min(B)][2]>>
       /\ B # {} => Min(B) \in B /\ \A y \in B : Min(B) <= y
  BY <1>5, <1>6
<1>. HIDE DEF S, R, B, FoundIn
<1>14. CASE S # {}
  <2>1. Min(S) \in S /\ Min(S) \in 1 .. Len(s) /\ \A y \in S : Min(S) <= y
    BY <1>9, <1>11, <1>14
  <2>2. Min(S) \in B
    BY <1>7, <2>1
  <2>3. Min(B) \in B /\ Min(B) \in 1 .. Len(s) + Len(t) /\ \A y \in B : Min(B) <= y
    BY <1>9, <1>13, <2>2
  <2>4. Min(B) <= Min(S)
    BY <2>2, <2>3
  <2>5. Min(B) \in 1 .. Len(s)
    BY <1>3, <2>1, <2>3, <2>4
  <2>6. Min(S) <= Min(B)
    BY <1>7, <2>1, <2>3, <2>5
  <2>7. Min(S) = Min(B)
    BY <2>1, <2>3, <2>4, <2>6
  <2>8. (s \o t)[Min(B)] = s[Min(S)]
    BY <1>4, <2>3, <2>5, <2>7
  <2>. QED BY <1>10, <1>11, <1>13, <1>14, <2>2, <2>8
<1>15. CASE S = {} /\ R = {}
  <2>1. ASSUME NEW i \in B PROVE FALSE
    <3>1. CASE i <= Len(s)
      <4>1. i \in 1 .. Len(s)
        BY <1>3, <1>9, <2>1, <3>1
      <4>. QED BY <1>7, <1>15, <2>1, <4>1
    <3>2. CASE ~(i <= Len(s))
      <4>1. i - Len(s) \in 1 .. Len(t) /\ (i - Len(s)) + Len(s) = i
        BY <1>3, <1>9, <2>1, <3>2
      <4>. QED BY <1>8, <1>15, <2>1, <4>1
    <3>. QED BY <3>1, <3>2
  <2>. QED BY <1>10, <1>12, <1>13, <1>15, <2>1
<1>16. CASE S = {} /\ R # {}
  <2>1. Min(R) \in R /\ Min(R) \in 1 .. Len(t) /\ \A y \in R : Min(R) <= y
    BY <1>9, <1>12, <1>16
  <2>2. Min(R) + Len(s) \in B
    BY <1>8, <2>1
  <2>3. Min(B) \in B /\ Min(B) \in 1 .. Len(s) + Len(t) /\ \A y \in B : Min(B) <= y
    BY <1>9, <1>13, <2>2
  <2>4. ~(Min(B) <= Len(s))
    <3>1. SUFFICES ASSUME Min(B) <= Len(s) PROVE FALSE
      OBVIOUS
    <3>2. Min(B) \in 1 .. Len(s)
      BY <1>3, <2>3, <3>1
    <3>. QED BY <1>7, <1>16, <2>3, <3>2
  <2>5. Min(B) - Len(s) \in 1 .. Len(t) /\ (Min(B) - Len(s)) + Len(s) = Min(B)
    BY <1>3, <2>3, <2>4
  <2>6. Min(B) - Len(s) \in R
    BY <1>8, <2>3, <2>5
  <2>7. Min(R) <= Min(B) - Len(s)
    BY <2>1, <2>6
  <2>8. Min(B) <= Min(R) + Len(s)
    BY <2>2, <2>3
  <2>9. Min(B) - Len(s) = Min(R)
    BY <1>3, <2>1, <2>3, <2>7, <2>8
  <2>10. (s \o t)[Min(B)] = t[Min(R)]
    BY <1>4, <2>3, <2>4, <2>9
  <2>. QED BY <1>10, <1>12, <1>13, <1>16, <2>2, <2>10
<1>. QED BY <1>14, <1>15, <1>16

-----------------------------------------------------------------------------
(* ... and what each part of the settings needs of a variable, not to name it *)

LEMMA ProcessInnocent ==
  ASSUME NEW g, NEW v,
         v = "TRANSPORT" => g["TRANSPORT"] \notin {"blank", "bad"},
         v = "AUDIT_SINK" => AuditSink(g) \in Paths,
         v = "LOG_SINK" => LogSink(g) \in Paths,
         v \in {"AUDIT_SINK", "LOG_SINK"} => AuditSink(g) # LogSink(g)
  PROVE  Innocent(ProcessFaults(g), v)
<1>. DEFINE a == <<g["TRANSPORT"] \in {"blank", "bad"}, {"TRANSPORT"}>>
            b == <<AuditSink(g) \in {"blank", "bad", "unset"}, {"AUDIT_SINK"}>>
            c == <<LogSink(g) \in {"blank", "bad"}, {"LOG_SINK"}>>
            d == <<Stdio(g) /\ AuditSink(g) \notin Paths, {"AUDIT_SINK"}>>
            f == <<Stdio(g) /\ LogSink(g) = "stdout", {"LOG_SINK"}>>
            h == <<AuditSink(g) = LogSink(g), {"AUDIT_SINK", "LOG_SINK"}>>
<1>1. Range(ProcessFaults(g)) = {a, b, c, d, f, h}
  BY RangeOfSix DEF ProcessFaults
<1>2. \A sink \in Paths : sink \notin {"blank", "bad", "unset", "stdout"}
  BY DEF Paths
<1>3. a[1] => v \notin a[2]
  OBVIOUS
<1>4. b[1] => v \notin b[2]
  BY <1>2
<1>5. c[1] => v \notin c[2]
  BY <1>2
<1>6. d[1] => v \notin d[2]
  OBVIOUS
<1>7. f[1] => v \notin f[2]
  BY <1>2
<1>8. h[1] => v \notin h[2]
  OBVIOUS
<1>. HIDE DEF a, b, c, d, f, h
<1>. QED BY <1>1, <1>3, <1>4, <1>5, <1>6, <1>7, <1>8 DEF Innocent

(* The variables of the other way of being let in. *)
Foreign(g) == IF Gateway(g) THEN OfStandalone ELSE OfGateway

(* The parts of ModeFaults: up to the variables that are of the other mode, and the rest. *)
ModeFront(g) ==
    << <<~Given(g, "REGISTRY"), {"REGISTRY"}>>,
       <<g["AUTH_MODE"] = "bad" \/ (Gateway(g) /\ Stdio(g)), {"AUTH_MODE"}>> >>
    \o [i \in DOMAIN Foreign(g) |-> <<Given(g, Foreign(g)[i]), {Foreign(g)[i]}>>]
ModeBack(g) == << <<Stdio(g) = Given(g, AgentVar(g)), {AgentVar(g)}>> >>

LEMMA ModeParts ==
  ASSUME NEW g
  PROVE  /\ ModeFaults(g) = ModeFront(g) \o ModeBack(g)
         /\ AreFaults(ModeFront(g)) /\ AreFaults(ModeBack(g))
         /\ Range(ModeBack(g)) = {<<Stdio(g) = Given(g, AgentVar(g)), {AgentVar(g)}>>}
         /\ Range(ModeFront(g)) =
               {<<~Given(g, "REGISTRY"), {"REGISTRY"}>>,
                <<g["AUTH_MODE"] = "bad" \/ (Gateway(g) /\ Stdio(g)), {"AUTH_MODE"}>>}
               \cup {<<Given(g, w), {w}>> : w \in Range(Foreign(g))}
<1>. DEFINE a == <<~Given(g, "REGISTRY"), {"REGISTRY"}>>
            b == <<g["AUTH_MODE"] = "bad" \/ (Gateway(g) /\ Stdio(g)), {"AUTH_MODE"}>>
            z == <<Stdio(g) = Given(g, AgentVar(g)), {AgentVar(g)}>>
            middle == [i \in DOMAIN Foreign(g) |-> <<Given(g, Foreign(g)[i]), {Foreign(g)[i]}>>]
<1>1. ModeFaults(g) = (<<a, b>> \o middle) \o <<z>>
  BY DEF ModeFaults, Foreign
<1>2. ModeFront(g) = <<a, b>> \o middle /\ ModeBack(g) = <<z>>
  BY DEF ModeFront, ModeBack
<1>3. AreFaults(<<a, b>>) /\ Range(<<a, b>>) = {a, b}
  BY TwoFaults, RangeOfTwo
<1>4. AreFaults(<<z>>) /\ Range(<<z>>) = {z}
  BY OneFault, RangeOfOne
<1>5. AreFaults(middle) /\ Range(middle) = {<<Given(g, w), {w}>> : w \in Range(Foreign(g))}
  <2>1. \E n \in Nat : DOMAIN Foreign(g) = 1 .. n
    <3>1. DOMAIN OfStandalone = 1 .. 4 /\ DOMAIN OfGateway = 1 .. 6
      BY DEF OfStandalone, OfGateway
    <3>. QED BY <3>1 DEF Foreign
  <2>2. PICK n \in Nat : DOMAIN Foreign(g) = 1 .. n
    BY <2>1
  <2>3. middle \in Seq({<<Given(g, Foreign(g)[i]), {Foreign(g)[i]}>> : i \in 1 .. n})
    BY <2>2
  <2>4. Range(middle) = {<<Given(g, w), {w}>> : w \in Range(Foreign(g))}
    BY DEF Range
  <2>. QED BY <2>3, <2>4 DEF AreFaults
<1>. HIDE DEF a, b, z, middle
<1>6. AreFaults(<<a, b>> \o middle) /\ Range(<<a, b>> \o middle) = {a, b} \cup Range(middle)
  BY <1>3, <1>5, ClearJoin, RangeOfJoin
<1>. QED BY <1>1, <1>2, <1>4, <1>5, <1>6 DEF a, b, z

LEMMA ForeignAre ==
  ASSUME NEW g
  PROVE  Range(Foreign(g)) = IF Gateway(g)
                             THEN {"STANDALONE_BEARER", "PRINCIPAL", "OPERATOR_PASSWORD", "OPERATOR_NAME"}
                             ELSE {"BEARER", "PREVIOUS_BEARER", "PROXY_BEARER", "PREVIOUS_PROXY_BEARER",
                                   "JWKS", "ISSUER"}
BY RangeOfFour, RangeOfSix DEF Foreign, OfStandalone, OfGateway

LEMMA ModeInnocent ==
  ASSUME NEW g, NEW v,
         v = "REGISTRY" => Given(g, "REGISTRY"),
         v = "AUTH_MODE" => g["AUTH_MODE"] = "unset",
         v \in Range(Foreign(g)) => ~Given(g, v),
         v = AgentVar(g) => Stdio(g) # Given(g, v)
  PROVE  Innocent(ModeFaults(g), v)
<1>1. Innocent(ModeFront(g), v)
  <2>1. ASSUME NEW fault \in Range(ModeFront(g)), fault[1], v \in fault[2]
        PROVE  FALSE
    <3>1. CASE fault = <<~Given(g, "REGISTRY"), {"REGISTRY"}>>
      BY <2>1, <3>1
    <3>2. CASE fault = <<g["AUTH_MODE"] = "bad" \/ (Gateway(g) /\ Stdio(g)), {"AUTH_MODE"}>>
      <4>1. v = "AUTH_MODE" /\ (g["AUTH_MODE"] = "bad" \/ Gateway(g))
        BY <2>1, <3>2
      <4>. QED BY <4>1 DEF Gateway
    <3>3. ASSUME NEW w \in Range(Foreign(g)), fault = <<Given(g, w), {w}>>
          PROVE  FALSE
      BY <2>1, <3>3
    <3>. QED BY <2>1, <3>1, <3>2, <3>3, ModeParts
  <2>. QED BY <2>1 DEF Innocent
<1>2. Innocent(ModeBack(g), v)
  <2>. DEFINE z == <<Stdio(g) = Given(g, AgentVar(g)), {AgentVar(g)}>>
  <2>1. z[1] => v \notin z[2]
    <3>1. z[1] = (Stdio(g) = Given(g, AgentVar(g))) /\ z[2] = {AgentVar(g)}
      OBVIOUS
    <3>2. ASSUME v = AgentVar(g) PROVE ~(Stdio(g) = Given(g, AgentVar(g)))
      BY <3>2, Zenon
    <3>3. v = AgentVar(g) => ~z[1]
      BY <3>2
    <3>. QED BY <3>1, <3>3
  <2>. HIDE DEF z
  <2>. QED BY <2>1, ModeParts DEF Innocent, z
<1>3. ModeFaults(g) = ModeFront(g) \o ModeBack(g) /\ AreFaults(ModeFront(g)) /\ AreFaults(ModeBack(g))
  BY ModeParts
<1>. QED BY <1>1, <1>2, <1>3, BothInnocent

LEMMA ReviewInnocent ==
  ASSUME NEW g, NEW v,
         v = ProxyVar(g) => Given(g, v) /\ g[v] # "long",
         v = "REVIEW" => g["REVIEW"] = "unset",
         v = "DASHBOARD" => g["DASHBOARD"] = "url"
  PROVE  Innocent(ReviewFaults(g), v)
<1>. DEFINE proxy == ProxyVar(g)
            a == <<~Gateway(g) /\ g[ProxyVar(g)] = "long", {ProxyVar(g)}>>
            b == <<~Given(g, ProxyVar(g)) /\ (Given(g, "PREVIOUS_PROXY_BEARER") \/ Given(g, "OPERATOR_NAME")),
                   {ProxyVar(g)}>>
            c == <<g["REVIEW"] = "bad", {"REVIEW"}>>
            d == <<g["DASHBOARD"] = "bad", {"DASHBOARD"}>>
            f == <<g["REVIEW"] \in {"all", "privileged"} /\ ~Given(g, ProxyVar(g)), {ProxyVar(g)}>>
            h == <<g["REVIEW"] \in {"all", "privileged"} /\ ~Given(g, "DASHBOARD"), {"DASHBOARD"}>>
<1>1. Range(ReviewFaults(g)) = {a, b, c, d, f, h}
  BY RangeOfSix DEF ReviewFaults
<1>2. a[1] => v \notin a[2]
  OBVIOUS
<1>3. b[1] => v \notin b[2]
  OBVIOUS
<1>4. c[1] => v \notin c[2]
  OBVIOUS
<1>5. d[1] => v \notin d[2]
  OBVIOUS
<1>6. f[1] => v \notin f[2]
  OBVIOUS
<1>7. h[1] => v \notin h[2]
  BY DEF Given
<1>. HIDE DEF a, b, c, d, f, h
<1>. QED BY <1>1, <1>2, <1>3, <1>4, <1>5, <1>6, <1>7 DEF Innocent

LEMMA EvaluatorInnocent ==
  ASSUME NEW g, NEW v,
         v = "EVALUATOR_BEARER" => Given(g, v),
         v = "EVALUATOR_NAME" => g["EVALUATOR_NAME"] = "name"
  PROVE  Innocent(EvaluatorFaults(g), v)
<1>. DEFINE a == <<~Given(g, "EVALUATOR_BEARER")
                      /\ (Given(g, "PREVIOUS_EVALUATOR_BEARER") \/ Given(g, "EVALUATOR_NAME")), {"EVALUATOR_BEARER"}>>
            b == <<Given(g, "EVALUATOR_BEARER") /\ ~Given(g, "EVALUATOR_NAME"), {"EVALUATOR_NAME"}>>
            c == <<g["EVALUATOR_NAME"] = "bad", {"EVALUATOR_NAME"}>>
<1>1. Range(EvaluatorFaults(g)) = {a, b, c}
  BY RangeOfThree DEF EvaluatorFaults
<1>2. a[1] => v \notin a[2]
  OBVIOUS
<1>3. b[1] => v \notin b[2]
  BY DEF Given
<1>4. c[1] => v \notin c[2]
  OBVIOUS
<1>. HIDE DEF a, b, c
<1>. QED BY <1>1, <1>2, <1>3, <1>4 DEF Innocent

LEMMA IdentityInnocent ==
  ASSUME NEW g, NEW v,
         Gateway(g) /\ v = "JWKS" => g["JWKS"] = "url",
         Gateway(g) /\ v = "ISSUER" => g["ISSUER"] = "name",
         v \in {"PRINCIPAL", "OPERATOR_NAME"} => g[v] = "unset",
         {"local", "operator"} \cap TokensOf(g) = {}
  PROVE  Innocent(IdentityFaults(g), v)
<1>1. CASE Gateway(g)
  <2>. DEFINE a == <<~Given(g, "JWKS") \/ g["JWKS"] = "bad", {"JWKS"}>>
              b == <<~Given(g, "ISSUER"), {"ISSUER"}>>
  <2>1. Range(IdentityFaults(g)) = {a, b}
    BY <1>1, RangeOfTwo DEF IdentityFaults
  <2>2. a[1] => v \notin a[2]
    BY <1>1 DEF Given
  <2>3. b[1] => v \notin b[2]
    BY <1>1 DEF Given
  <2>. HIDE DEF a, b
  <2>. QED BY <2>1, <2>2, <2>3 DEF Innocent
<1>2. CASE ~Gateway(g)
  <2>. DEFINE a == <<Principal(g) = "bad", {"PRINCIPAL"}>>
              b == <<Operator(g) = "bad", {"OPERATOR_NAME"}>>
              c == <<Principal(g) \in TokensOf(g), {"PRINCIPAL"}>>
              d == <<Operator(g) \in TokensOf(g), {"OPERATOR_NAME"}>>
  <2>1. Range(IdentityFaults(g)) = {a, b, c, d}
    BY <1>2, RangeOfFour DEF IdentityFaults
  <2>2. v = "PRINCIPAL" => Principal(g) = "local"
    BY DEF Principal, Given
  <2>3. v = "OPERATOR_NAME" => Operator(g) = "operator"
    BY DEF Operator, Given
  <2>4. a[1] => v \notin a[2]
    BY <2>2
  <2>5. b[1] => v \notin b[2]
    BY <2>3
  <2>6. c[1] => v \notin c[2]
    BY <2>2
  <2>7. d[1] => v \notin d[2]
    BY <2>3
  <2>. HIDE DEF a, b, c, d
  <2>. QED BY <2>1, <2>4, <2>5, <2>6, <2>7 DEF Innocent
<1>. QED BY <1>1, <1>2

(* What must be so of a variable that only says what the surfaces may do. *)
OtherVars == {"AUDIT_QUERY", "AUDIT_LABELS", "OPERATOR_HEADER", "FILE_ROOT", "FILE_ORIGIN", "NOTIFY"} \cup NumberVars

LEMMA OtherInnocent ==
  ASSUME NEW g, NEW v,
         v \in OtherVars \ {"AUDIT_LABELS"} => g[v] = "unset",
         v = "AUDIT_LABELS" => g[v] = IF Given(g, "AUDIT_QUERY") THEN "name" ELSE "unset"
  PROVE  Innocent(OtherFaults(g), v)
<1>. DEFINE a == OneOf(g, "AUDIT_QUERY", {"unset", "blank", "url"})
            b == OneOf(g, "AUDIT_LABELS", {"unset", "blank", "name"})
            c == <<Given(g, "AUDIT_QUERY") # Given(g, "AUDIT_LABELS"), {"AUDIT_LABELS"}>>
            d == <<Given(g, "OPERATOR_HEADER") /\ ~Gateway(g), {"OPERATOR_HEADER"}>>
            e == OneOf(g, "OPERATOR_HEADER", {"unset", "blank", "name"})
            f == <<Given(g, "FILE_ROOT") /\ (~Stdio(g) \/ Given(g, "FILE_ORIGIN")), {"FILE_ROOT"}>>
            h == OneOf(g, "MAX_TRANSFER", {"unset", "number"})
            i == OneOf(g, "TRANSFER_TIMEOUT", {"unset", "number"})
            j == OneOf(g, "SFTP_READ_AHEAD", {"unset", "number"})
            k == OneOf(g, "CHECKSUM_BYTES", {"unset", "number"})
            l == OneOf(g, "SESSIONS_PER_PRINCIPAL", {"unset", "number"})
            m == OneOf(g, "FILE_ORIGIN", {"unset", "blank", "url"})
            n == OneOf(g, "NOTIFY", {"unset", "blank", "url"})
<1>1. Range(<<a, b, c, d, e, f, h, i, j, k, l, m, n>>) = {a, b, c, d, e, f, h, i, j, k, l, m, n}
  <2>. HIDE DEF a, b, c, d, e, f, h, i, j, k, l, m, n
  <2>. QED BY RangeOfThirteen
<1>0. OtherFaults(g) = <<a, b, c, d, e, f, h, i, j, k, l, m, n>>
  BY Zenon DEF OtherFaults
<1>2. ASSUME NEW w \in OtherVars \ {"AUDIT_LABELS"}, NEW allowed, "unset" \in allowed
      PROVE  OneOf(g, w, allowed)[1] => v \notin OneOf(g, w, allowed)[2]
  BY <1>2 DEF OneOf
<1>3. (a[1] => v \notin a[2]) /\ (e[1] => v \notin e[2]) /\ (m[1] => v \notin m[2]) /\ (n[1] => v \notin n[2])
  BY <1>2 DEF OtherVars
<1>4. /\ (h[1] => v \notin h[2]) /\ (i[1] => v \notin i[2]) /\ (j[1] => v \notin j[2]) /\ (k[1] => v \notin k[2])
      /\ (l[1] => v \notin l[2])
  BY <1>2 DEF OtherVars, NumberVars
<1>5. b[1] => v \notin b[2]
  BY DEF OneOf
<1>6. c[1] => v \notin c[2]
  BY DEF Given
<1>7. d[1] => v \notin d[2]
  BY DEF Given, OtherVars
<1>8. f[1] => v \notin f[2]
  BY DEF Given, OtherVars
<1>. HIDE DEF a, b, c, d, e, f, h, i, j, k, l, m, n
<1>. QED BY <1>0, <1>1, <1>3, <1>4, <1>5, <1>6, <1>7, <1>8 DEF Innocent

(* The variables of the surfaces are eight. *)
Current(g, i) == Surfaces(g)[i].current
Previous(g, i) == Surfaces(g)[i].previous

LEMMA SurfacesAre ==
  ASSUME NEW g
  PROVE  /\ Current(g, 1) = AgentVar(g) /\ Previous(g, 1) = "PREVIOUS_BEARER"
         /\ Current(g, 2) = ProxyVar(g) /\ Previous(g, 2) = "PREVIOUS_PROXY_BEARER"
         /\ Current(g, 3) = "EVALUATOR_BEARER" /\ Previous(g, 3) = "PREVIOUS_EVALUATOR_BEARER"
         /\ Current(g, 4) = "METRICS_BEARER" /\ Previous(g, 4) = "PREVIOUS_METRICS_BEARER"
         /\ AgentVar(g) \in {"BEARER", "STANDALONE_BEARER"}
         /\ ProxyVar(g) \in {"PROXY_BEARER", "OPERATOR_PASSWORD"}
BY DEF Surfaces, Current, Previous, AgentVar, ProxyVar

LEMMA SurfacesApart ==
  ASSUME NEW g, NEW i \in 1 .. 4, NEW j \in 1 .. 4
  PROVE  /\ Current(g, i) \in TokenVars /\ Previous(g, i) \in TokenVars
         /\ Current(g, i) # Previous(g, j)
         /\ i # j => Current(g, i) # Current(g, j) /\ Previous(g, i) # Previous(g, j)
<1>1. (i = 1 \/ i = 2 \/ i = 3 \/ i = 4) /\ (j = 1 \/ j = 2 \/ j = 3 \/ j = 4)
  OBVIOUS
<1>. QED BY <1>1, SurfacesAre DEF TokenVars

LEMMA TakenIs ==
  ASSUME NEW g, NEW i \in 1 .. 4, NEW token \in TakenBefore(g, i)
  PROVE  \E j \in 1 .. 4 : /\ j < i
                           /\ \E w \in {Current(g, j), Previous(g, j)} : Given(g, w) /\ token = g[w]
<1>1. PICK j \in 1 .. i - 1 : token \in Takes(g, Surfaces(g)[j])
  BY DEF TakenBefore
<1>2. \E w \in {Current(g, j), Previous(g, j)} : Given(g, w) /\ token = g[w]
  BY <1>1 DEF Takes, Current, Previous
<1>. QED BY <1>1, <1>2

(* A variable that is not set, or holds what no other does, takes no other's token. *)
LEMMA NotTaken ==
  ASSUME NEW g, NEW i \in 1 .. 4, NEW v \in {Current(g, i), Previous(g, i)},
         g[v] \in {"unset", "another"},
         \A w \in TokenVars \ {v} : g[w] # "another"
  PROVE  g[v] \notin TakenBefore(g, i)
<1>1. SUFFICES ASSUME g[v] \in TakenBefore(g, i) PROVE FALSE
  OBVIOUS
<1>2. PICK j \in 1 .. 4 : j < i /\ \E w \in {Current(g, j), Previous(g, j)} : Given(g, w) /\ g[v] = g[w]
  BY <1>1, TakenIs
<1>3. PICK w \in {Current(g, j), Previous(g, j)} : Given(g, w) /\ g[v] = g[w]
  BY <1>2
<1>4. j # i
  BY <1>2
<1>5. w # v /\ w \in TokenVars
  BY <1>3, <1>4, SurfacesApart
<1>6. g[w] # "unset"
  BY <1>3 DEF Given
<1>. QED BY <1>3, <1>5, <1>6

LEMMA FourInnocent ==
  ASSUME NEW T, NEW s \in [1 .. 4 -> T], NEW v, \A i \in 1 .. 4 : AreFaults(s[i]) /\ Innocent(s[i], v)
  PROVE  Innocent(FlattenSeq(s), v)
<1>1. /\ AreFaults(s[1]) /\ AreFaults(s[2]) /\ AreFaults(s[3]) /\ AreFaults(s[4])
      /\ Innocent(s[1], v) /\ Innocent(s[2], v) /\ Innocent(s[3], v) /\ Innocent(s[4], v)
  OBVIOUS
<1>2. AreFaults(s[1] \o s[2]) /\ Innocent(s[1] \o s[2], v)
  BY <1>1, BothInnocent
<1>3. AreFaults((s[1] \o s[2]) \o s[3]) /\ Innocent((s[1] \o s[2]) \o s[3], v)
  BY <1>1, <1>2, BothInnocent
<1>4. Innocent(((s[1] \o s[2]) \o s[3]) \o s[4], v)
  BY <1>1, <1>3, BothInnocent
<1>. QED BY <1>4, FlattenFour

LEMMA SharedInnocent ==
  ASSUME NEW g, NEW v,
         v \in TokenVars => g[v] \in {"unset", "another"},
         \A w \in TokenVars \ {v} : g[w] # "another"
  PROVE  Innocent(SharedFaults(g), v)
<1>. DEFINE Checks(i) == << <<g[Surfaces(g)[i].current] \in TakenBefore(g, i), {Surfaces(g)[i].current}>>,
                            <<g[Surfaces(g)[i].previous] \in TakenBefore(g, i), {Surfaces(g)[i].previous}>> >>
            s == [i \in 1 .. 4 |-> Checks(i)]
<1>1. ASSUME NEW i \in 1 .. 4 PROVE AreFaults(Checks(i)) /\ Innocent(Checks(i), v)
  <2>. DEFINE a == <<g[Current(g, i)] \in TakenBefore(g, i), {Current(g, i)}>>
              b == <<g[Previous(g, i)] \in TakenBefore(g, i), {Previous(g, i)}>>
  <2>1. Checks(i) = <<a, b>>
    BY DEF Current, Previous
  <2>2. Current(g, i) \in TokenVars /\ Previous(g, i) \in TokenVars
    BY SurfacesApart
  <2>3. v \in {Current(g, i), Previous(g, i)} => g[v] \notin TakenBefore(g, i)
    BY <2>2, NotTaken
  <2>4. (a[1] => v \notin a[2]) /\ (b[1] => v \notin b[2])
    BY <2>3
  <2>. HIDE DEF Checks, a, b
  <2>. QED BY <2>1, <2>4, TwoFaults, RangeOfTwo DEF Innocent
<1>2. SharedFaults(g) = FlattenSeq(s)
  BY DEF SharedFaults
<1>. HIDE DEF Checks
<1>3. s \in [1 .. 4 -> {Checks(i) : i \in 1 .. 4}] /\ \A i \in 1 .. 4 : AreFaults(s[i]) /\ Innocent(s[i], v)
  BY <1>1
<1>. QED BY <1>2, <1>3, FourInnocent

LEMMA PairInnocent ==
  ASSUME NEW g, NEW v,
         v \in TokenVars => g[v] \in {"unset", "another"},
         \A i \in 1 .. 4 : /\ v = Previous(g, i) => g[v] = "unset"
                           /\ v = Current(g, i) /\ g[v] = "unset" => ~Given(g, Previous(g, i)),
         \A w \in TokenVars \ {v} : g[w] # "another"
  PROVE  Innocent(PairFaults(g), v)
<1>. DEFINE Which(i) == IF i = 1 THEN 4 ELSE IF i = 4 THEN 3 ELSE i - 1
            Checks(i) == LET surface == Surfaces(g)[Which(i)]
                             current == surface.current
                             previous == surface.previous
                         IN << <<~Given(g, current) /\ Given(g, previous), {current}>>,
                               <<g[current] = "short", {current}>>,
                               <<g[previous] = "short", {previous}>>,
                               <<Given(g, current) /\ g[current] = g[previous], {previous}>> >>
            s == [i \in 1 .. 4 |-> Checks(i)]
<1>1. ASSUME NEW i \in 1 .. 4 PROVE AreFaults(Checks(i)) /\ Innocent(Checks(i), v)
  <2>. DEFINE n == Which(i)
  <2>1. n \in 1 .. 4
    OBVIOUS
  <2>. DEFINE c == Current(g, n)
              p == Previous(g, n)
              a == <<~Given(g, c) /\ Given(g, p), {c}>>
              b == <<g[c] = "short", {c}>>
              d == <<g[p] = "short", {p}>>
              f == <<Given(g, c) /\ g[c] = g[p], {p}>>
  <2>2. Checks(i) = <<a, b, d, f>>
    BY DEF Current, Previous
  <2>. HIDE DEF n
  <2>3. c \in TokenVars /\ p \in TokenVars /\ c # p
    BY <2>1, SurfacesApart
  <2>4. /\ v = p => g[v] = "unset"
        /\ v = c /\ g[v] = "unset" => ~Given(g, p)
    BY <2>1
  <2>. HIDE DEF c, p
  <2>5. /\ v = c => g[v] \in {"unset", "another"}
        /\ v = p => g[v] \in {"unset", "another"}
    BY <2>3
  <2>6. a[1] => v \notin a[2]
    BY <2>4, <2>5 DEF Given
  <2>7. b[1] => v \notin b[2]
    BY <2>5
  <2>8. d[1] => v \notin d[2]
    BY <2>5
  <2>9. f[1] => v \notin f[2]
    BY <2>4 DEF Given
  <2>. HIDE DEF Checks, a, b, d, f
  <2>. QED BY <2>2, <2>6, <2>7, <2>8, <2>9, FourFaults, RangeOfFour DEF Innocent
<1>2. PairFaults(g) = FlattenSeq(s)
  BY DEF PairFaults
<1>. HIDE DEF Checks
<1>3. s \in [1 .. 4 -> {Checks(i) : i \in 1 .. 4}] /\ \A i \in 1 .. 4 : AreFaults(s[i]) /\ Innocent(s[i], v)
  BY <1>1
<1>. QED BY <1>2, <1>3, FourInnocent

LEMMA SettingsInnocent ==
  ASSUME NEW g, NEW v,
         Innocent(ProcessFaults(g), v), Innocent(ModeFaults(g), v), Innocent(ReviewFaults(g), v),
         Innocent(EvaluatorFaults(g), v), Innocent(SharedFaults(g), v), Innocent(PairFaults(g), v),
         Innocent(IdentityFaults(g), v), Innocent(OtherFaults(g), v)
  PROVE  AreFaults(SettingsFaults(g)) /\ Innocent(SettingsFaults(g), v)
<1>. DEFINE Fine(s) == AreFaults(s) /\ Innocent(s, v)
            p == ProcessFaults(g)
            m == ModeFaults(g)
            r == ReviewFaults(g)
            a == EvaluatorFaults(g)
            s == SharedFaults(g)
            b == PairFaults(g)
            i == IdentityFaults(g)
            o == OtherFaults(g)
<1>1. Fine(p) /\ Fine(m) /\ Fine(r) /\ Fine(a) /\ Fine(s) /\ Fine(b) /\ Fine(i) /\ Fine(o)
  BY ProcessFaultsAre, ModeFaultsAre, ReviewFaultsAre, EvaluatorFaultsAre, SharedFaultsAre, PairFaultsAre,
     IdentityFaultsAre, OtherFaultsAre
<1>2. SettingsFaults(g) = p \o m \o r \o a \o s \o b \o i \o o
  BY DEF SettingsFaults
<1>3. ASSUME NEW x, NEW y, Fine(x), Fine(y) PROVE Fine(x \o y)
  BY <1>3, BothInnocent
<1>. HIDE DEF p, m, r, a, s, b, i, o, Fine
<1>4. Fine(p \o m)
  BY <1>1, <1>3
<1>5. Fine(p \o m \o r)
  BY <1>1, <1>3, <1>4
<1>6. Fine(p \o m \o r \o a)
  BY <1>1, <1>3, <1>5
<1>7. Fine(p \o m \o r \o a \o s)
  BY <1>1, <1>3, <1>6
<1>8. Fine(p \o m \o r \o a \o s \o b)
  BY <1>1, <1>3, <1>7
<1>9. Fine(p \o m \o r \o a \o s \o b \o i)
  BY <1>1, <1>3, <1>8
<1>10. Fine(p \o m \o r \o a \o s \o b \o i \o o)
  BY <1>1, <1>3, <1>9
<1>. QED BY <1>2, <1>10 DEF Fine

-----------------------------------------------------------------------------
(* The remedy: a value that a variable can be set to, when it is the one named *)

Typed(e) ==
    /\ e = [variable \in Variables |-> e[variable]]
    /\ \A variable \in TokenVars : e[variable] \in {"unset", "blank", "t1", "t2", "t3", "short", "long"}

(* A token that is no other's, for the surfaces that are asked for; another file; what
   is of the form wanted; and for the rest, nothing. *)
Remedy(e, v) ==
    IF v \in {ProxyVar(e), "EVALUATOR_BEARER", "METRICS_BEARER"} \/ (v = AgentVar(e) /\ ~Stdio(e)) THEN "another"
    ELSE IF v = "AUDIT_SINK" THEN IF LogSink(e) = "/audit" THEN "/log" ELSE "/audit"
    ELSE IF v = "LOG_SINK" THEN IF AuditSink(e) = "/audit" THEN "/log" ELSE "/audit"
    ELSE IF v = "DASHBOARD" \/ (v = "JWKS" /\ Gateway(e)) THEN "url"
    ELSE IF v \in {"REGISTRY", "EVALUATOR_NAME"} \/ (v = "ISSUER" /\ Gateway(e))
            \/ (v = "AUDIT_LABELS" /\ Given(e, "AUDIT_QUERY")) THEN "name"
    ELSE "unset"

Remedied(e, v) == With(e, v, Remedy(e, v))

LEMMA RemedyIsAValue ==
  ASSUME NEW e, NEW v \in Variables
  PROVE  Remedy(e, v) \in ValuesOf(v) \cup (IF v \in TokenVars THEN {"another"} ELSE {})
<1>1. "unset" \in ValuesOf(v)
  BY DEF ValuesOf
<1>2. ValuesOf("DASHBOARD") = {"unset", "blank"} \cup {"url", "bad"} /\ ValuesOf("JWKS") = {"unset", "blank"} \cup {"url", "bad"}
  BY DEF ValuesOf, TokenVars, NameVars, UrlVars, NumberVars, SinkVars
<1>3. "name" \in ValuesOf("REGISTRY") /\ "name" \in ValuesOf("ISSUER")
  BY DEF ValuesOf, TokenVars, NameVars, UrlVars, NumberVars, SinkVars
<1>4. "name" \in ValuesOf("EVALUATOR_NAME") /\ "name" \in ValuesOf("AUDIT_LABELS")
  BY DEF ValuesOf, TokenVars, NameVars, UrlVars, NumberVars, SinkVars
<1>5. Paths \subseteq ValuesOf("AUDIT_SINK") /\ Paths \subseteq ValuesOf("LOG_SINK")
  BY DEF ValuesOf, TokenVars, NameVars, UrlVars, NumberVars, SinkVars
<1>6. {ProxyVar(e), AgentVar(e), "EVALUATOR_BEARER", "METRICS_BEARER"} \subseteq TokenVars
  BY SurfacesAre DEF TokenVars
<1>7. {"/log", "/audit"} \subseteq Paths
  BY DEF Paths
<1>. HIDE DEF ValuesOf
<1>. QED BY <1>1, <1>2, <1>3, <1>4, <1>5, <1>6, <1>7 DEF Remedy

(* What is changed, and what is not. *)
LEMMA RemediedIs ==
  ASSUME NEW e, Typed(e), NEW v \in Variables
  PROVE  /\ Remedied(e, v)[v] = Remedy(e, v)
         /\ \A w \in Variables \ {v} : Remedied(e, v)[w] = e[w]
<1>1. DOMAIN e = Variables
  BY DEF Typed
<1>. QED BY <1>1 DEF Remedied, With

LEMMA RemediedModes ==
  ASSUME NEW e, Typed(e), NEW v \in Variables
  PROVE  LET g == Remedied(e, v)
         IN /\ v # "AUTH_MODE" => (Gateway(g) <=> Gateway(e)) /\ AgentVar(g) = AgentVar(e) /\ ProxyVar(g) = ProxyVar(e)
            /\ v = "AUTH_MODE" => ~Gateway(g)
            /\ v # "TRANSPORT" => (Stdio(g) <=> Stdio(e))
<1>1. "AUTH_MODE" \in Variables /\ "TRANSPORT" \in Variables
  BY DEF Variables
<1>2. v = "AUTH_MODE" => Remedy(e, v) = "unset"
  BY SurfacesAre DEF Remedy
<1>. QED BY <1>1, <1>2, RemediedIs DEF Gateway, AgentVar, ProxyVar, Stdio

LEMMA RemediedTokens ==
  ASSUME NEW e, Typed(e), NEW v \in Variables
  PROVE  LET g == Remedied(e, v)
         IN /\ v \in TokenVars => g[v] \in {"unset", "another"}
            /\ \A w \in TokenVars \ {v} : g[w] # "another"
            /\ {"local", "operator"} \cap TokensOf(g) = {}
<1>. DEFINE g == Remedied(e, v)
<1>1. TokenVars \subseteq Variables
  BY DEF Variables
<1>2. v \in TokenVars => Remedy(e, v) \in {"unset", "another"}
  BY DEF Remedy, TokenVars
<1>3. v \in TokenVars => g[v] \in {"unset", "another"}
  BY <1>2, RemediedIs
<1>4. \A w \in TokenVars \ {v} : g[w] \in {"unset", "blank", "t1", "t2", "t3", "short", "long"}
  BY <1>1, RemediedIs DEF Typed
<1>. HIDE DEF g
<1>5. \A w \in TokenVars : g[w] \notin {"local", "operator"}
  BY <1>3, <1>4
<1>6. ASSUME NEW token \in TokensOf(g) PROVE token \notin {"local", "operator"}
  <2>1. PICK j \in 1 .. 4 : \E w \in {Current(g, j), Previous(g, j)} : token = g[w]
    BY TakenIs DEF TokensOf
  <2>2. Current(g, j) \in TokenVars /\ Previous(g, j) \in TokenVars
    BY SurfacesApart
  <2>. QED BY <1>5, <2>1, <2>2
<1>. QED BY <1>3, <1>4, <1>6 DEF g

(* No part of the settings names a variable that has been remedied; one that is not to be
   set over standard input is only so when it leaves no token behind that needs it. *)
LEMMA RemedyCures ==
  ASSUME NEW e, Typed(e), NEW v \in Variables,
         v = AgentVar(e) /\ Stdio(e) => ~Given(e, "PREVIOUS_BEARER")
  PROVE  AreFaults(SettingsFaults(Remedied(e, v))) /\ Innocent(SettingsFaults(Remedied(e, v)), v)
<1>. DEFINE g == Remedied(e, v)
            x == Remedy(e, v)
<1>1. g[v] = x /\ \A w \in Variables \ {v} : g[w] = e[w]
  BY RemediedIs
<1>2. /\ v # "AUTH_MODE" => (Gateway(g) <=> Gateway(e)) /\ AgentVar(g) = AgentVar(e) /\ ProxyVar(g) = ProxyVar(e)
      /\ v = "AUTH_MODE" => ~Gateway(g)
      /\ v # "TRANSPORT" => (Stdio(g) <=> Stdio(e))
  BY RemediedModes
<1>3. /\ v \in TokenVars => g[v] \in {"unset", "another"}
      /\ \A w \in TokenVars \ {v} : g[w] # "another"
      /\ {"local", "operator"} \cap TokensOf(g) = {}
  BY RemediedTokens
<1>4. /\ AgentVar(e) = IF Gateway(e) THEN "BEARER" ELSE "STANDALONE_BEARER"
      /\ ProxyVar(e) = IF Gateway(e) THEN "PROXY_BEARER" ELSE "OPERATOR_PASSWORD"
  BY DEF AgentVar, ProxyVar
<1>. DEFINE Names == {"REGISTRY", "EVALUATOR_NAME"} \cup (IF Gateway(e) THEN {"ISSUER"} ELSE {})
                        \cup (IF Given(e, "AUDIT_QUERY") THEN {"AUDIT_LABELS"} ELSE {})
            Urls == {"DASHBOARD"} \cup (IF Gateway(e) THEN {"JWKS"} ELSE {})
            Unshared == {ProxyVar(e), "EVALUATOR_BEARER", "METRICS_BEARER"} \cup (IF Stdio(e) THEN {} ELSE {AgentVar(e)})
<1>5. x = IF v \in Unshared THEN "another"
          ELSE IF v = "AUDIT_SINK" THEN IF LogSink(e) = "/audit" THEN "/log" ELSE "/audit"
          ELSE IF v = "LOG_SINK" THEN IF AuditSink(e) = "/audit" THEN "/log" ELSE "/audit"
          ELSE IF v \in Urls THEN "url" ELSE IF v \in Names THEN "name" ELSE "unset"
  BY DEF Remedy
<1>6. Unshared \subseteq {"PROXY_BEARER", "OPERATOR_PASSWORD", "EVALUATOR_BEARER", "METRICS_BEARER", "BEARER",
                       "STANDALONE_BEARER"}
  BY <1>4
<1>. HIDE DEF g, x
<1>7. Innocent(ProcessFaults(g), v)
  <2>1. v = "TRANSPORT" => g["TRANSPORT"] \notin {"blank", "bad"}
    BY <1>1, <1>5, <1>6
  <2>2. {"AUDIT_SINK", "LOG_SINK"} \subseteq Variables
    BY DEF Variables, SinkVars
  <2>3. {"/audit", "/log"} \subseteq Paths /\ "unset" \notin {"/audit", "/log"}
    BY DEF Paths
  <2>4. v = "AUDIT_SINK" => AuditSink(g) = x /\ LogSink(g) = LogSink(e) /\ x \in {"/audit", "/log"} /\ x # LogSink(e)
    BY <1>1, <1>2, <1>5, <1>6, <2>2 DEF AuditSink, LogSink
  <2>5. v = "LOG_SINK" => LogSink(g) = x /\ AuditSink(g) = AuditSink(e) /\ x \in {"/audit", "/log"} /\ x # AuditSink(e)
    BY <1>1, <1>2, <1>5, <1>6, <2>2 DEF AuditSink, LogSink
  <2>6. /\ v = "AUDIT_SINK" => AuditSink(g) \in Paths
        /\ v = "LOG_SINK" => LogSink(g) \in Paths
        /\ v \in {"AUDIT_SINK", "LOG_SINK"} => AuditSink(g) # LogSink(g)
    BY <2>3, <2>4, <2>5
  <2>. QED BY <2>1, <2>6, ProcessInnocent
<1>8. Innocent(ModeFaults(g), v)
  <2>1. v = "REGISTRY" => Given(g, "REGISTRY")
    BY <1>1, <1>5, <1>6 DEF Given
  <2>2. v = "AUTH_MODE" => g["AUTH_MODE"] = "unset"
    BY <1>1, <1>5, <1>6
  <2>3. ASSUME v \in Range(Foreign(g)) PROVE ~Given(g, v)
    <3>1. v \in IF Gateway(g) THEN {"STANDALONE_BEARER", "PRINCIPAL", "OPERATOR_PASSWORD", "OPERATOR_NAME"}
                ELSE {"BEARER", "PREVIOUS_BEARER", "PROXY_BEARER", "PREVIOUS_PROXY_BEARER", "JWKS", "ISSUER"}
      BY <2>3, ForeignAre
    <3>2. x = "unset"
      BY <1>2, <1>4, <1>5, <3>1
    <3>. QED BY <1>1, <3>2 DEF Given
  <2>4. ASSUME v = AgentVar(g) PROVE Stdio(g) # Given(g, v)
    <3>1. v = AgentVar(e) /\ (Stdio(g) <=> Stdio(e))
      BY <1>2, <2>4, SurfacesAre
    <3>2. CASE Stdio(e)
      <4>1. x = "unset"
        BY <1>4, <1>5, <3>1, <3>2
      <4>2. Stdio(g) /\ ~Given(g, v)
        BY <1>1, <3>1, <3>2, <4>1 DEF Given
      <4>. QED BY <4>2
    <3>3. CASE ~Stdio(e)
      <4>1. x = "another"
        BY <1>5, <3>1, <3>3
      <4>2. ~Stdio(g) /\ Given(g, v)
        BY <1>1, <3>1, <3>3, <4>1 DEF Given
      <4>. QED BY <4>2
    <3>. QED BY <3>2, <3>3
  <2>. QED BY <2>1, <2>2, <2>3, <2>4, ModeInnocent
<1>9. Innocent(ReviewFaults(g), v)
  <2>1. v = ProxyVar(g) => Given(g, v) /\ g[v] # "long"
    BY <1>1, <1>2, <1>5, SurfacesAre DEF Given
  <2>2. (v = "REVIEW" => g["REVIEW"] = "unset") /\ (v = "DASHBOARD" => g["DASHBOARD"] = "url")
    BY <1>1, <1>5, <1>6
  <2>. QED BY <2>1, <2>2, ReviewInnocent
<1>10. Innocent(EvaluatorFaults(g), v)
  <2>1. (v = "EVALUATOR_BEARER" => Given(g, v)) /\ (v = "EVALUATOR_NAME" => g["EVALUATOR_NAME"] = "name")
    BY <1>1, <1>5, <1>6 DEF Given
  <2>. QED BY <2>1, EvaluatorInnocent
<1>11. Innocent(SharedFaults(g), v)
  BY <1>3, SharedInnocent
<1>12. Innocent(PairFaults(g), v)
  <2>1. ASSUME NEW i \in 1 .. 4, v = Previous(g, i) PROVE g[v] = "unset"
    <3>1. v \in {"PREVIOUS_BEARER", "PREVIOUS_PROXY_BEARER", "PREVIOUS_EVALUATOR_BEARER", "PREVIOUS_METRICS_BEARER"}
      <4>1. i = 1 \/ i = 2 \/ i = 3 \/ i = 4
        OBVIOUS
      <4>. QED BY <2>1, <4>1, SurfacesAre
    <3>. QED BY <1>1, <1>5, <1>6, <3>1
  <2>2. ASSUME NEW i \in 1 .. 4, v = Current(g, i), g[v] = "unset" PROVE ~Given(g, Previous(g, i))
    <3>1. x # "another"
      BY <1>1, <2>2
    <3>2. v # "AUTH_MODE"
      BY <2>2, SurfacesApart DEF TokenVars
    <3>3. i = 1
      <4>1. i = 1 \/ i = 2 \/ i = 3 \/ i = 4
        OBVIOUS
      <4>. QED BY <1>2, <1>5, <2>2, <3>1, <3>2, <4>1, SurfacesAre
    <3>4. v = AgentVar(e) /\ Previous(g, i) = "PREVIOUS_BEARER" /\ v # "PREVIOUS_BEARER"
      BY <1>2, <2>2, <3>2, <3>3, SurfacesAre
    <3>5. Stdio(e)
      BY <1>5, <3>1, <3>4
    <3>6. "PREVIOUS_BEARER" \in Variables
      BY DEF Variables, TokenVars
    <3>7. g["PREVIOUS_BEARER"] = e["PREVIOUS_BEARER"]
      BY <1>1, <3>4, <3>6
    <3>8. ~Given(e, "PREVIOUS_BEARER")
      BY <3>4, <3>5
    <3>. QED BY <3>4, <3>7, <3>8 DEF Given
  <2>3. \A i \in 1 .. 4 : /\ v = Previous(g, i) => g[v] = "unset"
                          /\ v = Current(g, i) /\ g[v] = "unset" => ~Given(g, Previous(g, i))
    BY <2>1, <2>2
  <2>. QED BY <1>3, <2>3, PairInnocent
<1>13. Innocent(IdentityFaults(g), v)
  <2>1. ASSUME Gateway(g) PROVE Gateway(e)
    BY <1>2, <2>1
  <2>2. /\ Gateway(g) /\ v = "JWKS" => g["JWKS"] = "url"
        /\ Gateway(g) /\ v = "ISSUER" => g["ISSUER"] = "name"
    BY <1>1, <1>5, <1>6, <2>1
  <2>3. v \in {"PRINCIPAL", "OPERATOR_NAME"} => g[v] = "unset"
    BY <1>1, <1>5, <1>6
  <2>. QED BY <1>3, <2>2, <2>3, IdentityInnocent
<1>14. Innocent(OtherFaults(g), v)
  <2>1. ASSUME v \in OtherVars \ {"AUDIT_LABELS"} PROVE g[v] = "unset"
    BY <1>1, <1>5, <1>6, <2>1 DEF OtherVars, NumberVars
  <2>2. ASSUME v = "AUDIT_LABELS" PROVE g[v] = IF Given(g, "AUDIT_QUERY") THEN "name" ELSE "unset"
    <3>1. "AUDIT_QUERY" \in Variables
      BY DEF Variables, UrlVars
    <3>2. g["AUDIT_QUERY"] = e["AUDIT_QUERY"]
      BY <1>1, <2>2, <3>1
    <3>3. Given(g, "AUDIT_QUERY") <=> Given(e, "AUDIT_QUERY")
      BY <3>2 DEF Given
    <3>4. x = IF Given(e, "AUDIT_QUERY") THEN "name" ELSE "unset"
      BY <1>5, <1>6, <2>2
    <3>. QED BY <1>1, <3>3, <3>4
  <2>. QED BY <2>1, <2>2, OtherInnocent
<1>. QED BY <1>7, <1>8, <1>9, <1>10, <1>11, <1>12, <1>13, <1>14, SettingsInnocent DEF g

(* ... nor does what is read before them. *)
LEMMA ConfigCured ==
  ASSUME NEW e, Typed(e), NEW v \in Variables
  PROVE  AreFaults(ConfigFaults(Remedied(e, v))) /\ Innocent(ConfigFaults(Remedied(e, v)), v)
<1>. DEFINE condition == Remedied(e, v)["LISTEN"] \in {"blank", "bad", "port 0"}
            fault == <<condition, {"LISTEN"}>>
<1>1. ConfigFaults(Remedied(e, v)) = <<fault>>
  BY Zenon DEF ConfigFaults
<1>2. ASSUME v = "LISTEN" PROVE Remedied(e, v)["LISTEN"] = "unset"
  <2>1. Remedy(e, v) = "unset"
    BY <1>2, SurfacesAre DEF Remedy
  <2>2. Remedied(e, v)[v] = Remedy(e, v)
    BY RemediedIs
  <2>. QED BY <1>2, <2>1, <2>2
<1>3. fault[1] => v \notin fault[2]
  <2>1. fault[1] = condition /\ fault[2] = {"LISTEN"}
    OBVIOUS
  <2>. QED BY <1>2, <2>1
<1>. HIDE DEF fault, condition
<1>. QED BY <1>1, <1>3, OneFault, RangeOfOne DEF Innocent

-----------------------------------------------------------------------------
(* What a start can be refused for *)

LEMMA JoinNames ==
  ASSUME NEW s, NEW t, NEW names, AreFaults(s), AreFaults(t), NamesOnly(s, names), NamesOnly(t, names)
  PROVE  AreFaults(s \o t) /\ NamesOnly(s \o t, names)
BY RangeOfJoin, ClearJoin DEF NamesOnly

LEMMA FourNames ==
  ASSUME NEW T, NEW s \in [1 .. 4 -> T], NEW names, \A i \in 1 .. 4 : AreFaults(s[i]) /\ NamesOnly(s[i], names)
  PROVE  NamesOnly(FlattenSeq(s), names)
<1>1. /\ AreFaults(s[1]) /\ AreFaults(s[2]) /\ AreFaults(s[3]) /\ AreFaults(s[4])
      /\ NamesOnly(s[1], names) /\ NamesOnly(s[2], names) /\ NamesOnly(s[3], names) /\ NamesOnly(s[4], names)
  OBVIOUS
<1>2. AreFaults(s[1] \o s[2]) /\ NamesOnly(s[1] \o s[2], names)
  BY <1>1, JoinNames
<1>3. AreFaults((s[1] \o s[2]) \o s[3]) /\ NamesOnly((s[1] \o s[2]) \o s[3], names)
  BY <1>1, <1>2, JoinNames
<1>4. NamesOnly(((s[1] \o s[2]) \o s[3]) \o s[4], names)
  BY <1>1, <1>3, JoinNames
<1>. QED BY <1>4, FlattenFour

LEMMA ProcessNames ==
  ASSUME NEW g
  PROVE  NamesOnly(ProcessFaults(g), {"TRANSPORT", "AUDIT_SINK", "LOG_SINK"})
BY RangeOfSix DEF ProcessFaults, NamesOnly

LEMMA ModeNames ==
  ASSUME NEW g
  PROVE  /\ NamesOnly(ModeFront(g), {"REGISTRY", "AUTH_MODE"} \cup Range(Foreign(g)))
         /\ NamesOnly(ModeBack(g), {AgentVar(g)})
<1>1. ASSUME NEW fault \in Range(ModeFront(g))
      PROVE  fault[2] # {} /\ fault[2] \subseteq {"REGISTRY", "AUTH_MODE"} \cup Range(Foreign(g))
  <2>1. \/ fault = <<~Given(g, "REGISTRY"), {"REGISTRY"}>>
        \/ fault = <<g["AUTH_MODE"] = "bad" \/ (Gateway(g) /\ Stdio(g)), {"AUTH_MODE"}>>
        \/ \E w \in Range(Foreign(g)) : fault = <<Given(g, w), {w}>>
    BY <1>1, ModeParts
  <2>. QED BY <2>1
<1>2. NamesOnly(ModeBack(g), {AgentVar(g)})
  BY RangeOfOne DEF NamesOnly, ModeBack
<1>. QED BY <1>1, <1>2 DEF NamesOnly

LEMMA ReviewNames ==
  ASSUME NEW g
  PROVE  NamesOnly(ReviewFaults(g), Variables)
BY RangeOfSix, SurfacesAre DEF ReviewFaults, NamesOnly, Variables, TokenVars, UrlVars

LEMMA EvaluatorNames ==
  ASSUME NEW g
  PROVE  NamesOnly(EvaluatorFaults(g), Variables)
BY RangeOfThree DEF EvaluatorFaults, NamesOnly, Variables, TokenVars, NameVars

LEMMA IdentityNames ==
  ASSUME NEW g
  PROVE  NamesOnly(IdentityFaults(g), Variables)
<1>1. {"JWKS", "ISSUER", "PRINCIPAL", "OPERATOR_NAME"} \subseteq Variables
  BY DEF Variables, NameVars, UrlVars
<1>2. CASE Gateway(g)
  BY <1>1, <1>2, RangeOfTwo DEF IdentityFaults, NamesOnly
<1>3. CASE ~Gateway(g)
  BY <1>1, <1>3, RangeOfFour DEF IdentityFaults, NamesOnly
<1>. QED BY <1>2, <1>3

LEMMA OtherNames ==
  ASSUME NEW g
  PROVE  NamesOnly(OtherFaults(g), Variables)
<1>1. OtherVars \subseteq Variables /\ "AUDIT_LABELS" \in OtherVars
  BY DEF OtherVars, Variables, NameVars, UrlVars
<1>2. NamesOnly(OtherFaults(g), OtherVars)
  BY RangeOfThirteen DEF OtherFaults, OneOf, NamesOnly, OtherVars, NumberVars
<1>. QED BY <1>1, <1>2 DEF NamesOnly

LEMMA SharedNames ==
  ASSUME NEW g
  PROVE  NamesOnly(SharedFaults(g), Variables)
<1>. DEFINE Checks(i) == << <<g[Surfaces(g)[i].current] \in TakenBefore(g, i), {Surfaces(g)[i].current}>>,
                            <<g[Surfaces(g)[i].previous] \in TakenBefore(g, i), {Surfaces(g)[i].previous}>> >>
            s == [i \in 1 .. 4 |-> Checks(i)]
<1>1. ASSUME NEW i \in 1 .. 4 PROVE AreFaults(Checks(i)) /\ NamesOnly(Checks(i), Variables)
  <2>1. Surfaces(g)[i].current \in Variables /\ Surfaces(g)[i].previous \in Variables
    BY SurfacesApart DEF Current, Previous, Variables
  <2>. QED BY <2>1, TwoFaults, RangeOfTwo DEF NamesOnly
<1>2. SharedFaults(g) = FlattenSeq(s)
  BY DEF SharedFaults
<1>. HIDE DEF Checks
<1>3. s \in [1 .. 4 -> {Checks(i) : i \in 1 .. 4}] /\ \A i \in 1 .. 4 : AreFaults(s[i]) /\ NamesOnly(s[i], Variables)
  BY <1>1
<1>. QED BY <1>2, <1>3, FourNames

LEMMA PairNames ==
  ASSUME NEW g
  PROVE  NamesOnly(PairFaults(g), Variables)
<1>. DEFINE Which(i) == IF i = 1 THEN 4 ELSE IF i = 4 THEN 3 ELSE i - 1
            Checks(i) == LET surface == Surfaces(g)[Which(i)]
                             current == surface.current
                             previous == surface.previous
                         IN << <<~Given(g, current) /\ Given(g, previous), {current}>>,
                               <<g[current] = "short", {current}>>,
                               <<g[previous] = "short", {previous}>>,
                               <<Given(g, current) /\ g[current] = g[previous], {previous}>> >>
            s == [i \in 1 .. 4 |-> Checks(i)]
<1>1. ASSUME NEW i \in 1 .. 4 PROVE AreFaults(Checks(i)) /\ NamesOnly(Checks(i), Variables)
  <2>. DEFINE n == Which(i)
  <2>1. n \in 1 .. 4
    OBVIOUS
  <2>. HIDE DEF n
  <2>2. Surfaces(g)[n].current \in Variables /\ Surfaces(g)[n].previous \in Variables
    BY <2>1, SurfacesApart DEF Current, Previous, Variables
  <2>. QED BY <2>2, FourFaults, RangeOfFour DEF NamesOnly, n
<1>2. PairFaults(g) = FlattenSeq(s)
  BY DEF PairFaults
<1>. HIDE DEF Checks
<1>3. s \in [1 .. 4 -> {Checks(i) : i \in 1 .. 4}] /\ \A i \in 1 .. 4 : AreFaults(s[i]) /\ NamesOnly(s[i], Variables)
  BY <1>1
<1>. QED BY <1>2, <1>3, FourNames

LEMMA ModeNamesAll ==
  ASSUME NEW g
  PROVE  NamesOnly(ModeFaults(g), Variables)
<1>1. /\ {"REGISTRY", "AUTH_MODE"} \cup Range(Foreign(g)) \subseteq Variables
      /\ {AgentVar(g)} \subseteq Variables
  BY ForeignAre, SurfacesAre DEF Variables, TokenVars, NameVars, UrlVars
<1>2. NamesOnly(ModeFront(g), Variables) /\ NamesOnly(ModeBack(g), Variables)
  BY <1>1, ModeNames DEF NamesOnly
<1>3. ModeFaults(g) = ModeFront(g) \o ModeBack(g) /\ AreFaults(ModeFront(g)) /\ AreFaults(ModeBack(g))
  BY ModeParts
<1>. QED BY <1>2, <1>3, JoinNames

(* A variable that the remedy can be applied to. *)
Curable(e, v) == v \in Variables /\ (v = AgentVar(e) /\ Stdio(e) => ~Given(e, "PREVIOUS_BEARER"))

(* What the settings are refused for is named by a variable that can be cured: were it the
   agent's over standard input, beside a previous one, the mode or the previous one would
   have been named before it. *)
LEMMA SettingsRefused ==
  ASSUME NEW e, First(SettingsFaults(e)) # <<>>
  PROVE  \E names : First(SettingsFaults(e)) = <<names>> /\ \E v \in names : Curable(e, v)
<1>. DEFINE p == ProcessFaults(e)
            m == ModeFaults(e)
            r == ReviewFaults(e)
            a == EvaluatorFaults(e)
            s == SharedFaults(e)
            b == PairFaults(e)
            i == IdentityFaults(e)
            o == OtherFaults(e)
            Fine(l) == AreFaults(l) /\ NamesOnly(l, Variables)
<1>1. Fine(p) /\ Fine(m) /\ Fine(r) /\ Fine(a) /\ Fine(s) /\ Fine(b) /\ Fine(i) /\ Fine(o)
  <2>1. {"TRANSPORT", "AUDIT_SINK", "LOG_SINK"} \subseteq Variables
    BY DEF Variables, SinkVars
  <2>2. NamesOnly(p, Variables)
    BY <2>1, ProcessNames DEF NamesOnly
  <2>. QED BY <2>2, ProcessFaultsAre, ModeFaultsAre, ReviewFaultsAre, EvaluatorFaultsAre, SharedFaultsAre, PairFaultsAre,
              IdentityFaultsAre, OtherFaultsAre, ModeNamesAll, ReviewNames, EvaluatorNames, SharedNames, PairNames,
              IdentityNames, OtherNames
<1>2. SettingsFaults(e) = p \o m \o r \o a \o s \o b \o i \o o
  BY DEF SettingsFaults
<1>3. ASSUME NEW x, NEW y, Fine(x), Fine(y) PROVE Fine(x \o y) /\ (~Clear(x) => ~Clear(x \o y) /\ First(x \o y) = First(x))
  BY <1>3, JoinNames, FirstOfJoin, ClearJoin
<1>. HIDE DEF r, a, s, b, i, o, p, m, Fine
<1>4. Fine(p \o m)
  BY <1>1, <1>3
<1>5. /\ Fine(p \o m \o r)
      /\ ~Clear(p \o m) => ~Clear(p \o m \o r) /\ First(p \o m \o r) = First(p \o m)
  BY <1>1, <1>3, <1>4
<1>6. /\ Fine(p \o m \o r \o a)
      /\ ~Clear(p \o m) => ~Clear(p \o m \o r \o a) /\ First(p \o m \o r \o a) = First(p \o m)
  BY <1>1, <1>3, <1>5
<1>7. /\ Fine(p \o m \o r \o a \o s)
      /\ ~Clear(p \o m) => ~Clear(p \o m \o r \o a \o s) /\ First(p \o m \o r \o a \o s) = First(p \o m)
  BY <1>1, <1>3, <1>6
<1>8. /\ Fine(p \o m \o r \o a \o s \o b)
      /\ ~Clear(p \o m) => ~Clear(p \o m \o r \o a \o s \o b) /\ First(p \o m \o r \o a \o s \o b) = First(p \o m)
  BY <1>1, <1>3, <1>7
<1>9. /\ Fine(p \o m \o r \o a \o s \o b \o i)
      /\ ~Clear(p \o m) => /\ ~Clear(p \o m \o r \o a \o s \o b \o i)
                           /\ First(p \o m \o r \o a \o s \o b \o i) = First(p \o m)
  BY <1>1, <1>3, <1>8
<1>10. /\ Fine(p \o m \o r \o a \o s \o b \o i \o o)
       /\ ~Clear(p \o m) => First(p \o m \o r \o a \o s \o b \o i \o o) = First(p \o m)
  BY <1>1, <1>3, <1>9
<1>11. CASE Stdio(e) /\ Given(e, "PREVIOUS_BEARER")
  <2>. DEFINE f == ModeFront(e)
  <2>1. AreFaults(p) /\ AreFaults(m) /\ AreFaults(f) /\ AreFaults(ModeBack(e)) /\ m = f \o ModeBack(e)
    BY <1>1, ModeParts DEF Fine, m
  <2>2. ~Clear(f)
    <3>1. \E fault \in Range(f) : fault[1]
      <4>1. CASE Gateway(e)
        <5>1. <<e["AUTH_MODE"] = "bad" \/ (Gateway(e) /\ Stdio(e)), {"AUTH_MODE"}>> \in Range(f)
          BY ModeParts
        <5>. QED BY <1>11, <4>1, <5>1
      <4>2. CASE ~Gateway(e)
        <5>1. "PREVIOUS_BEARER" \in Range(Foreign(e))
          BY <4>2, ForeignAre
        <5>2. <<Given(e, "PREVIOUS_BEARER"), {"PREVIOUS_BEARER"}>> \in Range(f)
          BY <5>1, ModeParts
        <5>. QED BY <1>11, <5>2
      <4>. QED BY <4>1, <4>2
    <3>. QED BY <2>1, <3>1, ClearIs
  <2>. HIDE DEF f
  <2>3. ~Clear(m) /\ First(m) = First(f)
    BY <2>1, <2>2, FirstOfJoin, ClearJoin
  <2>4. ~Clear(p \o m) /\ (First(p \o m) = First(p) \/ First(p \o m) = First(f))
    BY <2>1, <2>3, FirstOfJoin, ClearJoin
  <2>5. PICK l : First(SettingsFaults(e)) = First(l) /\ AreFaults(l) /\ (l = p \/ l = f)
    BY <1>2, <1>10, <2>1, <2>4
  <2>6. PICK fault \in Range(l) : fault[1] /\ First(l) = <<fault[2]>>
    BY <2>5, FirstIsThere
  <2>7. NamesOnly(l, Variables \ {AgentVar(e)})
    <3>1. {"TRANSPORT", "AUDIT_SINK", "LOG_SINK"} \subseteq Variables \ {AgentVar(e)}
      BY SurfacesAre DEF Variables, SinkVars
    <3>2. {"REGISTRY", "AUTH_MODE"} \cup Range(Foreign(e)) \subseteq Variables \ {AgentVar(e)}
      BY ForeignAre DEF AgentVar, Variables, TokenVars, NameVars, UrlVars
    <3>3. NamesOnly(p, Variables \ {AgentVar(e)})
      BY <3>1, ProcessNames DEF NamesOnly, p
    <3>4. NamesOnly(f, Variables \ {AgentVar(e)})
      BY <3>2, ModeNames DEF NamesOnly, f
    <3>. QED BY <2>5, <3>3, <3>4
  <2>8. PICK v \in fault[2] : v \in Variables \ {AgentVar(e)}
    BY <2>6, <2>7 DEF NamesOnly
  <2>. QED BY <2>5, <2>6, <2>8 DEF Curable
<1>12. CASE ~(Stdio(e) /\ Given(e, "PREVIOUS_BEARER"))
  <2>1. AreFaults(SettingsFaults(e)) /\ NamesOnly(SettingsFaults(e), Variables)
    BY <1>2, <1>10 DEF Fine
  <2>2. PICK fault \in Range(SettingsFaults(e)) : fault[1] /\ First(SettingsFaults(e)) = <<fault[2]>>
    BY <2>1, FirstIsThere
  <2>3. PICK v \in fault[2] : v \in Variables
    BY <2>1, <2>2 DEF NamesOnly
  <2>. QED BY <1>12, <2>2, <2>3 DEF Curable
<1>. QED BY <1>11, <1>12

(* A refused start has named a variable of the environment it read. *)
RefusedInv ==
    /\ Typed(environment)
    /\ boot.at = "refused" => \E v \in boot.fault : Curable(environment, v)

LEMMA EnvironmentIsTyped ==
  ASSUME EnvironmentRead
  PROVE  Typed(environment)
<1>1. ASSUME NEW variable \in TokenVars
      PROVE  ValuesOf(variable) \subseteq {"unset", "blank", "t1", "t2", "t3", "short", "long"}
  <2>. DEFINE Tokens == {"unset", "blank"} \cup {"t1", "t2", "t3", "short"}
  <2>1. /\ ValuesOf("STANDALONE_BEARER") = Tokens /\ ValuesOf("BEARER") = Tokens
        /\ ValuesOf("PREVIOUS_BEARER") = Tokens /\ ValuesOf("PROXY_BEARER") = Tokens
        /\ ValuesOf("PREVIOUS_PROXY_BEARER") = Tokens /\ ValuesOf("EVALUATOR_BEARER") = Tokens
        /\ ValuesOf("PREVIOUS_EVALUATOR_BEARER") = Tokens /\ ValuesOf("METRICS_BEARER") = Tokens
        /\ ValuesOf("PREVIOUS_METRICS_BEARER") = Tokens
    BY DEF ValuesOf, TokenVars, NameVars, UrlVars, NumberVars, SinkVars
  <2>2. ValuesOf("OPERATOR_PASSWORD") = {"unset", "blank"} \cup {"t1", "t2", "t3", "short", "long"}
    BY DEF ValuesOf, TokenVars, NameVars, UrlVars, NumberVars, SinkVars
  <2>. HIDE DEF ValuesOf
  <2>. QED BY <1>1, <2>1, <2>2 DEF TokenVars
<1>2. TokenVars \subseteq Variables
  BY DEF Variables
<1>. QED BY <1>1, <1>2 DEF EnvironmentRead, Typed

LEMMA RefusedFor ==
  ASSUME NEW stage, NEW condition, NEW names, NEW then, then # "refused",
         Reads(stage, <<<<condition, names>>>>, then)
  PROVE  boot'.at = "refused" => boot'.fault = names
<1>. DEFINE faults == <<<<condition, names>>>>
<1>1. AreFaults(faults) /\ Range(faults) = {<<condition, names>>}
  BY OneFault, RangeOfOne
<1>2. First(faults) # <<>> => First(faults) = <<names>>
  BY <1>1, FirstIsThere
<1>. HIDE DEF faults
<1>3. boot' = IF First(faults) = <<>> THEN Stage(then, {}) ELSE Stage("refused", First(faults)[1])
  BY DEF Reads, faults
<1>. QED BY <1>2, <1>3 DEF Stage

LEMMA RefusedSteps ==
  ASSUME RefusedInv, StartupNext
  PROVE  RefusedInv'
<1>1. SUFFICES ASSUME boot'.at = "refused"
               PROVE  \E v \in boot'.fault : Curable(environment, v)
  <2>1. environment' = environment
    BY DEF StartupNext, ReadConfig, ReadSettings, OpenOutputs, ReadRegistry, CheckRegistry, Serve
  <2>. QED BY <1>1, <2>1 DEF RefusedInv, Typed, Curable, AgentVar, Gateway, Stdio, Given
<1>2. ASSUME NEW v \in {"AUDIT_SINK", "LOG_SINK", "LISTEN", "REGISTRY"} PROVE Curable(environment, v)
  <2>1. v \in Variables
    BY DEF Variables, SinkVars, NameVars
  <2>2. v # AgentVar(environment)
    BY SurfacesAre
  <2>. QED BY <2>1, <2>2 DEF Curable
<1>3. CASE ReadConfig
  <2>. DEFINE condition == environment["LISTEN"] \in {"blank", "bad", "port 0"}
  <2>1. Reads("config", <<<<condition, {"LISTEN"}>>>>, "settings")
    BY <1>3, Zenon DEF ReadConfig, ConfigFaults
  <2>. HIDE DEF condition
  <2>2. boot'.fault = {"LISTEN"}
    BY <1>1, <2>1, RefusedFor
  <2>. QED BY <1>2, <2>2
<1>4. CASE ReadSettings
  <2>. DEFINE faults == SettingsFaults(environment)
  <2>1. boot' = IF First(faults) = <<>> THEN Stage("outputs", {}) ELSE Stage("refused", First(faults)[1])
    BY <1>4 DEF ReadSettings, Reads
  <2>2. First(faults) # <<>>
    BY <1>1, <2>1 DEF Stage
  <2>3. PICK names : First(faults) = <<names>> /\ \E v \in names : Curable(environment, v)
    BY <2>2, SettingsRefused
  <2>. HIDE DEF faults
  <2>. QED BY <2>1, <2>2, <2>3 DEF Stage
<1>5. CASE OpenOutputs
  <2>1. CASE \E variable \in {"AUDIT_SINK", "LOG_SINK"} : boot' = Stage("refused", {variable})
    BY <1>2, <2>1 DEF Stage
  <2>2. CASE Reads("outputs", <<<<SameOutput(AuditSink(environment), LogSink(environment)),
                                  {"AUDIT_SINK", "LOG_SINK"}>>>>, "registry")
    <3>1. boot'.fault = {"AUDIT_SINK", "LOG_SINK"}
      BY <1>1, <2>2, RefusedFor
    <3>. QED BY <1>2, <3>1
  <2>. QED BY <1>5, <2>1, <2>2 DEF OpenOutputs
<1>6. CASE ReadRegistry \/ CheckRegistry
  <2>1. boot'.fault = {"REGISTRY"}
    <3>1. CASE boot' = Stage("refused", {"REGISTRY"})
      BY <3>1 DEF Stage
    <3>2. CASE Reads("registry", <<<<Malformed(registryFile), {"REGISTRY"}>>>>, "credentials")
      BY <1>1, <3>2, RefusedFor
    <3>3. CASE Reads("credentials", <<<<Collides(accounts), {"REGISTRY"}>>>>, "surfaces")
      BY <1>1, <3>3, RefusedFor
    <3>. QED BY <1>6, <3>1, <3>2, <3>3 DEF ReadRegistry, CheckRegistry
  <2>. QED BY <1>2, <2>1
<1>7. CASE Serve
  BY <1>1, <1>7 DEF Serve, Stage
<1>. QED BY <1>3, <1>4, <1>5, <1>6, <1>7 DEF StartupNext

(* What the refusal of a start names can be cured: whatever was read of the environment,
   when from_lookup, open_outputs or the registry gives up at its first fault, one of the
   variables that fault names has a value (its Remedy) with which from_lookup gives up at
   none that names it again. It is shown for every variable but one: an agent's token over stdio beside a
   previous one is needed and unwanted, but the mode or the previous token is found fault
   with first. *)
THEOREM RefusalsAlwaysCurable == EnvironmentRead /\ StartupSpec => []RefusalsCanBeCured
<1>1. EnvironmentRead /\ StartupInit => RefusedInv
  BY EnvironmentIsTyped DEF StartupInit, RefusedInv, Stage
<1>2. RefusedInv /\ [StartupNext]_startupVars => RefusedInv'
  <2>1. ASSUME RefusedInv, UNCHANGED startupVars PROVE RefusedInv'
    BY <2>1 DEF RefusedInv, startupVars, Typed, Curable, AgentVar, Gateway, Stdio, Given
  <2>. QED BY <2>1, RefusedSteps
<1>3. RefusedInv => RefusalsCanBeCured
  <2>1. SUFFICES ASSUME Typed(environment), NEW v \in boot.fault, Curable(environment, v)
                 PROVE  \E value \in ValuesOf(v) \cup (IF v \in TokenVars THEN {"another"} ELSE {}) :
                            LET changed == With(environment, v, value)
                                first == First(ConfigFaults(changed) \o SettingsFaults(changed))
                            IN first = <<>> \/ v \notin first[1]
    BY DEF RefusedInv, RefusalsCanBeCured
  <2>2. v \in Variables /\ (v = AgentVar(environment) /\ Stdio(environment) => ~Given(environment, "PREVIOUS_BEARER"))
    BY <2>1 DEF Curable
  <2>. DEFINE value == Remedy(environment, v)
              faults == ConfigFaults(With(environment, v, value)) \o SettingsFaults(With(environment, v, value))
  <2>3. value \in ValuesOf(v) \cup (IF v \in TokenVars THEN {"another"} ELSE {})
    BY <2>2, RemedyIsAValue
  <2>4. AreFaults(faults) /\ Innocent(faults, v)
    <3>1. /\ AreFaults(SettingsFaults(With(environment, v, value)))
          /\ Innocent(SettingsFaults(With(environment, v, value)), v)
      BY <2>1, <2>2, RemedyCures DEF Remedied
    <3>2. /\ AreFaults(ConfigFaults(With(environment, v, value)))
          /\ Innocent(ConfigFaults(With(environment, v, value)), v)
      BY <2>1, <2>2, ConfigCured DEF Remedied
    <3>. QED BY <3>1, <3>2, BothInnocent
  <2>. HIDE DEF faults, value
  <2>5. First(faults) = <<>> \/ v \notin First(faults)[1]
    <3>1. SUFFICES ASSUME First(faults) # <<>> PROVE v \notin First(faults)[1]
      OBVIOUS
    <3>2. PICK fault \in Range(faults) : fault[1] /\ First(faults) = <<fault[2]>>
      BY <2>4, <3>1, FirstIsThere
    <3>. QED BY <2>4, <3>2 DEF Innocent
  <2>. QED BY <2>3, <2>5 DEF faults
<1>. QED BY <1>1, <1>2, <1>3, PTL DEF StartupSpec

-----------------------------------------------------------------------------
(* A connection that is opened *)

(* How far the dial is, with what is so of it then: nothing is offered before the key
   that was shown has been found to be the one that was pinned. *)
DialInv ==
    /\ dial \in [at : {"none", "dialling", "keyed", "turned away", "asking", "authenticating", "told"},
                 account : accounts \cup {Nothing}, shown : {"nothing", "pinned", "another"},
                 mismatch : BOOLEAN, offered : BOOLEAN, taken : BOOLEAN,
                 told : {"none", "unusable pin", "credential unavailable", "mismatch", "unreachable", "rejected",
                         "failed", "open"}]
    /\ dial.at = "none" => dial = NoDial
    /\ dial.at # "none" => Serving
    /\ dial.at \in {"dialling", "keyed", "turned away", "asking", "authenticating"} =>
          KeyFor(dial.account.credential) = "usable" /\ dial.told = "none"
    /\ dial.at \in {"dialling", "keyed", "turned away", "asking"} => ~dial.offered
    /\ dial.at = "authenticating" => dial.offered
    /\ dial.at # "told" => ~dial.taken
    /\ dial.at \in {"dialling"} => dial.shown = "nothing" /\ ~dial.mismatch
    /\ dial.at \in {"keyed", "asking", "authenticating"} => dial.shown = dial.account.pin /\ ~dial.mismatch
    /\ dial.at = "turned away" => dial.mismatch /\ dial.shown \notin {"nothing", dial.account.pin}
    /\ DialTells

LEMMA DialSteps ==
  ASSUME StartupInv, DialInv, DialNext
  PROVE  DialInv'
<1>1. UNCHANGED <<environment, registryFile, held, accounts, boot>>
  BY DEF DialNext, startupVars
<1>2. \A reference : KeyFor(reference)' = KeyFor(reference)
  BY <1>1 DEF KeyFor
<1>3. Serving' = Serving
  BY <1>1 DEF Serving
<1>4. CASE Dial
  <2>1. PICK account \in accounts :
           LET key == KeyFor(account.credential)
           IN dial' = [NoDial EXCEPT
                         !.account = account,
                         !.at = IF account.pin = "unreadable" \/ key \in {"none", "malformed"} THEN "told" ELSE "dialling",
                         !.told = IF account.pin = "unreadable" THEN "unusable pin"
                                  ELSE IF key = "none" THEN "credential unavailable"
                                  ELSE IF key = "malformed" THEN "unusable credential" ELSE "none"]
    BY <1>4 DEF Dial
  <2>2. Serving /\ KeyFor(account.credential) \in {"usable", "none"}
    BY <1>4 DEF Dial, StartupInv, Serving
  <2>3. \/ dial' = [NoDial EXCEPT !.account = account, !.at = "told", !.told = "unusable pin"]
        \/ dial' = [NoDial EXCEPT !.account = account, !.at = "told", !.told = "credential unavailable"]
        \/ /\ KeyFor(account.credential) = "usable"
           /\ dial' = [NoDial EXCEPT !.account = account, !.at = "dialling", !.told = "none"]
    BY <2>1, <2>2
  <2>. QED BY <1>1, <1>2, <1>3, <2>2, <2>3 DEF DialInv, DialTells, NoDial
<1>5. CASE TargetShowsKey
  <2>1. PICK shown \in {"pinned", "another"} :
           dial' = [dial EXCEPT !.shown = shown, !.mismatch = shown # dial.account.pin,
                                !.at = IF shown = dial.account.pin THEN "keyed" ELSE "turned away"]
    BY <1>5 DEF TargetShowsKey, CheckServerKey
  <2>2. dial.at = "dialling"
    BY <1>5 DEF TargetShowsKey
  <2>. QED BY <1>1, <1>2, <1>3, <2>1, <2>2 DEF DialInv, DialTells
<1>6. CASE Connected
  BY <1>1, <1>2, <1>3, <1>6 DEF Connected, DialInv, DialTells
<1>7. CASE NotConnected
  BY <1>1, <1>2, <1>3, <1>7 DEF NotConnected, Told, DialInv, DialTells
<1>8. CASE Offer
  BY <1>1, <1>2, <1>3, <1>8 DEF Offer, DialInv, DialTells
<1>9. CASE Authenticates
  <2>1. /\ dial.at = "authenticating"
        /\ \/ dial' = [dial EXCEPT !.at = "told", !.told = "open", !.taken = TRUE]
           \/ dial' = [dial EXCEPT !.at = "told", !.told = "rejected"]
           \/ dial' = [dial EXCEPT !.at = "told", !.told = "failed"]
    BY <1>9 DEF Authenticates, Told, DialInv
  <2>2. dial.offered
    BY <2>1 DEF DialInv
  <2>. QED BY <1>1, <1>2, <1>3, <2>1, <2>2 DEF DialInv, DialTells
<1>10. CASE DialTimesOut
  BY <1>1, <1>2, <1>3, <1>10 DEF DialTimesOut, Told, DialInv, DialTells
<1>. QED BY <1>4, <1>5, <1>6, <1>7, <1>8, <1>9, <1>10 DEF DialNext

(* Nothing is dialled while the process starts. *)
LEMMA StartingDialsNothing ==
  ASSUME DialInv, StartupNext, UNCHANGED dialVars
  PROVE  DialInv'
<1>1. ~Serving
  BY ReadsMoves DEF StartupNext, ReadConfig, ReadSettings, OpenOutputs, ReadRegistry, CheckRegistry, Serve, Serving
<1>2. dial = NoDial /\ dial' = NoDial
  BY <1>1 DEF DialInv, dialVars
<1>. QED BY <1>2 DEF DialInv, DialTells, NoDial

(* The invariant of a dial (core connect.rs: connect_within, check_server_key): how far it
   is says what has been shown, compared and offered. *)
THEOREM DialInvariant == DialingSpec => [](StartupInv /\ DialInv)
<1>1. KeysHeld /\ StartupInit /\ dial = NoDial => StartupInv /\ DialInv
  BY StartupStarts DEF DialInv, DialTells, NoDial
<1>2. StartupInv /\ DialInv /\ [DialNext \/ (StartupNext /\ UNCHANGED dialVars)]_<<startupVars, dialVars>>
        => (StartupInv /\ DialInv)'
  <2>1. SUFFICES ASSUME StartupInv, DialInv,
                        [DialNext \/ (StartupNext /\ UNCHANGED dialVars)]_<<startupVars, dialVars>>
                 PROVE  StartupInv' /\ DialInv'
    OBVIOUS
  <2>2. CASE DialNext
    BY <2>1, <2>2, DialSteps, StartupStays DEF DialNext
  <2>3. CASE StartupNext /\ UNCHANGED dialVars
    BY <2>1, <2>3, StartupSteps, StartingDialsNothing
  <2>4. CASE UNCHANGED <<startupVars, dialVars>>
    BY <2>1, <2>4, StartupStays DEF startupVars, dialVars, DialInv, DialTells, KeyFor, Serving
  <2>. QED BY <2>1, <2>2, <2>3, <2>4
<1>. QED BY <1>1, <1>2, PTL DEF DialingSpec

(* What is told of a dial is what happened to it (connect.rs: connect_within), whatever
   the registry says and whichever keys are held: a credential is shown only to a machine
   that showed the pinned key. *)
THEOREM DialsAlwaysTell == DialingSpec => []DialTells
<1>1. StartupInv /\ DialInv => DialTells
  BY DEF DialInv
<1>. QED BY <1>1, DialInvariant, PTL

-----------------------------------------------------------------------------
(* The end of the service *)

TaskNames == {"stdio", "http"}

ShutdownTypes ==
    /\ tasks \in [TaskNames -> [at : {"absent", "serving", "draining", "ended", "joined"},
                                ended : {"none", "ok", "error", "unseen"}]]
    /\ stop \in [at : {"no", "serving", "draining", "settling", "exited"}, elapsed : Nat, since : Nat,
                 failure : TaskNames \cup {"none"}, exit : {"none", "success", "failure"}, named : Nat]
    /\ unsettled \in Nat

(* What a task ended with is known once it has ended; and who is served still depends on
   how far the end is. *)
TaskOf(task) ==
    /\ tasks[task].at \in {"absent", "serving", "draining"} => tasks[task].ended = "none"
    /\ tasks[task].at = "ended" => tasks[task].ended \in {"ok", "error"}
    /\ stop.at = "no" => tasks[task].at = "absent"
    /\ stop.at = "serving" => tasks[task].at \in {"absent", "serving", "ended"}
    /\ stop.at \in {"settling", "exited"} => tasks[task].at \in {"absent", "joined"}

(* The time it took, the failure it came to know of, and what it answers. *)
StopHolds ==
    /\ stop.at \in {"no", "serving"} => stop.since = 0 /\ stop.elapsed = 0
    /\ stop.at = "draining" => stop.elapsed <= stop.since /\ stop.since <= DrainWithin
    /\ stop.at = "settling" => stop.elapsed <= DrainWithin + stop.since /\ stop.since <= StopWithin
    /\ stop.at = "exited" =>
          /\ stop.elapsed <= DrainWithin + StopWithin
          /\ stop.exit = "failure" <=> stop.failure # "none"
          /\ stop.named = unsettled
    /\ stop.failure # "none" <=> \E task \in TaskNames : tasks[task].at = "joined" /\ tasks[task].ended = "error"

ShutdownInv == ShutdownTypes /\ (\A task \in TaskNames : TaskOf(task)) /\ StopHolds

LEMMA ShutdownSteps ==
  ASSUME ShutdownInv, ShutdownNext
  PROVE  ShutdownInv'
<1>. USE DEF ShutdownInv, ShutdownTypes, TaskOf, StopHolds
<1>1. DOMAIN tasks = TaskNames /\ DrainWithin \in Nat /\ StopWithin \in Nat /\ MaxUnsettled \in Nat
  BY ShutdownAssumption
<1>2. CASE Spawn
  <2>1. /\ stop.at = "no" /\ stop' = [stop EXCEPT !.at = "serving"] /\ unsettled' \in Nat
        /\ tasks' \in [TaskNames -> {Task("serving", "none"), Task("absent", "none")}]
    <3>1. \A task \in TaskNames : tasks[task] = Task("absent", "none")
      BY <1>1, <1>2 DEF Spawn, Task
    <3>. QED BY <1>1, <1>2, <3>1 DEF Spawn
  <2>2. \A task \in TaskNames : /\ tasks'[task] \in {Task("serving", "none"), Task("absent", "none")}
                                /\ tasks'[task].at \in {"serving", "absent"} /\ tasks'[task].ended = "none"
    BY <2>1 DEF Task
  <2>3. \A task \in TaskNames : tasks[task].at = "absent"
    BY <2>1
  <2>4. tasks' \in [TaskNames -> [at : {"absent", "serving", "draining", "ended", "joined"},
                                  ended : {"none", "ok", "error", "unseen"}]]
    BY <2>1 DEF Task
  <2>. QED BY <2>1, <2>2, <2>3, <2>4
<1>3. ASSUME NEW task \in DOMAIN tasks, TaskEnds(task) PROVE ShutdownInv'
  <2>1. PICK ended \in {"ok", "error"} : tasks' = [tasks EXCEPT ![task] = Task("ended", ended)]
    BY <1>3 DEF TaskEnds
  <2>2. /\ tasks[task].at \in {"serving", "draining"} /\ stop.at \in {"serving", "draining"}
        /\ UNCHANGED <<stop, unsettled>> /\ task \in TaskNames
    BY <1>1, <1>3 DEF TaskEnds
  <2>. QED BY <1>1, <2>1, <2>2 DEF Task
<1>4. CASE Stopped
  <2>1. /\ stop.at = "serving" /\ stop' = [stop EXCEPT !.at = "draining", !.failure = "none"] /\ UNCHANGED unsettled
        /\ tasks' = [task \in TaskNames |-> IF tasks[task].at = "serving" THEN Task("draining", "none") ELSE tasks[task]]
    BY <1>1, <1>4 DEF Stopped, StopWith, Drained
  <2>7. ShutdownTypes'
    BY <1>1, <2>1 DEF Task
  <2>8. ASSUME NEW task \in TaskNames PROVE TaskOf(task)'
    BY <1>1, <2>1 DEF Task
  <2>9. StopHolds'
    BY <1>1, <2>1 DEF Task
  <2>. QED BY <2>7, <2>8, <2>9
<1>5. CASE JoinedFirst
  <2>1. PICK first \in TaskNames :
          /\ tasks[first].at = "ended"
          /\ stop' = [stop EXCEPT !.at = "draining",
                                  !.failure = IF tasks[first].ended = "error" THEN first ELSE "none"]
          /\ tasks' = Drained([tasks EXCEPT ![first].at = "joined"])
    BY <1>1, <1>5 DEF JoinedFirst, StopWith
  <2>2. stop.at = "serving" /\ UNCHANGED unsettled
    BY <1>5 DEF JoinedFirst
  <2>3. tasks' = [task \in TaskNames |-> IF task = first THEN Task("joined", tasks[first].ended)
                                         ELSE IF tasks[task].at = "serving" THEN Task("draining", "none")
                                         ELSE tasks[task]]
    <3>. DEFINE after == [tasks EXCEPT ![first].at = "joined"]
    <3>1. /\ DOMAIN after = TaskNames /\ after[first] = Task("joined", tasks[first].ended)
          /\ \A task \in TaskNames : task # first => after[task] = tasks[task]
      BY <1>1, <2>1 DEF Task
    <3>2. after[first].at # "serving"
      BY <3>1 DEF Task
    <3>. HIDE DEF after
    <3>3. tasks' = [task \in TaskNames |-> IF after[task].at = "serving" THEN Task("draining", "none") ELSE after[task]]
      BY <1>1, <2>1 DEF Drained, after
    <3>. QED BY <3>1, <3>2, <3>3
  <2>4. ASSUME NEW task \in TaskNames
        PROVE  /\ tasks'[task] \in [at : {"absent", "serving", "draining", "ended", "joined"},
                                    ended : {"none", "ok", "error", "unseen"}]
               /\ tasks'[task].at = IF task = first THEN "joined" ELSE IF tasks[task].at = "serving" THEN "draining"
                                    ELSE tasks[task].at
               /\ tasks'[task].ended = tasks[task].ended
    <3>1. CASE task = first
      <4>1. tasks'[task] = Task("joined", tasks[first].ended)
        BY <2>3, <3>1
      <4>. QED BY <3>1, <4>1 DEF Task
    <3>2. CASE task # first /\ tasks[task].at = "serving"
      <4>1. tasks'[task] = Task("draining", "none") /\ tasks[task].ended = "none"
        BY <2>3, <3>2
      <4>. QED BY <3>2, <4>1 DEF Task
    <3>3. CASE task # first /\ tasks[task].at # "serving"
      <4>1. tasks'[task] = tasks[task]
        BY <2>3, <3>3
      <4>. QED BY <3>3, <4>1
    <3>. QED BY <3>1, <3>2, <3>3
  <2>5. /\ stop'.at = "draining" /\ stop'.since = stop.since /\ stop'.elapsed = stop.elapsed
        /\ stop'.failure = IF tasks[first].ended = "error" THEN first ELSE "none"
    BY <2>1
  <2>6. ShutdownTypes'
    BY <2>1, <2>2, <2>3, <2>4
  <2>7. ASSUME NEW task \in TaskNames PROVE TaskOf(task)'
    BY <2>1, <2>2, <2>4, <2>5
  <2>8. StopHolds'
    BY <1>1, <2>1, <2>2, <2>4, <2>5 DEF TaskNames
  <2>. QED BY <2>6, <2>7, <2>8
<1>6. CASE JoinNext
  <2>1. PICK next \in TaskNames :
          /\ tasks[next].at = "ended"
          /\ tasks' = [tasks EXCEPT ![next].at = "joined"]
          /\ stop' = [stop EXCEPT !.failure = IF @ = "none" /\ tasks[next].ended = "error" THEN next ELSE @]
    BY <1>1, <1>6 DEF JoinNext
  <2>2. stop.at = "draining" /\ UNCHANGED unsettled
    BY <1>6 DEF JoinNext
  <2>7. ShutdownTypes'
    BY <1>1, <2>1, <2>2
  <2>8. ASSUME NEW task \in TaskNames PROVE TaskOf(task)'
    BY <1>1, <2>1, <2>2
  <2>3. /\ \A task \in TaskNames : tasks'[task].ended = tasks[task].ended
        /\ \A task \in TaskNames : tasks'[task].at = IF task = next THEN "joined" ELSE tasks[task].at
        /\ stop'.at = stop.at /\ stop'.since = stop.since /\ stop'.elapsed = stop.elapsed
        /\ stop'.failure = IF stop.failure = "none" /\ tasks[next].ended = "error" THEN next ELSE stop.failure
    BY <1>1, <2>1, <2>2
  <2>4. stop'.failure # "none" <=> stop.failure # "none" \/ tasks[next].ended = "error"
    BY <2>3 DEF TaskNames
  <2>9. StopHolds'
    BY <1>1, <2>1, <2>2, <2>3, <2>4
  <2>. QED BY <2>7, <2>8, <2>9
<1>7. CASE AllJoined
  <2>1. /\ stop.at = "draining" /\ \A task \in TaskNames : Gone(task)
        /\ stop' = [stop EXCEPT !.at = "settling", !.since = 0] /\ UNCHANGED <<tasks, unsettled>>
    BY <1>1, <1>7 DEF AllJoined
  <2>7. ShutdownTypes'
    BY <1>1, <2>1 DEF Gone
  <2>8. ASSUME NEW task \in TaskNames PROVE TaskOf(task)'
    BY <1>1, <2>1 DEF Gone
  <2>9. StopHolds'
    BY <1>1, <2>1 DEF Gone
  <2>. QED BY <2>7, <2>8, <2>9
<1>8. CASE DrainTimesOut
  <2>1. /\ stop.at = "draining" /\ stop' = [stop EXCEPT !.at = "settling", !.since = 0] /\ UNCHANGED unsettled
        /\ tasks' = [task \in TaskNames |-> IF Gone(task) THEN tasks[task] ELSE Task("joined", "unseen")]
    BY <1>1, <1>8 DEF DrainTimesOut
  <2>7. ShutdownTypes'
    BY <1>1, <2>1 DEF Task, Gone
  <2>8. ASSUME NEW task \in TaskNames PROVE TaskOf(task)'
    BY <1>1, <2>1 DEF Task, Gone
  <2>9. StopHolds'
    BY <1>1, <2>1 DEF Task, Gone
  <2>. QED BY <2>7, <2>8, <2>9
<1>9. CASE Reclaims
  BY <1>1, <1>9 DEF Reclaims
<1>10. CASE Settled
  <2>1. /\ stop.at = "settling" /\ unsettled = 0 /\ UNCHANGED <<tasks, unsettled>>
        /\ stop' = [stop EXCEPT !.at = "exited", !.named = 0,
                                !.exit = IF stop.failure = "none" THEN "success" ELSE "failure"]
    BY <1>10 DEF Settled, Exit
  <2>7. ShutdownTypes'
    BY <1>1, <2>1
  <2>8. ASSUME NEW task \in TaskNames PROVE TaskOf(task)'
    BY <1>1, <2>1
  <2>9. StopHolds'
    BY <1>1, <2>1
  <2>. QED BY <2>7, <2>8, <2>9
<1>11. CASE SettlingTimesOut
  BY <1>1, <1>11 DEF SettlingTimesOut, Exit
<1>12. CASE TimePasses
  <2>1. /\ \/ stop.at = "draining" /\ stop.since < DrainWithin
           \/ stop.at = "settling" /\ stop.since < StopWithin
        /\ stop' = [stop EXCEPT !.since = @ + 1, !.elapsed = @ + 1] /\ UNCHANGED <<tasks, unsettled>>
    BY <1>12 DEF TimePasses
  <2>2. /\ stop'.at = stop.at /\ stop'.since = stop.since + 1 /\ stop'.elapsed = stop.elapsed + 1
        /\ stop'.failure = stop.failure /\ stop'.exit = stop.exit /\ stop'.named = stop.named
        /\ stop.since + 1 \in Nat /\ stop.elapsed + 1 \in Nat
    BY <2>1
  <2>7. ShutdownTypes'
    BY <2>1, <2>2
  <2>8. ASSUME NEW task \in TaskNames PROVE TaskOf(task)'
    BY <1>1, <2>1
  <2>9. StopHolds'
    BY <1>1, <2>1
  <2>. QED BY <2>7, <2>8, <2>9
<1>. QED BY <1>2, <1>3, <1>4, <1>5, <1>6, <1>7, <1>8, <1>9, <1>10, <1>11, <1>12 DEF ShutdownNext

(* The invariant of the end of the service (lib.rs: stopped): which task is served, what
   each ended with, and the failure and the time that are known so far. *)
THEOREM ShutdownInvariant == ShutdownSpec => []ShutdownInv
<1>1. StartupInit /\ ShutdownInit => ShutdownInv
  BY ShutdownAssumption DEF ShutdownInit, ShutdownInv, ShutdownTypes, TaskOf, StopHolds, Task, TaskNames
<1>2. ShutdownInv /\ [ShutdownNext \/ (StartupNext /\ UNCHANGED shutdownVars)]_<<startupVars, shutdownVars>>
        => ShutdownInv'
  <2>1. SUFFICES ASSUME ShutdownInv, ShutdownNext \/ UNCHANGED shutdownVars PROVE ShutdownInv'
    OBVIOUS
  <2>2. CASE ShutdownNext
    BY <2>1, <2>2, ShutdownSteps
  <2>3. CASE UNCHANGED shutdownVars
    BY <2>1, <2>3 DEF shutdownVars, ShutdownInv, ShutdownTypes, TaskOf, StopHolds
  <2>. QED BY <2>1, <2>2, <2>3
<1>. QED BY <1>1, <1>2, PTL DEF ShutdownSpec

(* The process answers with failure exactly if a task it joined ended in an error, names
   the runs it leaves, and takes no longer than it grants (lib.rs: stopped, draining,
   settled), for every length of both deadlines and every number of runs. *)
THEOREM ExitsAlwaysTell == ShutdownSpec => []ExitTells
<1>1. ShutdownInv => ExitTells
  <2>1. SUFFICES ASSUME ShutdownInv PROVE ExitTells
    OBVIOUS
  <2>2. DOMAIN tasks = TaskNames /\ DrainWithin \in Nat /\ StopWithin \in Nat
    BY <2>1, ShutdownAssumption DEF ShutdownInv, ShutdownTypes
  <2>3. stop.elapsed <= DrainWithin + StopWithin
    BY <2>1, <2>2 DEF ShutdownInv, ShutdownTypes, StopHolds
  <2>4. stop.at = "exited" =>
          /\ stop.exit = "failure" <=> \E task \in DOMAIN tasks : tasks[task].ended = "error"
          /\ stop.named = unsettled
    BY <2>1, <2>2 DEF ShutdownInv, TaskOf, StopHolds
  <2>. QED BY <2>3, <2>4 DEF ExitTells
<1>. QED BY <1>1, ShutdownInvariant, PTL

-----------------------------------------------------------------------------
(* Reading the record back: the inductive invariant *)

HistoryKinds == {"page", "transcript", "activity"}
HistoryWanted == {Decided, LineEvents, {"evaluated"}}
Line == [event : LineEvents, of : Nat \cup {Absent}, at : Nat]
ReadStages == {"asking", "served", "rejected", "unpageable", "relating", "completing", "malformed"}

Reading == [kind : HistoryKinds, wanted : HistoryWanted, at : ReadStages,
            start : Nat, end : Nat, before : Nat \cup {Absent}, next : Nat \cup {Absent},
            first : Nat, asked : Nat, page : SUBSET Nat, found : SUBSET Nat, shown : SUBSET Nat]

(* A line is about an earlier one, of the kind it can be said about, and the times of the
   log do not go back. *)
AboutOf(event) ==
    CASE event \in Answered \cup {"approved"} -> {"held"}
      [] event \in {"completed", "cancelled"} -> {"permitted", "approved"}
      [] event = "evaluated" -> Decided
      [] OTHER -> {}

LogFits ==
    /\ log \in Seq(Line)
    /\ \A m \in Lines : ~Is(m, Decided) =>
          /\ log[m].of \in Lines /\ log[m].of < m
          /\ Is(log[m].of, AboutOf(log[m].event))
    /\ \A m \in Lines : Is(m, Decided) => log[m].of = Absent
    /\ \A m, n \in Lines : m <= n => log[m].at <= log[n].at

(* Line n is on a page before the one that starts at the cursor: pages go back in time,
   those of an activity in the order of the lines. *)
Passed(n, cursor) ==
    /\ cursor # Absent
    /\ IF reading.kind = "activity" THEN n >= cursor ELSE log[n].at > cursor

Ranged ==
    /\ reading.kind = "activity" \/
          /\ 0 < reading.start /\ reading.start <= reading.end
          /\ reading.end <= reading.start + LookBack
          /\ \A cursor \in {reading.before, reading.next} \ {Absent} :
                reading.start <= cursor /\ cursor <= reading.end
    /\ reading.first <= reading.asked /\ reading.asked <= Len(log)
    /\ reading.kind # "page" => reading.wanted = Decided
    /\ reading.page \subseteq Lines

(* The pages so far are the promised lines before the cursor ... *)
Behind ==
    /\ reading.at # "rejected"
    /\ \A n \in reading.shown : n \in Lines /\ Passed(n, reading.before)
    /\ \A n \in Promised : Passed(n, reading.before) => n \in reading.shown

(* ... and this one those between it and the next. *)
OnPage ==
    IF reading.at \in {"asking", "unpageable"} THEN reading.page = {}
    ELSE /\ reading.next # Absent /\ reading.before # Absent => reading.next <= reading.before
         /\ \A n \in reading.page :
               /\ Is(n, reading.wanted)
               /\ ~Passed(n, reading.before)
               /\ reading.next # Absent => Passed(n, reading.next)
               /\ reading.kind # "activity" => reading.start <= log[n].at
         /\ \A n \in Promised \ reading.page :
               Passed(n, reading.before) \/ (reading.next # Absent /\ ~Passed(n, reading.next))

(* What was found about a page: all there was when it was asked for, of what was asked
   so far. *)
Asked == {m \in 1 .. reading.asked : reading.kind = "activity" \/ log[m].at <= reading.end}
Found ==
    /\ reading.kind # "page" /\ reading.at \in {"completing", "served"} =>
          \A m \in Asked : log[m].of \in reading.page /\ ~Is(m, {"cancelled"}) => m \in reading.found
    /\ reading.kind # "page" /\ reading.at = "served" =>
          \A m \in Asked : Is(m, {"completed"}) /\ Is(log[m].of, {"approved"})
                              /\ log[log[m].of].of \in reading.page => m \in reading.found
    /\ reading.found \subseteq Lines

HistoryInv ==
    /\ clock \in Nat /\ Epoch <= clock
    /\ LogFits
    /\ reading # Absent => reading \in Reading /\ Ranged /\ Behind /\ OnPage /\ Found

USE HistoryAssumption

-----------------------------------------------------------------------------
(* Lines, the log service and pages *)

LEMMA GreatestIsThere ==
  ASSUME NEW top \in Nat, NEW T \in SUBSET (0 .. top), T # {}
  PROVE  \E x \in T : \A y \in T : y <= x
<1> DEFINE D == {top - x : x \in T}
<1>1. D \in SUBSET Nat /\ D # {}
  <2>1. \A x \in T : top - x \in Nat
    OBVIOUS
  <2>. QED BY <2>1
<1>2. Min(D) \in D /\ \A y \in D : Min(D) <= y
  BY <1>1, LeastIsThere
<1>3. PICK x \in T : Min(D) = top - x
  BY <1>2
<1>4. \A y \in T : top - x <= top - y
  BY <1>2, <1>3
<1>. QED BY <1>4

LEMMA LinesAre ==
  ASSUME LogFits
  PROVE  /\ Lines = 1 .. Len(log) /\ Len(log) \in Nat
         /\ Lines \subseteq Nat
         /\ \A n \in Lines : log[n] \in Line
         /\ \A T \in SUBSET Lines : IsFiniteSet(T) /\ Cardinality(T) \in Nat
<1>1. Lines = 1 .. Len(log) /\ Len(log) \in Nat /\ \A n \in Lines : log[n] \in Line
  BY DEF LogFits, Lines
<1>2. IsFiniteSet(Lines)
  BY <1>1, FS_Interval
<1>3. \A T \in SUBSET Lines : IsFiniteSet(T) /\ Cardinality(T) \in Nat
  BY <1>2, FS_Subset, FS_CardinalityType
<1>. QED BY <1>1, <1>3

LEMMA FetchedIs ==
  ASSUME LogFits, NEW I \in SUBSET Lines, NEW limit \in Nat, NEW F \in Fetched(I, limit)
  PROVE  /\ F \in SUBSET I /\ Cardinality(F) \in Nat
         /\ Cardinality(F) < limit => F = I
         /\ \A n \in F, m \in I \ F : log[m].at <= log[n].at
<1>1. Cardinality(I) \in Nat
  BY LinesAre
<1>2. CASE Cardinality(I) <= limit
  BY <1>1, <1>2 DEF Fetched
<1>3. CASE ~(Cardinality(I) <= limit)
  <2>1. F \in kSubset(limit, I) /\ \A n \in F, m \in I \ F : log[m].at <= log[n].at
    BY <1>3 DEF Fetched
  <2>2. F \in SUBSET I /\ Cardinality(F) = limit
    BY <2>1 DEF kSubset
  <2>. QED BY <2>1, <2>2
<1>. QED BY <1>2, <1>3

(* A page holds every line of the answer later than its cursor, and no other. *)
LEMMA PageIs ==
  ASSUME LogFits, NEW I \in SUBSET Lines, NEW F \in Fetched(I, PageSize + 1)
  PROVE  /\ Page(F) \in SUBSET I
         /\ Cursor(F) = Absent => Page(F) = I
         /\ Cursor(F) # Absent =>
               /\ Cursor(F) \in Nat
               /\ \E n \in I : Cursor(F) = log[n].at
               /\ \A n \in I : n \in Page(F) <=> log[n].at > Cursor(F)
<1>1. /\ F \in SUBSET I /\ Cardinality(F) \in Nat
      /\ Cardinality(F) < PageSize + 1 => F = I
      /\ \A n \in F, m \in I \ F : log[m].at <= log[n].at
  BY FetchedIs
<1>2. CASE Cardinality(F) <= PageSize
  BY <1>1, <1>2 DEF Page, Cursor
<1>3. CASE ~(Cardinality(F) <= PageSize)
  <2>1. F # {}
    BY <1>1, <1>3, FS_EmptySet
  <2> DEFINE times == {log[n].at : n \in F}
  <2>2. times \in SUBSET Nat /\ times # {}
    BY <1>1, <2>1, LinesAre DEF Line
  <2>3. Boundary(F) \in times /\ \A t \in times : Boundary(F) <= t
    BY <2>2, LeastIsThere DEF Boundary
  <2>4. PICK k \in F : Boundary(F) = log[k].at
    BY <2>3
  <2>5. Page(F) = {n \in F : log[n].at > Boundary(F)} /\ Cursor(F) = Boundary(F)
    BY <1>3 DEF Page, Cursor
  <2>6. ASSUME NEW n \in I, log[n].at > Boundary(F) PROVE n \in F
    <3>1. CASE n \notin F
      <4>1. log[n].at <= log[k].at
        BY <1>1, <3>1
      <4>2. log[n].at \in Nat /\ log[k].at \in Nat
        BY <1>1, LinesAre DEF Line
      <4>. QED BY <2>4, <2>6, <4>1, <4>2
    <3>. QED BY <3>1
  <2>. QED BY <1>1, <2>2, <2>3, <2>4, <2>5, <2>6
<1>. QED BY <1>2, <1>3

LEMMA NewestIs ==
  ASSUME LogFits, NEW I \in SUBSET Lines, Newest(I, PageSize) # I
  PROVE  /\ Newest(I, PageSize) \in SUBSET I /\ Newest(I, PageSize) # {}
         /\ \A n \in Newest(I, PageSize), m \in I : m >= n => m \in Newest(I, PageSize)
<1> DEFINE from(n) == {m \in I : m >= n}
<1>1. Newest(I, PageSize) = {n \in I : Cardinality(from(n)) <= PageSize} /\ I # {}
  <2>1. Cardinality(I) <= PageSize => Newest(I, PageSize) = I
    BY DEF Newest
  <2>2. I = {} => Cardinality(I) <= PageSize
    BY FS_EmptySet
  <2>. QED BY <2>1, <2>2 DEF Newest
<1>2. Lines = 1 .. Len(log) /\ Len(log) \in Nat
  BY LinesAre
<1>3. PICK x \in I : \A y \in I : y <= x
  <2>1. I \in SUBSET (0 .. Len(log))
    BY <1>2
  <2>. QED BY <1>1, <1>2, <2>1, GreatestIsThere
<1>4. from(x) = {x}
  <2>1. \A m \in I : m \in Nat
    BY <1>2
  <2>2. \A m \in I : m >= x <=> m = x
    BY <1>3, <2>1
  <2>. QED BY <2>2
<1>5. Cardinality(from(x)) = 1
  BY <1>4, FS_Singleton
<1>6. x \in Newest(I, PageSize)
  BY <1>1, <1>3, <1>5
<1>7. ASSUME NEW n \in Newest(I, PageSize), NEW m \in I, m >= n
      PROVE  m \in Newest(I, PageSize)
  <2>1. n \in I /\ Cardinality(from(n)) <= PageSize
    BY <1>1
  <2>2. from(m) \in SUBSET from(n) /\ from(n) \in SUBSET Lines
    <3>1. \A k \in I : k \in Nat
      BY <1>2
    <3>2. \A k \in I : k >= m => k >= n
      BY <1>7, <2>1, <3>1
    <3>. QED BY <3>2
  <2>3. IsFiniteSet(from(n)) /\ Cardinality(from(n)) \in Nat /\ Cardinality(from(m)) \in Nat
    BY <2>2, LinesAre, FS_Subset, FS_CardinalityType
  <2>4. Cardinality(from(m)) <= Cardinality(from(n))
    BY <2>2, <2>3, FS_Subset
  <2>. QED BY <1>1, <2>1, <2>3, <2>4
<1>. QED BY <1>1, <1>6, <1>7

-----------------------------------------------------------------------------
(* The record grows *)

LEMMA LogGrows ==
  ASSUME LogFits, NEW event \in LineEvents, NEW n \in Nat \cup {Absent}, NEW at \in Nat,
         Land(event, n, at),
         event \notin Decided => n \in Lines /\ Is(n, AboutOf(event)),
         event \in Decided => n = Absent
  PROVE  /\ LogFits'
         /\ Lines \subseteq Lines' /\ Len(log) <= Len(log')
         /\ \A k \in Lines : log'[k] = log[k]
<1> DEFINE line == [event |-> event, of |-> n, at |-> at]
           top == Len(log) + 1
<1>1. line \in Line /\ log \in Seq(Line) /\ log' = Append(log, line)
  BY DEF Line, LogFits, Land
<1>2. /\ Len(log) \in Nat /\ Lines = 1 .. Len(log)
      /\ log' \in Seq(Line) /\ Len(log') = top /\ Lines' = 1 .. top
      /\ \A k \in Lines : log'[k] = log[k]
      /\ log'[top] = line
  BY <1>1 DEF Lines
<1> HIDE DEF line
<1>3. \A k \in Lines' : k = top \/ k \in Lines
  BY <1>2
<1>4. ASSUME NEW m \in Lines', ~Is(m, Decided)'
      PROVE  (log[m].of \in Lines /\ log[m].of < m /\ Is(log[m].of, AboutOf(log[m].event)))'
  <2>1. CASE m \in Lines
    <3>1. log[m].of \in Lines /\ log[m].of < m /\ Is(log[m].of, AboutOf(log[m].event))
      BY <1>2, <1>4, <2>1 DEF LogFits, Is
    <3>2. log'[m] = log[m] /\ log'[log[m].of] = log[log[m].of]
      BY <1>2, <2>1, <3>1
    <3>. QED BY <1>2, <3>1, <3>2 DEF Is
  <2>2. CASE m = top
    <3>1. log'[m].event = event /\ log'[m].of = n
      BY <1>2, <2>2 DEF line
    <3>2. n \in Lines /\ Is(n, AboutOf(event))
      BY <1>4, <3>1 DEF Is
    <3>3. log'[n] = log[n] /\ n < m
      BY <1>2, <2>2, <3>2
    <3>. QED BY <1>2, <3>1, <3>2, <3>3 DEF Is
  <2>. QED BY <1>3, <2>1, <2>2
<1>5. ASSUME NEW m \in Lines', NEW k \in Lines', m <= k PROVE log'[m].at <= log'[k].at
  <2>1. \A i, j \in Lines : i <= j => log[i].at <= log[j].at
    BY DEF LogFits
  <2>2. CASE k \in Lines
    <3>1. m \in Lines
      BY <1>2, <1>5, <2>2
    <3>. QED BY <1>2, <1>5, <2>1, <2>2, <3>1
  <2>3. CASE k = top
    <3>1. CASE m = top
      BY <1>2, <2>3, <3>1 DEF line
    <3>2. CASE m \in Lines
      <4>1. Len(log) \in Lines /\ m <= Len(log)
        BY <1>2, <3>2
      <4>2. log # <<>>
        BY <1>2, <4>1
      <4>3. log[Len(log)].at <= at
        BY <4>2 DEF Land
      <4>4. log[m].at <= log[Len(log)].at
        BY <2>1, <3>2, <4>1
      <4>5. log[m].at \in Nat /\ log[Len(log)].at \in Nat
        BY <3>2, <4>1, LinesAre DEF Line
      <4>6. log'[m] = log[m] /\ log'[k].at = at
        BY <1>2, <2>3, <3>2 DEF line
      <4>. QED BY <4>3, <4>4, <4>5, <4>6
    <3>. QED BY <1>3, <3>1, <3>2
  <2>. QED BY <1>3, <2>2, <2>3
<1>6. ASSUME NEW m \in Lines', Is(m, Decided)' PROVE log'[m].of = Absent
  <2>1. m \in Lines => log[m].of = Absent
    BY <1>2, <1>6 DEF LogFits, Is
  <2>. QED BY <1>2, <1>3, <1>6, <2>1 DEF Is, line
<1>7. LogFits'
  BY <1>2, <1>4, <1>5, <1>6 DEF LogFits
<1>. QED BY <1>2, <1>7

LEMMA LandKeeps ==
  ASSUME HistoryInv, NEW event \in LineEvents, NEW n \in Nat \cup {Absent}, NEW at \in Nat,
         Land(event, n, at),
         event \notin Decided => n \in Lines /\ Is(n, AboutOf(event)),
         event \in Decided => n = Absent
  PROVE  HistoryInv'
<1>1. LogFits
  BY DEF HistoryInv
<1>2. /\ LogFits' /\ Lines \subseteq Lines' /\ Len(log) <= Len(log')
      /\ \A k \in Lines : log'[k] = log[k]
  BY <1>1, LogGrows
<1>3. Lines = 1 .. Len(log) /\ Len(log) \in Nat /\ Len(log') \in Nat
  BY <1>1, <1>2, LinesAre DEF LogFits
<1>4. UNCHANGED <<clock, reading>>
  BY DEF Land
<1>5. ASSUME reading # Absent
      PROVE  (reading \in Reading /\ Ranged /\ Behind /\ OnPage /\ Found)'
  <2>1. reading \in Reading /\ Ranged /\ Behind /\ OnPage /\ Found
    BY <1>5 DEF HistoryInv
  <2>2. /\ reading.first \in Nat /\ reading.asked \in Nat
        /\ reading.first <= reading.asked /\ reading.asked <= Len(log)
    BY <2>1 DEF Reading, Ranged
  <2>3. 1 .. reading.first \subseteq Lines /\ 1 .. reading.asked \subseteq Lines
    BY <1>3, <2>2
  <2>4. reading' \in Reading'
    BY <1>4, <2>1 DEF Reading
  <2>5. \A k \in Lines : \A cursor : Passed(k, cursor)' <=> Passed(k, cursor)
    BY <1>2, <1>4 DEF Passed
  <2>6. Promised' = Promised
    <3>1. \A k \in 1 .. reading.first : log'[k] = log[k]
      BY <1>2, <2>3
    <3>. QED BY <1>4, <3>1 DEF Promised, Is
  <2>7. Asked' = Asked
    <3>1. \A k \in 1 .. reading.asked : log'[k] = log[k]
      BY <1>2, <2>3
    <3>. QED BY <1>4, <3>1 DEF Asked
  <2>8. reading.page \subseteq Lines /\ Promised \subseteq Lines /\ Asked \subseteq Lines
    BY <2>1, <2>3 DEF Ranged, Promised, Asked
  <2>9. Ranged'
    BY <1>2, <1>3, <1>4, <2>1, <2>2 DEF Ranged
  <2>10. Behind'
    BY <1>2, <1>4, <2>1, <2>5, <2>6, <2>8 DEF Behind
  <2>11. OnPage'
    <3>1. \A k \in reading.page : Is(k, reading.wanted)' <=> Is(k, reading.wanted)
      BY <1>2, <1>4, <2>8 DEF Is
    <3>2. \A k \in reading.page : log'[k] = log[k]
      BY <1>2, <2>8
    <3>. QED BY <1>4, <2>1, <2>5, <2>6, <2>8, <3>1, <3>2 DEF OnPage
  <2>12. Found'
    <3>1. \A m \in Asked : log'[m] = log[m] /\ (Is(m, {"cancelled"})' <=> Is(m, {"cancelled"}))
                             /\ (Is(m, {"completed"})' <=> Is(m, {"completed"}))
      BY <1>2, <2>8 DEF Is
    <3>2. \A m \in Asked : Is(m, {"completed"}) =>
             /\ log'[log[m].of] = log[log[m].of]
             /\ Is(log[m].of, {"approved"})' <=> Is(log[m].of, {"approved"})
      <4>1. \A m \in Asked : Is(m, {"completed"}) => log[m].of \in Lines
        <5>1. \A m \in Lines : Is(m, {"completed"}) => ~Is(m, Decided)
          BY DEF Is, Decided
        <5>. QED BY <1>1, <2>8, <5>1 DEF LogFits
      <4>2. \A k \in Lines : log'[k] = log[k] /\ (Is(k, {"approved"})' <=> Is(k, {"approved"}))
        BY <1>2 DEF Is
      <4>. QED BY <3>1, <4>1, <4>2 DEF Is
    <3>3. reading'.found \subseteq Lines'
      BY <1>2, <1>4, <2>1 DEF Found
    <3>. QED BY <1>4, <2>1, <2>7, <3>1, <3>2, <3>3 DEF Found
  <2>. QED BY <2>4, <2>9, <2>10, <2>11, <2>12
<1>. QED BY <1>2, <1>4, <1>5 DEF HistoryInv

LEMMA RecordGrows ==
  ASSUME HistoryInv, NEW at \in Epoch .. clock,
         \/ \E event \in Decided : Decide(event, at)
         \/ \E event \in LineEvents \ Decided, n \in Lines : Follow(event, n, at)
  PROVE  HistoryInv'
<1>1. at \in Nat /\ LogFits
  BY DEF HistoryInv
<1>2. CASE \E event \in Decided : Decide(event, at)
  <2>1. PICK event \in Decided : Land(event, Absent, at)
    BY <1>2 DEF Decide
  <2>2. event \in LineEvents
    BY DEF LineEvents
  <2>. QED BY <1>1, <2>1, <2>2, LandKeeps
<1>3. CASE \E event \in LineEvents \ Decided, n \in Lines : Follow(event, n, at)
  <2>1. PICK event \in LineEvents \ Decided, n \in Lines : MaySay(event, n) /\ Land(event, n, at)
    BY <1>3 DEF Follow
  <2>2. n \in Nat
    BY <1>1, LinesAre
  <2>3. Is(n, AboutOf(event))
    <3>1. CASE event \in Answered
      BY <2>1, <3>1 DEF MaySay, AboutOf, Answered, Is
    <3>2. CASE event = "approved"
      <4>1. PICK m \in Lines : Is(m, {"agreed"}) /\ log[m].of = n
        BY <2>1, <3>2 DEF MaySay, Of, Answered
      <4>2. ~Is(m, Decided) /\ log[m].event = "agreed"
        BY <4>1 DEF Is, Decided
      <4>3. Is(n, AboutOf("agreed"))
        BY <1>1, <4>1, <4>2 DEF LogFits
      <4>. QED BY <3>2, <4>3 DEF AboutOf, Answered
    <3>3. CASE event \in {"completed", "cancelled"}
      BY <2>1, <3>3 DEF MaySay, AboutOf, Answered, IsAuthority, Is
    <3>4. CASE event = "evaluated"
      BY <2>1, <3>4 DEF MaySay, AboutOf, Answered, Is
    <3>. QED BY <3>1, <3>2, <3>3, <3>4 DEF LineEvents
  <2>. QED BY <1>1, <2>1, <2>2, <2>3, LandKeeps
<1>. QED BY <1>2, <1>3

-----------------------------------------------------------------------------
(* A reader opens pages *)

(* What the record has and what the reader was promised stay as they are. *)
LEMMA ReadingOn ==
  ASSUME UNCHANGED <<log, clock>>, reading'.kind = reading.kind,
         reading'.first = reading.first, reading'.wanted = reading.wanted,
         reading'.start = reading.start, reading'.end = reading.end
  PROVE  /\ Lines' = Lines /\ Promised' = Promised
         /\ \A n, events : Is(n, events)' <=> Is(n, events)
         /\ \A n, cursor : Passed(n, cursor)' <=> Passed(n, cursor)
         /\ LogFits => LogFits'
         /\ reading'.asked = reading.asked => Asked' = Asked
<1>1. Lines' = Lines /\ \A n, events : Is(n, events)' <=> Is(n, events)
  BY DEF Lines, Is
<1>2. Promised' = Promised /\ \A n, cursor : Passed(n, cursor)' <=> Passed(n, cursor)
  BY DEF Promised, Passed, Is
<1>3. LogFits => LogFits'
  BY DEF LogFits, Lines, Is
<1>4. reading'.asked = reading.asked => Asked' = Asked
  BY DEF Asked
<1>. QED BY <1>1, <1>2, <1>3, <1>4

LEMMA OpenKeeps ==
  ASSUME HistoryInv, NEW kind, NEW wanted,
         Open(kind, wanted), kind \in HistoryKinds,
         wanted \in HistoryWanted, kind # "page" => wanted = Decided
  PROVE  HistoryInv'
<1>1. /\ UNCHANGED <<log, clock>> /\ reading' = Opened(kind, wanted)
      /\ LogFits /\ clock \in Nat /\ Epoch <= clock /\ Len(log) \in Nat
  BY LinesAre DEF HistoryInv, Open
<1>2. Short(clock, LookBack) = clock - LookBack /\ clock - LookBack \in Nat
      /\ 0 < clock - LookBack /\ clock - LookBack <= clock /\ clock <= (clock - LookBack) + LookBack
  BY <1>1 DEF Short
<1>3. LogFits' /\ Lines' = Lines
  BY <1>1 DEF LogFits, Lines, Is
<1>4. /\ reading'.kind = kind /\ reading'.wanted = wanted /\ reading'.at = "asking"
      /\ reading'.start = clock - LookBack /\ reading'.end = clock
      /\ reading'.before = Absent /\ reading'.next = Absent
      /\ reading'.first = Len(log) /\ reading'.asked = Len(log)
      /\ reading'.page = {} /\ reading'.found = {} /\ reading'.shown = {}
  BY <1>1, <1>2 DEF Opened
<1>5. reading' \in Reading'
  BY <1>1, <1>2 DEF Opened, Reading, ReadStages
<1>6. Ranged'
  BY <1>1, <1>2, <1>4 DEF Ranged
<1>7. Behind'
  BY <1>4 DEF Behind, Passed
<1>8. OnPage' /\ Found'
  BY <1>4 DEF OnPage, Found
<1>. QED BY <1>1, <1>3, <1>5, <1>6, <1>7, <1>8 DEF HistoryInv

LEMMA OpenNextKeeps ==
  ASSUME HistoryInv, OpenNext
  PROVE  HistoryInv'
<1>1. /\ reading # Absent /\ reading.at = "served" /\ reading.next # Absent
      /\ UNCHANGED <<log, clock>>
      /\ LogFits /\ reading \in Reading /\ Ranged /\ Behind /\ OnPage /\ Found
      /\ Len(log) \in Nat
  BY LinesAre DEF HistoryInv, OpenNext
<1>2. reading.kind = "activity" \/ Accepted(reading.next)
  <2>1. reading.next \in Nat
    BY <1>1 DEF Reading
  <2>. QED BY <1>1, <2>1 DEF Ranged, Accepted, Reading
<1>3. reading' = [reading EXCEPT !.at = "asking", !.before = reading.next, !.asked = Len(log),
                    !.shown = @ \cup reading.page, !.page = {}, !.found = {}]
  BY <1>2 DEF OpenNext
<1>4. reading' \in Reading'
  <2>1. reading.shown \cup reading.page \in SUBSET Nat
    BY <1>1 DEF Reading
  <2>. QED BY <1>1, <1>3, <2>1 DEF Reading, ReadStages
<1>5. /\ reading'.kind = reading.kind /\ reading'.first = reading.first
      /\ reading'.wanted = reading.wanted /\ reading'.start = reading.start
      /\ reading'.end = reading.end /\ reading'.before = reading.next
      /\ reading'.next = reading.next /\ reading'.at = "asking" /\ reading'.page = {}
      /\ reading'.found = {} /\ reading'.asked = Len(log)
      /\ reading'.shown = reading.shown \cup reading.page
  BY <1>1, <1>3 DEF Reading
<1>6. /\ Lines' = Lines /\ Promised' = Promised
      /\ \A n, cursor : Passed(n, cursor)' <=> Passed(n, cursor)
      /\ LogFits'
  BY <1>1, <1>5, ReadingOn
<1>7. Ranged'
  BY <1>1, <1>5 DEF Ranged, Reading
<1>8. \A n \in Lines : Passed(n, reading.before) => Passed(n, reading.next)
  <2>1. reading.before # Absent => reading.next <= reading.before
    BY <1>1 DEF OnPage
  <2>2. reading.before \in Nat \cup {Absent} /\ reading.next \in Nat
    BY <1>1 DEF Reading
  <2>3. \A n \in Lines : n \in Nat /\ log[n].at \in Nat
    BY <1>1, LinesAre DEF Line
  <2>. QED BY <1>1, <2>1, <2>2, <2>3 DEF Passed
<1>9. Behind'
  <2>1. \A n \in reading.shown \cup reading.page : n \in Lines /\ Passed(n, reading.next)
    BY <1>1, <1>8 DEF Behind, OnPage, Ranged
  <2>2. \A n \in Promised : Passed(n, reading.next) => n \in reading.shown \cup reading.page
    BY <1>1 DEF Behind, OnPage
  <2>. QED BY <1>5, <1>6, <2>1, <2>2 DEF Behind
<1>10. OnPage' /\ Found'
  BY <1>5 DEF OnPage, Found
<1>. QED BY <1>1, <1>4, <1>6, <1>7, <1>9, <1>10 DEF HistoryInv

(* read and the first query of read_transcript: what the log service answered ends
   where a time does. *)
LEMMA PageTurned ==
  ASSUME HistoryInv, reading # Absent, reading.kind # "activity", reading.at = "asking",
         UNCHANGED <<log, clock>>,
         NEW F \in Fetched({n \in Within(reading.start, Upper) : Is(n, reading.wanted)}, PageSize + 1),
         NEW stage \in {"served", "unpageable", "relating"},
         reading' = [reading EXCEPT !.at = stage, !.page = Page(F), !.next = Cursor(F)],
         stage = "unpageable" => Page(F) = {},
         reading.kind # "page" /\ stage = "served" => Page(F) = {}
  PROVE  HistoryInv'
<1> DEFINE I == {n \in Within(reading.start, Upper) : Is(n, reading.wanted)}
<1>1. LogFits /\ reading \in Reading /\ Ranged /\ Behind /\ OnPage /\ Found
  BY DEF HistoryInv
<1>2. I \in SUBSET Lines
  BY DEF Within
<1>3. /\ Page(F) \in SUBSET I
      /\ Cursor(F) = Absent => Page(F) = I
      /\ Cursor(F) # Absent =>
            /\ Cursor(F) \in Nat
            /\ \E n \in I : Cursor(F) = log[n].at
            /\ \A n \in I : n \in Page(F) <=> log[n].at > Cursor(F)
  BY <1>1, <1>2, PageIs
<1>4. /\ reading.start \in Nat /\ reading.end \in Nat /\ Upper \in Nat /\ Upper <= reading.end
      /\ reading.before # Absent => Upper = reading.before
      /\ reading.before = Absent => Upper = reading.end
  BY <1>1 DEF Ranged, Reading, Upper
<1>5. \A n \in Lines : n \in Nat /\ log[n].at \in Nat
  BY <1>1, LinesAre DEF Line
<1>6. \A n \in I : /\ n \in Lines /\ Is(n, reading.wanted)
                   /\ reading.start <= log[n].at /\ log[n].at <= Upper
  BY <1>4, <1>5 DEF Within
<1>7. \A n \in Lines : Is(n, reading.wanted) /\ reading.start <= log[n].at /\ log[n].at <= Upper => n \in I
  BY <1>4, <1>5 DEF Within
<1> HIDE DEF I
<1>8. /\ reading'.kind = reading.kind /\ reading'.first = reading.first
      /\ reading'.wanted = reading.wanted /\ reading'.start = reading.start
      /\ reading'.end = reading.end /\ reading'.before = reading.before
      /\ reading'.next = Cursor(F) /\ reading'.at = stage /\ reading'.page = Page(F)
      /\ reading'.found = reading.found /\ reading'.asked = reading.asked
      /\ reading'.shown = reading.shown
  BY <1>1 DEF Reading
<1>9. /\ Lines' = Lines /\ Promised' = Promised
      /\ \A n, events : Is(n, events)' <=> Is(n, events)
      /\ \A n, cursor : Passed(n, cursor)' <=> Passed(n, cursor)
      /\ LogFits'
  BY <1>1, <1>8, ReadingOn
<1>10. reading' \in Reading'
  <2>1. Page(F) \in SUBSET Nat /\ Cursor(F) \in Nat \cup {Absent} /\ stage \in ReadStages
    BY <1>3, <1>5, <1>6 DEF ReadStages
  <2>. QED BY <1>1, <2>1 DEF Reading
<1>11. Ranged'
  <2>1. Cursor(F) # Absent => reading.start <= Cursor(F) /\ Cursor(F) <= reading.end
    BY <1>3, <1>4, <1>5, <1>6
  <2>2. Page(F) \subseteq Lines
    BY <1>3, <1>6
  <2>. QED BY <1>1, <1>8, <1>9, <2>1, <2>2 DEF Ranged
<1>12. Behind'
  BY <1>1, <1>8, <1>9 DEF Behind
<1>13. OnPage'
  <2>1. CASE stage = "unpageable"
    BY <1>8, <2>1 DEF OnPage
  <2>2. CASE stage # "unpageable"
    <3>1. Cursor(F) # Absent /\ reading.before # Absent => Cursor(F) <= reading.before
      BY <1>3, <1>4, <1>5, <1>6
    <3>2. \A n \in Page(F) : /\ Is(n, reading.wanted) /\ reading.start <= log[n].at
                             /\ n \in I
      BY <1>3, <1>6
    <3>3. \A n \in I : ~Passed(n, reading.before)
      BY <1>4, <1>5, <1>6 DEF Passed
    <3>4. \A n \in Page(F) : Cursor(F) # Absent => Passed(n, Cursor(F))
      BY <1>3, <3>2 DEF Passed
    <3>5. ASSUME NEW n \in Promised \ Page(F)
          PROVE  Passed(n, reading.before) \/ (Cursor(F) # Absent /\ ~Passed(n, Cursor(F)))
      <4>1. /\ n \in Lines /\ Is(n, reading.wanted)
            /\ reading.start <= log[n].at /\ log[n].at <= reading.end
        <5>1. reading.first \in Nat /\ reading.asked \in Nat /\ reading.first <= Len(log)
          BY <1>1, LinesAre DEF Ranged, Reading
        <5>. QED BY <1>1, <1>4, <1>5, <5>1, LinesAre DEF Promised
      <4>2. CASE n \in I
        BY <1>3, <3>5, <4>2 DEF Passed
      <4>3. CASE n \notin I
        <5>1. ~(log[n].at <= Upper)
          BY <1>7, <4>1, <4>3
        <5>. QED BY <1>4, <1>5, <4>1, <5>1 DEF Passed
      <4>. QED BY <4>2, <4>3
    <3>6. stage \notin {"asking", "unpageable"}
      BY <2>2
    <3>7. /\ reading'.next # Absent /\ reading'.before # Absent => reading'.next <= reading'.before
          /\ \A n \in reading'.page :
               /\ Is(n, reading.wanted)
               /\ ~Passed(n, reading.before)
               /\ reading'.next # Absent => Passed(n, Cursor(F))
               /\ reading.kind # "activity" => reading.start <= log[n].at
      BY <1>8, <3>1, <3>2, <3>3, <3>4
    <3>. QED BY <1>8, <1>9, <3>5, <3>6, <3>7 DEF OnPage
  <2>. QED BY <2>1, <2>2
<1>14. Found'
  <2>1. reading'.found \subseteq Lines'
    BY <1>1, <1>8, <1>9 DEF Found
  <2>2. CASE reading.kind = "page" \/ stage # "served"
    BY <1>8, <2>1, <2>2 DEF Found
  <2>3. CASE reading.kind # "page" /\ stage = "served"
    BY <1>8, <2>1, <2>3 DEF Found
  <2>. QED BY <2>2, <2>3
<1>. QED BY <1>1, <1>9, <1>10, <1>11, <1>12, <1>13, <1>14 DEF HistoryInv

LEMMA LargerOfTwo ==
  ASSUME NEW a \in Nat, NEW b \in Nat, b <= a
  PROVE  Max({a, b}) = a
<1>1. a \in {a, b} /\ \A y \in {a, b} : a >= y
  OBVIOUS
<1>2. \A x \in {a, b} : (\A y \in {a, b} : x >= y) => x = a
  OBVIOUS
<1>. QED BY <1>1, <1>2 DEF Max

LEMMA ReadPageKeeps ==
  ASSUME HistoryInv, ReadPage
  PROVE  HistoryInv'
<1>1. /\ reading # Absent /\ reading.kind = "page" /\ reading.at = "asking"
      /\ UNCHANGED <<log, clock>> /\ Ranged /\ reading \in Reading
  BY DEF ReadPage, At, HistoryInv
<1>2. Start(reading.start, Upper) = reading.start
  <2>1. /\ reading.start \in Nat /\ reading.end \in Nat /\ Upper \in Nat /\ Upper <= reading.end
        /\ reading.end <= reading.start + LookBack
    BY <1>1 DEF Ranged, Reading, Upper
  <2>2. Short(Upper, LookBack) \in Nat /\ Short(Upper, LookBack) <= reading.start
    BY <2>1 DEF Short
  <2>. QED BY <2>1, <2>2, LargerOfTwo DEF Start
<1>3. PICK F \in Fetched({n \in Within(reading.start, Upper) : Is(n, reading.wanted)}, PageSize + 1) :
        reading' = [reading EXCEPT !.at = IF F # {} /\ Page(F) = {} THEN "unpageable" ELSE "served",
                                   !.page = Page(F), !.next = Cursor(F)]
  BY <1>2 DEF ReadPage
<1>. QED BY <1>1, <1>3, PageTurned

LEMMA ReadDecisionsKeeps ==
  ASSUME HistoryInv, ReadDecisions
  PROVE  HistoryInv'
<1>1. /\ reading # Absent /\ reading.kind = "transcript" /\ reading.at = "asking"
      /\ UNCHANGED <<log, clock>> /\ reading.wanted = Decided
  BY DEF ReadDecisions, At, HistoryInv, Ranged
<1>2. PICK F \in Fetched({n \in Within(reading.start, Upper) : Is(n, reading.wanted)}, PageSize + 1) :
        reading' = [reading EXCEPT
            !.at = IF F = {} THEN "served" ELSE IF Page(F) = {} THEN "unpageable" ELSE "relating",
            !.page = Page(F), !.next = Cursor(F)]
  BY <1>1 DEF ReadDecisions
<1> DEFINE stage == IF F = {} THEN "served" ELSE IF Page(F) = {} THEN "unpageable" ELSE "relating"
<1>3. F = {} => Page(F) = {}
  BY DEF Page
<1>4. /\ stage \in {"served", "unpageable", "relating"}
      /\ stage = "unpageable" => Page(F) = {}
      /\ stage = "served" => Page(F) = {}
      /\ reading' = [reading EXCEPT !.at = stage, !.page = Page(F), !.next = Cursor(F)]
  BY <1>2, <1>3
<1> HIDE DEF stage
<1>. QED BY <1>1, <1>4, PageTurned

(* Only what is found about a page changes. *)
LEMMA Relates ==
  ASSUME HistoryInv, reading # Absent, reading.kind = "transcript",
         reading.at \in {"relating", "completing"},
         UNCHANGED <<log, clock>>,
         NEW found \in SUBSET Lines, NEW stage \in {"malformed", "completing", "served"},
         reading' = [reading EXCEPT !.at = stage, !.found = found],
         stage \in {"completing", "served"} =>
            \A m \in Asked : log[m].of \in reading.page /\ ~Is(m, {"cancelled"}) => m \in found,
         stage = "served" =>
            \A m \in Asked : Is(m, {"completed"}) /\ Is(log[m].of, {"approved"})
                                /\ log[log[m].of].of \in reading.page => m \in found
  PROVE  HistoryInv'
<1>1. LogFits /\ reading \in Reading /\ Ranged /\ Behind /\ OnPage /\ Found
  BY DEF HistoryInv
<1>2. /\ reading'.kind = reading.kind /\ reading'.first = reading.first
      /\ reading'.wanted = reading.wanted /\ reading'.start = reading.start
      /\ reading'.end = reading.end /\ reading'.before = reading.before
      /\ reading'.next = reading.next /\ reading'.at = stage /\ reading'.page = reading.page
      /\ reading'.found = found /\ reading'.asked = reading.asked
      /\ reading'.shown = reading.shown
  BY <1>1 DEF Reading
<1>3. /\ Lines' = Lines /\ Promised' = Promised
      /\ \A n, events : Is(n, events)' <=> Is(n, events)
      /\ \A n, cursor : Passed(n, cursor)' <=> Passed(n, cursor)
      /\ LogFits' /\ Asked' = Asked
  BY <1>1, <1>2, ReadingOn
<1>4. reading' \in Reading'
  <2>1. found \in SUBSET Nat /\ stage \in ReadStages
    BY <1>1, LinesAre DEF ReadStages
  <2>. QED BY <1>1, <2>1 DEF Reading
<1>5. Ranged'
  BY <1>1, <1>2, <1>3 DEF Ranged
<1>6. Behind'
  BY <1>1, <1>2, <1>3 DEF Behind
<1>7. OnPage'
  BY <1>1, <1>2, <1>3 DEF OnPage
<1>8. Found'
  BY <1>1, <1>2, <1>3 DEF Found, Is
<1>. QED BY <1>1, <1>3, <1>4, <1>5, <1>6, <1>7, <1>8 DEF HistoryInv

LEMMA ReadRelationsKeeps ==
  ASSUME HistoryInv, ReadRelations
  PROVE  HistoryInv'
<1>1. /\ reading # Absent /\ reading.kind = "transcript" /\ reading.at = "relating"
      /\ UNCHANGED <<log, clock>>
      /\ LogFits /\ reading \in Reading /\ Ranged /\ OnPage
  BY DEF ReadRelations, At, HistoryInv
<1> DEFINE I == Of(LineEvents, reading.page) \cap Within(reading.start, reading.end)
<1>2. PICK F \in Fetched(I, RelatedMax + 1) :
        reading' = [reading EXCEPT
            !.at = IF Cardinality(F) > RelatedMax THEN "malformed"
                   ELSE IF Approved(F, reading.page) = {} THEN "served" ELSE "completing",
            !.found = F]
  BY DEF ReadRelations
<1>3. I \in SUBSET Lines /\ RelatedMax \in Nat
  <2>1. I \in SUBSET Lines
    BY DEF Of
  <2>2. Cardinality(reading.page) \in Nat
    BY <1>1, LinesAre DEF Ranged
  <2>. QED BY <2>1, <2>2 DEF RelatedMax
<1> HIDE DEF I
<1>4. F \in SUBSET I /\ Cardinality(F) \in Nat /\ (Cardinality(F) < RelatedMax + 1 => F = I)
  BY <1>1, <1>3, FetchedIs
<1>5. \A n \in Lines : n \in Nat /\ log[n] \in Line
  BY <1>1, LinesAre
<1>6. Asked \subseteq Lines /\ \A m \in Asked : log[m].at <= reading.end
  <2>1. reading.asked \in Nat /\ reading.asked <= Len(log) /\ Lines = 1 .. Len(log)
        /\ Len(log) \in Nat
    BY <1>1, LinesAre DEF Ranged, Reading
  <2>. QED BY <1>1, <2>1 DEF Asked
<1>7. \A m \in Lines : log[m].of \in Nat => log[m].of \in Lines /\ log[m].of < m
  BY <1>1 DEF LogFits
<1>8. \A m \in Lines : log[m].of \in Lines => log[log[m].of].at <= log[m].at
  <2>1. \A k, m \in Lines : k <= m => log[k].at <= log[m].at
    BY <1>1 DEF LogFits
  <2>. QED BY <1>5, <1>7, <2>1
<1>9. \A m \in Asked : log[m].of \in reading.page => m \in I
  <2>1. SUFFICES ASSUME NEW m \in Asked, log[m].of \in reading.page PROVE m \in I
    OBVIOUS
  <2>2. m \in Lines /\ log[m].of \in Lines /\ reading.page \subseteq Lines
    BY <1>1, <1>6, <2>1 DEF Ranged
  <2>3. reading.start <= log[log[m].of].at
    BY <1>1, <2>1 DEF OnPage
  <2>4. log[log[m].of].at <= log[m].at /\ log[m].at <= reading.end
    BY <1>6, <1>8, <2>2
  <2>5. log[m].at \in Nat /\ log[log[m].of].at \in Nat /\ reading.start \in Nat /\ reading.end \in Nat
    BY <1>1, <1>5, <2>2 DEF Line, Reading
  <2>6. log[m].at \in reading.start .. reading.end
    BY <2>3, <2>4, <2>5
  <2>7. Is(m, LineEvents)
    BY <1>5, <2>2 DEF Line, Is
  <2>. QED BY <2>1, <2>2, <2>6, <2>7 DEF I, Of, Within
<1>10. ASSUME NEW m \in Asked, Is(m, {"completed"}), Is(log[m].of, {"approved"}),
              log[log[m].of].of \in reading.page
       PROVE  log[m].of \in Approved(I, reading.page)
  <2>1. m \in Lines /\ ~Is(m, Decided)
    BY <1>6, <1>10 DEF Is, Decided
  <2>2. log[m].of \in Lines /\ log[m].of < m
    BY <1>1, <2>1 DEF LogFits
  <2>3. log[m].of \in Asked
    <3>1. reading.asked \in Nat /\ m \in 1 .. reading.asked /\ log[m].of \in Nat
          /\ Lines = 1 .. Len(log)
      BY <1>1, <1>5, <2>2, LinesAre DEF Asked, Reading
    <3>2. log[m].of \in 1 .. reading.asked
      BY <2>2, <3>1
    <3>3. log[log[m].of].at <= log[m].at /\ log[m].at <= reading.end
      BY <1>6, <1>8, <2>1, <2>2
    <3>4. log[log[m].of].at <= reading.end
      BY <1>1, <1>5, <2>1, <2>2, <3>3 DEF Line, Reading
    <3>. QED BY <3>2, <3>4 DEF Asked
  <2>4. log[m].of \in I
    BY <1>9, <1>10, <2>3
  <2>. QED BY <1>10, <2>4 DEF Approved
<1> DEFINE stage == IF Cardinality(F) > RelatedMax THEN "malformed"
                    ELSE IF Approved(F, reading.page) = {} THEN "served" ELSE "completing"
<1>11. stage # "malformed" => F = I
  BY <1>3, <1>4
<1>12. stage = "served" => Approved(F, reading.page) = {}
  OBVIOUS
<1>13. stage \in {"malformed", "completing", "served"} /\ F \in SUBSET Lines
       /\ reading' = [reading EXCEPT !.at = stage, !.found = F]
  BY <1>2, <1>3, <1>4, Zenon
<1>14. stage \in {"completing", "served"} => \A m \in Asked :
          log[m].of \in reading.page /\ ~Is(m, {"cancelled"}) => m \in F
  BY <1>9, <1>11
<1>15. stage = "served" => \A m \in Asked :
          Is(m, {"completed"}) /\ Is(log[m].of, {"approved"})
              /\ log[log[m].of].of \in reading.page => m \in F
  BY <1>10, <1>11, <1>12
<1> HIDE DEF stage
<1>. QED BY <1>1, <1>13, <1>14, <1>15, Relates

LEMMA ReadCompletionsKeeps ==
  ASSUME HistoryInv, ReadCompletions
  PROVE  HistoryInv'
<1>1. /\ reading # Absent /\ reading.kind = "transcript" /\ reading.at = "completing"
      /\ UNCHANGED <<log, clock>>
      /\ LogFits /\ reading \in Reading /\ Ranged /\ OnPage /\ Found
  BY DEF ReadCompletions, At, HistoryInv
<1> DEFINE approvals == Approved(reading.found, reading.page)
           most == Cardinality(approvals)
           I == Of({"completed"}, approvals) \cap Within(reading.start, reading.end)
<1>2. PICK F \in Fetched(I, most + 1) :
        reading' = [reading EXCEPT
            !.at = IF Cardinality(F) > most THEN "malformed" ELSE "served",
            !.found = @ \cup F]
  BY DEF ReadCompletions
<1>3. reading.found \subseteq Lines /\ approvals \in SUBSET Lines
  BY <1>1 DEF Found, Approved
<1>4. I \in SUBSET Lines /\ most \in Nat
  <2>1. I \in SUBSET Lines
    BY DEF Of
  <2>2. most \in Nat
    BY <1>1, <1>3, LinesAre
  <2>. QED BY <2>1, <2>2
<1> HIDE DEF I, approvals, most
<1>5. F \in SUBSET I /\ Cardinality(F) \in Nat /\ (Cardinality(F) < most + 1 => F = I)
  BY <1>1, <1>4, FetchedIs
<1>6. \A n \in Lines : n \in Nat /\ log[n] \in Line
  BY <1>1, LinesAre
<1>7. ASSUME NEW m \in Asked, Is(m, {"completed"}), Is(log[m].of, {"approved"}),
             log[log[m].of].of \in reading.page
      PROVE  m \in I
  <2>1. reading.asked \in Nat /\ reading.asked <= Len(log) /\ Lines = 1 .. Len(log)
        /\ Len(log) \in Nat /\ m \in 1 .. reading.asked /\ log[m].at <= reading.end
    BY <1>1, LinesAre DEF Ranged, Reading, Asked
  <2>2. m \in Lines /\ ~Is(m, Decided)
    BY <1>7, <2>1 DEF Is, Decided
  <2>3. log[m].of \in Lines /\ log[m].of < m
    BY <1>1, <2>2 DEF LogFits
  <2>4. ~Is(log[m].of, Decided) /\ ~Is(log[m].of, {"cancelled"})
    BY <1>7 DEF Is, Decided
  <2>5. log[log[m].of].of \in Lines /\ log[log[m].of].of < log[m].of
    BY <1>1, <2>3, <2>4 DEF LogFits
  <2>6. \A j, k \in Lines : j <= k => log[j].at <= log[k].at
    BY <1>1 DEF LogFits
  <2>7. log[log[m].of].at <= log[m].at /\ log[log[log[m].of].of].at <= log[log[m].of].at
    BY <1>6, <2>2, <2>3, <2>5, <2>6
  <2>8. /\ log[m].at \in Nat /\ log[log[m].of].at \in Nat /\ log[log[log[m].of].of].at \in Nat
        /\ reading.start \in Nat /\ reading.end \in Nat
        /\ reading.start <= log[log[log[m].of].of].at
    BY <1>1, <1>6, <1>7, <2>2, <2>3, <2>5 DEF OnPage, Line, Reading
  <2>9. log[m].of \in Asked
    <3>1. log[m].of \in 1 .. reading.asked
      BY <2>1, <2>3
    <3>2. log[log[m].of].at <= reading.end
      BY <2>1, <2>7, <2>8
    <3>. QED BY <3>1, <3>2 DEF Asked
  <2>10. log[m].of \in approvals
    BY <1>1, <1>7, <2>4, <2>9 DEF Found, approvals, Approved
  <2>11. log[m].at \in reading.start .. reading.end
    BY <2>1, <2>7, <2>8
  <2>. QED BY <1>7, <2>2, <2>10, <2>11 DEF I, Of, Within
<1> DEFINE stage == IF Cardinality(F) > most THEN "malformed" ELSE "served"
           found == reading.found \cup F
<1>8. stage \in {"malformed", "completing", "served"} /\ found \in SUBSET Lines
      /\ reading' = [reading EXCEPT !.at = stage, !.found = found]
  BY <1>1, <1>2, <1>3, <1>4, <1>5 DEF Reading
<1>9. stage = "served" => F = I
  BY <1>4, <1>5
<1>10. stage \in {"completing", "served"} => \A m \in Asked :
          log[m].of \in reading.page /\ ~Is(m, {"cancelled"}) => m \in found
  BY <1>1 DEF Found
<1>11. stage = "served" => \A m \in Asked :
          Is(m, {"completed"}) /\ Is(log[m].of, {"approved"})
              /\ log[log[m].of].of \in reading.page => m \in found
  BY <1>7, <1>9
<1> HIDE DEF stage, found
<1>. QED BY <1>1, <1>8, <1>10, <1>11, Relates

(* session_activity *)
LEMMA ReadActivityKeeps ==
  ASSUME HistoryInv, ReadActivity
  PROVE  HistoryInv'
<1> DEFINE I == {n \in Lines : Is(n, Decided) /\ (reading.before = Absent \/ n < reading.before)}
           page == Newest(I, PageSize)
           next == IF page = I THEN Absent ELSE Min(page)
           found == Of(Answered \cup {"approved", "evaluated"}, page)
                        \cup Of({"completed"}, page \cup Approved(Lines, page))
<1>1. /\ reading # Absent /\ reading.kind = "activity" /\ reading.at = "asking"
      /\ UNCHANGED <<log, clock>>
      /\ reading' = [reading EXCEPT !.at = "served", !.page = page, !.next = next, !.found = found]
      /\ LogFits /\ reading \in Reading /\ Ranged /\ Behind /\ OnPage /\ Found
      /\ reading.wanted = Decided
  BY DEF ReadActivity, At, HistoryInv, Ranged
<1>2. \A n \in Lines : n \in Nat /\ log[n] \in Line
  BY <1>1, LinesAre
<1>3. I \in SUBSET Lines /\ page \in SUBSET I
  BY <1>1 DEF Newest
<1>4. page # I => /\ next = Min(page) /\ next \in page /\ \A n \in page : next <= n
                  /\ \A n \in page, m \in I : m >= n => m \in page
  <2>1. SUFFICES ASSUME page # I PROVE /\ next \in page /\ \A n \in page : next <= n
                  /\ \A n \in page, m \in I : m >= n => m \in page
    OBVIOUS
  <2>2. page # {} /\ \A n \in page, m \in I : m >= n => m \in page
    BY <1>1, <1>3, <2>1, NewestIs
  <2>3. page \in SUBSET Nat
    BY <1>2, <1>3
  <2>4. Min(page) \in page /\ \A n \in page : Min(page) <= n
    BY <2>2, <2>3, LeastIsThere
  <2>. QED BY <2>1, <2>2, <2>4
<1>5. page = I => next = Absent
  OBVIOUS
<1>6. \A n \in I : n \in Lines /\ Is(n, Decided) /\ (reading.before = Absent \/ n < reading.before)
  OBVIOUS
<1>7. \A n \in Lines \ I : Is(n, Decided) => reading.before # Absent /\ ~(n < reading.before)
  OBVIOUS
<1>8. found \subseteq Lines
  BY DEF Of
<1>9. /\ \A m \in Lines : log[m].of \in page /\ ~Is(m, {"cancelled"}) => m \in found
      /\ \A m \in Lines : Is(m, {"completed"}) /\ Is(log[m].of, {"approved"})
                              /\ log[log[m].of].of \in page => m \in found
  <2>1. ASSUME NEW m \in Lines, log[m].of \in page, ~Is(m, {"cancelled"}) PROVE m \in found
    <3>1. log[m].of # Absent
      BY <1>2, <1>3, <2>1
    <3>2. ~Is(m, Decided)
      BY <1>1, <3>1 DEF LogFits
    <3>3. log[m].event \in Answered \cup {"approved", "evaluated", "completed"}
      BY <1>2, <2>1, <3>2 DEF Is, Line, LineEvents
    <3>. QED BY <2>1, <3>3 DEF Of, Is
  <2>2. ASSUME NEW m \in Lines, Is(m, {"completed"}), Is(log[m].of, {"approved"}),
               log[log[m].of].of \in page
        PROVE  m \in found
    <3>1. ~Is(m, Decided)
      BY <2>2 DEF Is, Decided
    <3>2. log[m].of \in Lines
      BY <1>1, <3>1 DEF LogFits
    <3>3. log[m].of \in Approved(Lines, page)
      BY <2>2, <3>2 DEF Approved
    <3>. QED BY <2>2, <3>3 DEF Of
  <2>. QED BY <2>1, <2>2
<1> HIDE DEF I, page, next, found
<1>10. /\ reading'.kind = reading.kind /\ reading'.first = reading.first
       /\ reading'.wanted = reading.wanted /\ reading'.start = reading.start
       /\ reading'.end = reading.end /\ reading'.before = reading.before
       /\ reading'.next = next /\ reading'.at = "served" /\ reading'.page = page
       /\ reading'.found = found /\ reading'.asked = reading.asked
       /\ reading'.shown = reading.shown
  BY <1>1 DEF Reading
<1>11. /\ Lines' = Lines /\ Promised' = Promised
       /\ \A n, events : Is(n, events)' <=> Is(n, events)
       /\ \A n, cursor : Passed(n, cursor)' <=> Passed(n, cursor)
       /\ LogFits' /\ Asked' = Asked
  BY <1>1, <1>10, ReadingOn
<1>12. page \subseteq Lines /\ next \in Nat \cup {Absent}
  BY <1>2, <1>3, <1>4, <1>5, <1>6
<1>13. reading' \in Reading'
  <2>1. page \in SUBSET Nat /\ found \in SUBSET Nat
    BY <1>2, <1>8, <1>12
  <2>. QED BY <1>1, <1>12, <2>1 DEF Reading, ReadStages
<1>14. Ranged'
  BY <1>1, <1>10, <1>11, <1>12 DEF Ranged
<1>15. Behind'
  BY <1>1, <1>10, <1>11 DEF Behind
<1>16. OnPage'
  <2>0. reading.before \in Nat \cup {Absent}
    BY <1>1 DEF Reading
  <2>1. next # Absent /\ reading.before # Absent => next <= reading.before
    <3>1. next # Absent => next \in I
      BY <1>3, <1>4, <1>5
    <3>. QED BY <1>2, <1>6, <2>0, <3>1
  <2>2. ASSUME NEW n \in page
        PROVE  /\ Is(n, reading.wanted) /\ ~Passed(n, reading.before)
               /\ next # Absent => Passed(n, next)
    <3>1. n \in I /\ n \in Nat
      BY <1>2, <1>3, <1>6
    <3>2. ~Passed(n, reading.before)
      BY <1>1, <1>6, <2>0, <3>1 DEF Passed
    <3>3. next # Absent => Passed(n, next)
      BY <1>1, <1>2, <1>4, <1>5, <1>12, <3>1 DEF Passed
    <3>. QED BY <1>1, <1>6, <3>1, <3>2, <3>3
  <2>3. ASSUME NEW n \in Promised \ page
        PROVE  Passed(n, reading.before) \/ (next # Absent /\ ~Passed(n, next))
    <3>1. n \in Lines /\ Is(n, Decided) /\ n \in Nat
      <4>1. reading.first \in Nat /\ reading.asked \in Nat /\ reading.first <= Len(log)
        BY <1>1, LinesAre DEF Ranged, Reading
      <4>. QED BY <1>1, <1>2, <4>1, LinesAre DEF Promised
    <3>2. CASE n \in I
      <4>1. page # I
        BY <2>3, <3>2
      <4>2. ~(n >= next) /\ next # Absent
        BY <1>2, <1>4, <1>12, <2>3, <3>2, <4>1
      <4>. QED BY <1>1, <4>2 DEF Passed
    <3>3. CASE n \notin I
      <4>1. reading.before # Absent /\ ~(n < reading.before)
        BY <1>7, <3>1, <3>3
      <4>. QED BY <1>1, <2>0, <3>1, <4>1 DEF Passed
    <3>. QED BY <3>2, <3>3
  <2>. QED BY <1>1, <1>10, <1>11, <2>1, <2>2, <2>3 DEF OnPage
<1>17. Found'
  <2>1. Asked \subseteq Lines
    BY <1>1, LinesAre DEF Asked, Ranged, Reading
  <2>2. \A m \in Asked : log[m].of \in page /\ ~Is(m, {"cancelled"}) => m \in found
    BY <1>9, <2>1
  <2>3. \A m \in Asked : Is(m, {"completed"}) /\ Is(log[m].of, {"approved"})
                              /\ log[log[m].of].of \in page => m \in found
    BY <1>9, <2>1
  <2>. QED BY <1>1, <1>8, <1>10, <1>11, <2>2, <2>3 DEF Found, Is
<1>. QED BY <1>1, <1>11, <1>13, <1>14, <1>15, <1>16, <1>17 DEF HistoryInv

LEMMA UnavailableKeeps ==
  ASSUME HistoryInv, Unavailable
  PROVE  HistoryInv'
<1>1. /\ reading # Absent /\ reading.kind = "transcript"
      /\ UNCHANGED <<log, clock>>
      /\ reading' = [reading EXCEPT !.at = "asking", !.page = {}, !.found = {}, !.next = Absent]
      /\ LogFits /\ reading \in Reading /\ Ranged /\ Behind
  BY DEF Unavailable, HistoryInv
<1>2. /\ reading'.kind = reading.kind /\ reading'.first = reading.first
      /\ reading'.wanted = reading.wanted /\ reading'.start = reading.start
      /\ reading'.end = reading.end /\ reading'.before = reading.before
      /\ reading'.next = Absent /\ reading'.at = "asking" /\ reading'.page = {}
      /\ reading'.found = {} /\ reading'.asked = reading.asked
      /\ reading'.shown = reading.shown
  BY <1>1 DEF Reading
<1>3. /\ Lines' = Lines /\ Promised' = Promised
      /\ \A n, cursor : Passed(n, cursor)' <=> Passed(n, cursor)
      /\ LogFits'
  BY <1>1, <1>2, ReadingOn
<1>4. reading' \in Reading'
  BY <1>1 DEF Reading, ReadStages
<1>5. Ranged'
  BY <1>1, <1>2, <1>3 DEF Ranged
<1>6. Behind'
  BY <1>1, <1>2, <1>3 DEF Behind
<1>7. OnPage' /\ Found'
  BY <1>2 DEF OnPage, Found
<1>. QED BY <1>1, <1>3, <1>4, <1>5, <1>6, <1>7 DEF HistoryInv

(* The invariant of reading the record back (audit_history.rs, session_activity of
   audit.rs): what was shown is the promised lines before the cursor, the page those
   between it and the next, and what was found about it is all that had been recorded
   when it was asked for. *)
THEOREM HistoryInvariant == HistorySpec => []HistoryInv
<1>1. HistoryInit => HistoryInv
  <2>. SUFFICES ASSUME HistoryInit PROVE HistoryInv
    OBVIOUS
  <2>1. log = <<>> /\ clock = Epoch /\ reading = Absent
    BY DEF HistoryInit
  <2>2. LogFits
    <3>1. <<>> \in Seq(Line) /\ DOMAIN <<>> = {}
      OBVIOUS
    <3>. QED BY <2>1, <3>1 DEF LogFits, Lines
  <2>. QED BY <2>1, <2>2 DEF HistoryInv
<1>2. HistoryInv /\ [HistoryNext]_historyVars => HistoryInv'
  <2>. SUFFICES ASSUME HistoryInv, [HistoryNext]_historyVars PROVE HistoryInv'
    OBVIOUS
  <2>1. ASSUME UNCHANGED log, UNCHANGED reading, clock' \in Nat, Epoch <= clock'
        PROVE  HistoryInv'
    <3>1. HistoryInv
      OBVIOUS
    <3>2. LogFits' /\ clock' \in Nat /\ Epoch <= clock'
      BY <2>1 DEF HistoryInv, LogFits, Lines, Is
    <3>3. reading # Absent => (reading \in Reading /\ Ranged /\ Behind /\ OnPage /\ Found)'
      BY <2>1 DEF HistoryInv, Reading, Ranged, Behind, OnPage, Found, Lines, Is, Asked, Promised, Passed
    <3>. QED BY <2>1, <3>2, <3>3 DEF HistoryInv
  <2>2. CASE UNCHANGED historyVars
    BY <2>1, <2>2 DEF historyVars, HistoryInv
  <2>3. CASE ClockTicks
    BY <2>1, <2>3 DEF ClockTicks, HistoryInv
  <2>4. CASE Leave
    BY <2>4 DEF Leave, HistoryInv, LogFits, Lines, Is
  <2>5. CASE \E at \in Epoch .. clock :
               \/ \E event \in Decided : Decide(event, at)
               \/ \E event \in LineEvents \ Decided, n \in Lines : Follow(event, n, at)
    BY <2>5, RecordGrows
  <2>6. CASE \E wanted \in {LineEvents, {"evaluated"}} : Open("page", wanted)
    BY <2>6, OpenKeeps DEF HistoryKinds, HistoryWanted
  <2>7. CASE Open("transcript", Decided) \/ Open("activity", Decided)
    BY <2>7, OpenKeeps DEF HistoryKinds, HistoryWanted
  <2>8. CASE OpenNext
    BY <2>8, OpenNextKeeps
  <2>9. CASE ReadPage \/ ReadDecisions \/ ReadRelations
    BY <2>9, ReadPageKeeps, ReadDecisionsKeeps, ReadRelationsKeeps
  <2>10. CASE ReadCompletions \/ ReadActivity \/ Unavailable
    BY <2>10, ReadCompletionsKeeps, ReadActivityKeeps, UnavailableKeeps
  <2>. QED BY <2>2, <2>3, <2>4, <2>5, <2>6, <2>7, <2>8, <2>9, <2>10 DEF HistoryNext
<1>. QED BY <1>1, <1>2, PTL DEF HistorySpec

LEMMA PagesAreWhole ==
  ASSUME HistoryInv
  PROVE  EveryLineOnce
<1>. SUFFICES ASSUME reading # Absent
     PROVE  /\ reading.at # "rejected" /\ reading.page \cap reading.shown = {}
            /\ Served /\ reading.next = Absent => Promised \subseteq reading.shown \cup reading.page
  BY DEF EveryLineOnce, Served
<1>1. Behind /\ OnPage /\ Ranged
  BY DEF HistoryInv
<1>2. reading.page \cap reading.shown = {}
  <2>1. \A n \in reading.shown : Passed(n, reading.before)
    BY <1>1 DEF Behind
  <2>2. \A n \in reading.page : ~Passed(n, reading.before)
    BY <1>1 DEF OnPage
  <2>. QED BY <2>1, <2>2
<1>3. Served /\ reading.next = Absent => Promised \subseteq reading.shown \cup reading.page
  BY <1>1 DEF Behind, OnPage, Served
<1>. QED BY <1>1, <1>2, <1>3 DEF Behind

(* collision_safe_page of audit_history.rs and session_activity: whoever follows the
   links sees every line there was once, however lines share their times and whatever
   is written meanwhile, and every link is one the dashboard accepts. *)
THEOREM LinesAreShownOnce == HistorySpec => []EveryLineOnce
<1>. QED BY HistoryInvariant, PagesAreWhole, PTL

LEMMA JourneysAreWhole ==
  ASSUME HistoryInv
  PROVE  JourneysTold
<1>. SUFFICES ASSUME Served, reading.kind # "page", NEW n \in reading.page
     PROVE  LET Recorded(events) ==
                    {m \in 1 .. reading.asked :
                        /\ Is(m, events) /\ Decision(m) = n
                        /\ reading.kind = "activity" \/ log[m].at <= reading.end}
                said == Journey(n)
            IN /\ Recorded(Answered) \subseteq said.answer
               /\ Recorded({"approved"}) \subseteq said.approval
               /\ Recorded({"completed"}) \subseteq said.completion
               /\ Recorded({"evaluated"}) \subseteq said.evaluation
               /\ \A m \in said.answer \cup said.completion \cup said.evaluation : Decision(m) = n
  BY DEF JourneysTold
<1> DEFINE Recorded(events) ==
             {m \in 1 .. reading.asked :
                 /\ Is(m, events) /\ Decision(m) = n
                 /\ reading.kind = "activity" \/ log[m].at <= reading.end}
           about(events, of) == {m \in reading.found : Is(m, events) /\ log[m].of \in of}
           authorizations == about({"approved"}, {n}) \cup (IF Is(n, {"permitted"}) THEN {n} ELSE {})
<1>1. /\ Journey(n).answer = about(Answered, {n})
      /\ Journey(n).approval = about({"approved"}, {n})
      /\ Journey(n).completion = about({"completed"}, authorizations)
      /\ Journey(n).evaluation = about({"evaluated"}, {n})
  BY DEF Journey
<1>2. reading # Absent /\ reading.at = "served" /\ LogFits /\ Ranged /\ OnPage /\ Found
      /\ reading \in Reading /\ reading.wanted = Decided
  BY DEF Served, HistoryInv, Ranged
<1>3. /\ n \in Lines /\ Is(n, Decided)
      /\ \A k \in Lines : k \in Nat /\ log[k] \in Line
      /\ Asked \subseteq Lines /\ reading.found \subseteq Lines
  <2>1. n \in Lines /\ Is(n, Decided)
    BY <1>2 DEF Ranged, OnPage
  <2>. QED BY <1>2, <2>1, LinesAre DEF Ranged, Reading, Asked, Found
<1>4. \A events : Recorded(events) = {m \in Asked : Is(m, events) /\ Decision(m) = n}
  BY DEF Asked
<1>5. \A k \in Lines : ~Is(k, Decided) =>
         log[k].of \in Lines /\ Is(log[k].of, AboutOf(log[k].event))
  BY <1>2 DEF LogFits
<1>6. \A k \in Lines : Is(k, Answered \cup {"approved", "evaluated"}) =>
         log[k].of \in Lines /\ Decision(k) = log[k].of
  <2>1. ASSUME NEW k \in Lines, Is(k, Answered \cup {"approved", "evaluated"})
        PROVE  log[k].of \in Lines /\ log[log[k].of].event # "approved"
    <3>1. ~Is(k, Decided)
      BY <2>1 DEF Is, Decided, Answered
    <3>2. log[k].of \in Lines /\ Is(log[k].of, AboutOf(log[k].event))
      BY <1>5, <3>1
    <3>3. AboutOf(log[k].event) \subseteq Decided
      BY <2>1 DEF Is, AboutOf, Decided, Answered
    <3>. QED BY <3>2, <3>3 DEF Is, Decided
  <2>. QED BY <2>1 DEF Decision
<1>7. \A k \in Lines : Is(k, {"completed"}) =>
         log[k].of \in Lines /\ Is(log[k].of, {"permitted", "approved"})
  <2>1. ASSUME NEW k \in Lines, Is(k, {"completed"})
        PROVE  log[k].of \in Lines /\ Is(log[k].of, {"permitted", "approved"})
    <3>1. ~Is(k, Decided) /\ log[k].event = "completed"
      BY <2>1 DEF Is, Decided
    <3>2. AboutOf("completed") = {"permitted", "approved"}
      BY DEF AboutOf, Answered
    <3>. QED BY <1>5, <3>1, <3>2
  <2>. QED BY <2>1
<1>8. /\ \A m \in Asked : log[m].of = n /\ ~Is(m, {"cancelled"}) => m \in reading.found
      /\ \A m \in Asked : Is(m, {"completed"}) /\ Is(log[m].of, {"approved"})
                              /\ log[log[m].of].of = n => m \in reading.found
  BY <1>2 DEF Found
<1>9. /\ Recorded(Answered) \subseteq about(Answered, {n})
      /\ Recorded({"approved"}) \subseteq about({"approved"}, {n})
      /\ Recorded({"evaluated"}) \subseteq about({"evaluated"}, {n})
  <2>1. \A m \in Asked : Is(m, Answered \cup {"approved", "evaluated"}) /\ Decision(m) = n =>
           m \in reading.found /\ log[m].of = n
    <3>1. \A m \in Lines : Is(m, Answered \cup {"approved", "evaluated"}) => ~Is(m, {"cancelled"})
      BY DEF Is, Answered
    <3>. QED BY <1>3, <1>6, <1>8, <3>1
  <2>. QED BY <1>4, <2>1 DEF Is
<1>10. Recorded({"completed"}) \subseteq about({"completed"}, authorizations)
  <2>1. SUFFICES ASSUME NEW m \in Asked, Is(m, {"completed"}), Decision(m) = n
        PROVE  m \in reading.found /\ log[m].of \in authorizations
    BY <1>4
  <2>2. m \in Lines /\ log[m].of \in Lines /\ Is(log[m].of, {"permitted", "approved"})
        /\ ~Is(m, {"cancelled"}) /\ ~Is(m, Decided)
    BY <1>3, <1>7, <2>1 DEF Is, Decided
  <2>3. CASE Is(log[m].of, {"approved"})
    <3>1. log[log[m].of].of = n
      BY <2>1, <2>3 DEF Decision, Is
    <3>2. log[m].of \in Asked
      <4>1. log[m].of < m /\ log[log[m].of].at <= log[m].at
        <5>1. log[m].of < m
          BY <1>2, <2>2 DEF LogFits
        <5>2. \A j, k \in Lines : j <= k => log[j].at <= log[k].at
          BY <1>2 DEF LogFits
        <5>. QED BY <1>3, <2>2, <5>1, <5>2
      <4>2. m \in 1 .. reading.asked /\ log[m].of \in Nat /\ log[m].of >= 1
            /\ reading.asked \in Nat /\ reading.end \in Nat
            /\ log[m].at \in Nat /\ log[log[m].of].at \in Nat
        BY <1>2, <1>3, <2>2, LinesAre DEF Asked, Reading, Line
      <4>3. log[m].of \in 1 .. reading.asked
        BY <4>1, <4>2
      <4>. QED BY <4>1, <4>2, <4>3 DEF Asked
    <3>3. log[m].of \in reading.found
      BY <1>8, <2>3, <3>1, <3>2 DEF Is
    <3>. QED BY <1>8, <2>1, <2>3, <3>1, <3>3
  <2>4. CASE ~Is(log[m].of, {"approved"})
    <3>1. log[m].of = n /\ Is(n, {"permitted"})
      BY <2>1, <2>2, <2>4 DEF Decision, Is
    <3>. QED BY <1>8, <2>2, <3>1
  <2>. QED BY <2>3, <2>4
<1>11. \A m \in about(Answered, {n}) \cup about({"evaluated"}, {n}) : Decision(m) = n
  <2>1. \A m \in about(Answered, {n}) \cup about({"evaluated"}, {n}) :
           m \in Lines /\ Is(m, Answered \cup {"approved", "evaluated"}) /\ log[m].of = n
    BY <1>3 DEF Is
  <2>. QED BY <1>6, <2>1
<1>12. \A m \in about({"completed"}, authorizations) : Decision(m) = n
  <2>1. SUFFICES ASSUME NEW m \in about({"completed"}, authorizations) PROVE Decision(m) = n
    OBVIOUS
  <2>2. CASE log[m].of \in about({"approved"}, {n})
    BY <2>2 DEF Decision, Is
  <2>3. CASE log[m].of = n
    BY <1>3, <2>3 DEF Decision, Is, Decided
  <2>. QED BY <2>1, <2>2, <2>3
<1> HIDE DEF Recorded, about, authorizations
<1>. QED BY <1>1, <1>9, <1>10, <1>11, <1>12 DEF Recorded

(* wire_journeys of dashboard.rs over read_transcript and session_activity: what had been
   recorded about a decision when its page was asked for is told of it, and nothing that
   is about another. *)
THEOREM JourneysAlwaysTold == HistorySpec => []JourneysTold
<1>. QED BY HistoryInvariant, JourneysAreWhole, PTL
=============================================================================
