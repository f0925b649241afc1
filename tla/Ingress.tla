------------------------------ MODULE Ingress ------------------------------
(***************************************************************************)
(* What an MCP request passes before its tool runs (ssh-server): its       *)
(* principal is verified against the keys the gateway publishes            *)
(* (ingress.rs), and it is admitted within limits (request_limits.rs).     *)
(*                                                                         *)
(* Every request is a future that can be dropped at any await.  The        *)
(* `refreshing` mutex is held across a fetch; `keys` only inside a step.   *)
(***************************************************************************)
EXTENDS Naturals, FiniteSets

CONSTANTS
    Keys,           \* identifiers of signing keys
    Requests,       \* the most that are open at once
    Lifetime,       \* KEY_CACHE_TTL
    Cooldown,       \* UNKNOWN_KEY_COOLDOWN
    FetchWithin,    \* timeout of the client
    InFlight, PollsInFlight, \* IN_FLIGHT, POLLS_IN_FLIGHT
    LastInstant,    \* bound: the clock
    Together        \* bound: requests that are open at once when a gateway vouches for them

ASSUME IngressAssumption ==
    /\ IsFiniteSet(Keys) /\ IsFiniteSet(Requests)
    /\ Cooldown \in Nat \ {0} /\ FetchWithin \in Nat /\ LastInstant \in Nat
    /\ Lifetime \in Nat /\ Lifetime > Cooldown
    /\ InFlight \in Nat /\ PollsInFlight \in 0 .. InFlight /\ Together \in Nat

VARIABLES
    vouched,    \* IdentitySource: a gateway names the principal, or it is configured
    gateway,    \* the keys the gateway publishes, and when each last changed
    cache,      \* KeyCache
    refreshing, \* the request that has the mutex, if any
    calls,      \* the requests that are open
    told,       \* what a step says to a request, or of its key
    free,       \* permits: capacity, and of it polls
    unhelped,   \* when a fetch last ended without the key it was for
    instant     \* Instant::now

ingressVars == <<vouched, gateway, cache, refreshing, calls, told, free, unhelped, instant>>

(* Optional values are sets; a deadline that was not set is 0. *)
Cache == [set : SUBSET SUBSET Keys, expiry : Nat, unknownUntil : Nat, unavailableUntil : Nat]

(* `key` is the one its assertion names; `got` what the gateway has answered. *)
Idle == [at |-> "idle", key |-> {}, got |-> {}, since |-> 0, poll |-> FALSE]

-----------------------------------------------------------------------------
(* Helpers *)

IsAt(r, at) == calls[r].at = at

Puts(r, request) == calls' = [calls EXCEPT ![r] = request] /\ told' = {}
Proceeds(r, at) == Puts(r, [calls[r] EXCEPT !.at = at])

(* The request is refused, or its principal verified. *)
Says(r, answer) ==
    /\ calls' = [calls EXCEPT ![r] = IF answer = "verified" THEN [Idle EXCEPT !.at = answer] ELSE Idle]
    /\ told' = {[answer |-> answer, key |-> calls[r].key]}

KeyOf(r) == CHOOSE k \in calls[r].key : TRUE

(* KeyCache::lookup and cached: what can be said of a key without a fetch.  Mutant: a
   key that is missing from a fresh set is unknown, whatever the cooldown. *)
Cached_Settled(k) ==
    IF cache.expiry > instant /\ \E set \in cache.set : k \in set THEN "verified"
    ELSE IF cache.expiry > instant THEN "unknown"
    ELSE IF cache.unavailableUntil > instant THEN "unavailable"
    ELSE "ask"

Cached(k) ==
    IF cache.expiry > instant /\ \E set \in cache.set : k \in set THEN "verified"
    ELSE IF cache.expiry > instant /\ cache.unknownUntil > instant THEN "unknown"
    ELSE IF cache.unavailableUntil > instant THEN "unavailable"
    ELSE "ask"

-----------------------------------------------------------------------------
(* The gateway *)

Changes(k) ==
    /\ gateway' = [keys |-> IF k \in gateway.keys THEN gateway.keys \ {k} ELSE gateway.keys \cup {k},
                   changed |-> [gateway.changed EXCEPT ![k] = {instant}]]
    /\ told' = {}
    /\ UNCHANGED <<vouched, cache, refreshing, calls, free, unhelped, instant>>

(* It answers a fetch with what it publishes then; the answer is still to arrive. *)
GatewayAnswers(r) ==
    /\ IsAt(r, "fetching") /\ calls[r].got = {}
    /\ Puts(r, [calls[r] EXCEPT !.got = {gateway.keys}])
    /\ UNCHANGED <<vouched, gateway, cache, refreshing, free, unhelped, instant>>

-----------------------------------------------------------------------------
(* Authentication: require_mcp, verify, key *)

(* With its bearer and without an assertion: the principal is the configured one. *)
ArriveAlone(r) ==
    /\ ~vouched
    /\ IsAt(r, "idle")
    /\ Proceeds(r, "verified")
    /\ UNCHANGED <<vouched, gateway, cache, refreshing, free, unhelped, instant>>

(* With its bearer, and an assertion that names a key. *)
Arrive(r, k) ==
    /\ vouched
    /\ IsAt(r, "idle")
    /\ Cardinality({q \in Requests : ~IsAt(q, "idle")}) < Together
    /\ Puts(r, [Idle EXCEPT !.at = "asking", !.key = {k}])
    /\ UNCHANGED <<vouched, gateway, cache, refreshing, free, unhelped, instant>>

Looked(r, otherwise) ==
    LET said == Cached(KeyOf(r))
    IN IF said = "ask" THEN otherwise ELSE Says(r, said)

Look(r) ==
    /\ IsAt(r, "asking")
    /\ Looked(r, Proceeds(r, "waiting"))
    /\ UNCHANGED <<vouched, gateway, cache, refreshing, free, unhelped, instant>>

Fetches(r) ==
    /\ calls' = [calls EXCEPT ![r].at = "fetching", ![r].since = instant]
    /\ told' = {[answer |-> "fetch", key |-> calls[r].key]}

(* The mutex is had, and the cache is looked at again.  Mutant: it is not. *)
LookAgain_NoLook(r) ==
    /\ IsAt(r, "waiting") /\ refreshing = {}
    /\ Fetches(r)
    /\ refreshing' = {r}
    /\ UNCHANGED <<vouched, gateway, cache, free, unhelped, instant>>

LookAgain(r) ==
    /\ IsAt(r, "waiting") /\ refreshing = {}
    /\ Looked(r, Fetches(r))
    /\ refreshing' = IF Cached(KeyOf(r)) = "ask" THEN {r} ELSE {}
    /\ UNCHANGED <<vouched, gateway, cache, free, unhelped, instant>>

FetchFails(r) ==
    /\ IsAt(r, "fetching")
    /\ cache' = [cache EXCEPT !.unavailableUntil = instant + Cooldown]
    /\ Says(r, "unavailable")
    /\ refreshing' = {}
    /\ unhelped' = {instant}
    /\ UNCHANGED <<vouched, gateway, free, instant>>

FetchEnds(r) ==
    /\ IsAt(r, "fetching")
    /\ \E set \in calls[r].got :
          LET fetched == [cache EXCEPT !.set = {set}, !.expiry = instant + Lifetime, !.unavailableUntil = 0]
          IN IF KeyOf(r) \in set
             THEN cache' = fetched /\ Says(r, "verified") /\ UNCHANGED unhelped
             ELSE /\ cache' = [fetched EXCEPT !.unknownUntil = instant + Cooldown]
                  /\ Says(r, "unknown")
                  /\ unhelped' = {instant}
    /\ refreshing' = {}
    /\ UNCHANGED <<vouched, gateway, free, instant>>

(* check_jwk, the signature, the claims or the name do not hold. *)
Unverifiable(r) ==
    /\ vouched
    /\ IsAt(r, "verified")
    /\ Says(r, "unauthorized")
    /\ UNCHANGED <<vouched, gateway, cache, refreshing, free, unhelped, instant>>

-----------------------------------------------------------------------------
(* Admission: admit *)

Admit(r) ==
    /\ IsAt(r, "verified")
    /\ free.capacity > 0
    /\ free' = [free EXCEPT !.capacity = @ - 1]
    /\ Proceeds(r, "reading")
    /\ UNCHANGED <<vouched, gateway, cache, refreshing, unhelped, instant>>

TurnAway(r) ==
    /\ IsAt(r, "verified")
    /\ free.capacity = 0
    /\ Says(r, "busy")
    /\ UNCHANGED <<vouched, gateway, cache, refreshing, free, unhelped, instant>>

(* The body has been read, and tells what the request is. *)
Classified(r, poll) ==
    /\ IsAt(r, "reading")
    /\ poll => free.polls > 0
    /\ free' = IF poll THEN [free EXCEPT !.polls = @ - 1] ELSE free
    /\ Puts(r, [calls[r] EXCEPT !.at = "serving", !.poll = poll])
    /\ UNCHANGED <<vouched, gateway, cache, refreshing, unhelped, instant>>

(* The handler has returned, and its response may still be streaming: both permits
   go with it.  Mutant: the one for polls ends with the handler. *)
Respond_PollEnds(r) ==
    /\ IsAt(r, "serving")
    /\ free' = IF calls[r].poll THEN [free EXCEPT !.polls = @ + 1] ELSE free
    /\ Proceeds(r, "streaming")
    /\ UNCHANGED <<vouched, gateway, cache, refreshing, unhelped, instant>>

Respond(r) ==
    /\ IsAt(r, "serving")
    /\ Proceeds(r, "streaming")
    /\ UNCHANGED <<vouched, gateway, cache, refreshing, free, unhelped, instant>>

Admitted(r) == calls[r].at \in {"reading", "serving", "streaming"}
PollAdmitted(r) == calls[r].at \in {"serving", "streaming"} /\ calls[r].poll

(* The future or the body is dropped: answered in full, refused for its body, for
   its time or for the polls there are, or its caller gone. *)
Drop(r) ==
    /\ ~IsAt(r, "idle")
    /\ Puts(r, Idle)
    /\ refreshing' = refreshing \ {r}
    /\ free' = [capacity |-> IF Admitted(r) THEN free.capacity + 1 ELSE free.capacity,
                polls |-> IF PollAdmitted(r) THEN free.polls + 1 ELSE free.polls]
    /\ UNCHANGED <<vouched, gateway, cache, unhelped, instant>>

(* A fetch is over within the client's timeout. *)
InstantPasses ==
    /\ instant < LastInstant
    /\ \A r \in Requests : IsAt(r, "fetching") => instant < calls[r].since + FetchWithin
    /\ instant' = instant + 1
    /\ told' = {}
    /\ UNCHANGED <<vouched, gateway, cache, refreshing, calls, free, unhelped>>

-----------------------------------------------------------------------------
(* Specification *)

(* warm: the keys are read before a request is served, or could not be. *)
IngressInit ==
    /\ vouched \in BOOLEAN
    /\ \E keys \in SUBSET Keys :
          /\ gateway = [keys |-> keys, changed |-> [k \in Keys |-> {}]]
          /\ cache \in {[set |-> {}, expiry |-> 0, unknownUntil |-> 0, unavailableUntil |-> 0],
                        [set |-> {keys}, expiry |-> Lifetime, unknownUntil |-> 0, unavailableUntil |-> 0]}
    /\ refreshing = {}
    /\ calls = [r \in Requests |-> Idle]
    /\ told = {}
    /\ free = [capacity |-> InFlight, polls |-> PollsInFlight]
    /\ unhelped = {}
    /\ instant = 0

IngressNext ==
    \/ vouched /\ \E k \in Keys : Changes(k)
    \/ \E r \in Requests :
          \/ ArriveAlone(r)
          \/ \E k \in Keys : Arrive(r, k)
          \/ GatewayAnswers(r)
          \/ Look(r) \/ LookAgain(r) \/ FetchFails(r) \/ FetchEnds(r) \/ Unverifiable(r)
          \/ Admit(r) \/ TurnAway(r) \/ Classified(r, TRUE) \/ Classified(r, FALSE) \/ Respond(r) \/ Drop(r)
    \/ vouched /\ InstantPasses

IngressSpec == IngressInit /\ [][IngressNext]_ingressVars

-----------------------------------------------------------------------------
(* Properties *)

ToldOf(answer) == {k \in Keys : [answer |-> answer, key |-> {k}] \in told}

(* A key was last published, or last missing, less than `time` ago. *)
Lately(k, time) == \E then \in gateway.changed[k] : instant - then < time

(* What a request is told of its key is not older than the cache may make it: one
   it is admitted with was published within the lifetime of the cache, and one it
   is refused for was missing within the cooldown, whoever's fetch the answer comes
   from and in whatever order fetches, changes and requests fell; a fetch may add
   its own time: ingress.rs, "How long to wait before fetching again after a key
   was not found". *)
AnswersAreRecent ==
    /\ \A k \in ToldOf("verified") : k \in gateway.keys \/ Lately(k, Lifetime + FetchWithin)
    /\ \A k \in ToldOf("unknown") : k \notin gateway.keys \/ Lately(k, Cooldown + FetchWithin)

(* Requests cannot drive fetches: none begins within the cooldown after one that
   failed, or that did not have the key it was for; ingress.rs, "Held across a
   fetch, so a burst of requests is one fetch". *)
FetchesAreSpaced == ToldOf("fetch") # {} => \A end \in unhelped : instant >= end + Cooldown

(* Polls leave room for other calls: one is turned away only while that room is
   taken by requests that are not admitted polls, or not yet known to be. *)
PollsLeaveRoom ==
    (\E busy \in told : busy.answer = "busy")
        => Cardinality({r \in Requests : Admitted(r) /\ ~PollAdmitted(r)}) >= InFlight - PollsInFlight
=============================================================================
