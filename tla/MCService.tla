----------------------------- MODULE MCService -----------------------------
(* Small instances, for TLC, of the process around the mediation: how it starts from its
   environment, dials, and stops; and what it reads from services and is answered late,
   lines of the log service and keys of the gateway.  They share no state but the
   settings of the process, so each is explored by itself: `part` says which, and the
   others stay as they began. *)
EXTENDS Dialing, Shutdown, AuditHistory, Ingress, TLC

VARIABLE part

processVars == <<startupVars, dialVars, shutdownVars>>
readsVars == <<historyVars, ingressVars>>
serviceVars == <<processVars, readsVars, part>>

Interchangeable == Permutations(Requests) \cup Permutations(Keys)

-----------------------------------------------------------------------------
(* What the process can find when it starts: three environments it serves with ... *)

Set(given) == [variable \in Variables |-> IF variable \in DOMAIN given THEN given[variable] ELSE "unset"]

Standalone == Set([REGISTRY |-> "name", STANDALONE_BEARER |-> "t1", OPERATOR_PASSWORD |-> "t2"])
BehindGateway == Set([REGISTRY |-> "name", AUTH_MODE |-> "gateway", BEARER |-> "t1", PROXY_BEARER |-> "t2",
                      EVALUATOR_NAME |-> "name", EVALUATOR_BEARER |-> "t3", JWKS |-> "url", ISSUER |-> "name"])
Piped == Set([REGISTRY |-> "name", TRANSPORT |-> "stdio", AUDIT_SINK |-> "/audit", OPERATOR_PASSWORD |-> "t2",
              EVALUATOR_NAME |-> "name", EVALUATOR_BEARER |-> "t3", REVIEW |-> "all", DASHBOARD |-> "url"])
Bases == {Standalone, BehindGateway, Piped}

(* ... those that differ from one of them in two variables at most ... *)
IsNear ==
    \E base \in Bases, one, two \in Variables :
        \E value \in ValuesOf(one), other \in ValuesOf(two) :
            environment = With(With(base, one, value), two, other)

(* ... and those with any of two tokens on each of the surfaces of their mode. *)
HasTokens ==
    \E base \in Bases :
        LET foreign == IF base = BehindGateway
                       THEN {"STANDALONE_BEARER", "OPERATOR_PASSWORD"}
                       ELSE {"BEARER", "PREVIOUS_BEARER", "PROXY_BEARER", "PREVIOUS_PROXY_BEARER"}
        IN \E given \in [TokenVars \ foreign -> {"unset", "t1", "t2"}] :
              environment = [variable \in Variables |->
                      IF variable \in DOMAIN given THEN given[variable]
                      ELSE IF variable = "EVALUATOR_NAME" /\ given["EVALUATOR_BEARER"] = "unset" THEN "unset"
                      ELSE IF variable = "EVALUATOR_NAME" THEN "name" ELSE base[variable]]

Entry(host, pin, roles) == [host |-> host, pin |-> pin, roles |-> roles]
Role(role, credential) == [role |-> role, credential |-> credential]

References == {"a/b", "a-b", "c"}
Pins == {"pinned", "unreadable", "blank"}

(* Files with up to two accounts. *)
SmallFiles ==
    {<<Entry("h1", pin, <<Role("r1", credential)>>)>> : pin \in Pins, credential \in References}
        \cup {<<Entry("h1", "pinned", <<Role("r1", one), Role(role, two)>>)>> :
                  role \in {"r1", "r2"}, one \in References, two \in References}
        \cup {<<Entry("h1", pin, <<Role("r1", one)>>), Entry(host, "pinned", <<Role("r1", two)>>)>> :
                  host \in {"h1", "h2", "bad"}, pin \in Pins, one \in References, two \in References}

OneFile == <<Entry("h1", "pinned", <<Role("r1", "c")>>)>>

Keyrings == [{"A_B", "C"} -> {"usable", "encrypted", "malformed", "none"}]
OneKeyring == [variable \in {"A_B", "C"} |-> "usable"]

-----------------------------------------------------------------------------

ProcessInit ==
    /\ CASE part = "start" -> (IsNear \/ HasTokens) /\ registryFile = OneFile /\ held = OneKeyring
         [] part = "stop" -> environment \in Bases /\ registryFile = OneFile /\ held = OneKeyring
         [] part = "dial" -> environment = Standalone /\ registryFile \in SmallFiles /\ held \in Keyrings
         [] OTHER -> environment = <<>> /\ registryFile = <<>> /\ held = <<>>
    /\ StartupInit /\ dial = NoDial /\ ShutdownInit

ReadsInit ==
    /\ HistoryInit /\ IngressInit
    /\ part # "keys" => ~vouched /\ gateway.keys = {} /\ cache.set = {}

ServiceInit ==
    /\ part \in {"start", "dial", "stop", "lines", "keys"}
    /\ ProcessInit /\ ReadsInit

ProcessNext ==
    \/ part \in {"start", "dial", "stop"} /\ StartupNext /\ UNCHANGED <<dialVars, shutdownVars>>
    \/ part = "dial" /\ DialNext /\ UNCHANGED shutdownVars
    \/ part = "stop" /\ ShutdownNext /\ UNCHANGED dialVars

ReadsNext ==
    \/ part = "lines" /\ HistoryNext /\ UNCHANGED ingressVars
    \/ part = "keys" /\ IngressNext /\ UNCHANGED historyVars

(* A start may be refused or fail, and a process that has stopped is over. *)
AtRest == part \in {"start", "dial", "stop"} /\ UNCHANGED serviceVars

ServiceNext ==
    \/ ProcessNext /\ UNCHANGED <<readsVars, part>>
    \/ ReadsNext /\ UNCHANGED <<processVars, part>>
    \/ AtRest

ServiceSpec == ServiceInit /\ [][ServiceNext]_serviceVars
=============================================================================
