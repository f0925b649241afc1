------------------------------ MODULE Startup ------------------------------
(***************************************************************************)
(* From the environment to the first request (ssh-server/settings.rs,      *)
(* process.rs, credentials.rs, lib.rs serve; ssh-core/config.rs,           *)
(* registry.rs): the settings are read, the outputs opened, the registry   *)
(* parsed, the keys checked against it, and the surfaces made that the     *)
(* settings ask for.  The first thing that cannot be used ends the start,  *)
(* and what is said of it is the variable to be changed; a part that does  *)
(* not start when all of it could be used ends it too.                     *)
(*                                                                         *)
(* A value is what its variable can make of it: "blank" is set and empty,  *)
(* "bad" is anything that is not of the form wanted, tokens are            *)
(* distinguished from one another and nothing else is.                     *)
(***************************************************************************)
EXTENDS Naturals, Sequences, FiniteSets, Functions, SequencesExt

VARIABLES
    environment,   \* the variables of the process
    registryFile,  \* the hosts of the registry's file, in its order
    held,          \* EnvCredentials::held: by variable, the kind of key it holds
    accounts,      \* Registry: what an account resolves to
    boot           \* how far the start has come, and what it was refused or failed for

startupVars == <<environment, registryFile, held, accounts, boot>>

Given(e, variable) == e[variable] \notin {"unset", "blank"}

-----------------------------------------------------------------------------
(* Config::from_lookup, ProcessOptions::from_lookup *)

(* A listen address that a second process can probe: port 0 is the kernel's to choose. *)
ConfigFaults(e) == <<<<e["LISTEN"] \in {"blank", "bad", "port 0"}, {"LISTEN"}>>>>

Stdio(e) == e["TRANSPORT"] = "stdio"

(* Sink: "stdout", "stderr", or the path of a file. *)
Paths == {"/audit", "/log", "/link"}
AuditSink(e) == IF e["AUDIT_SINK"] = "unset" /\ ~Stdio(e) THEN "stdout" ELSE e["AUDIT_SINK"]
LogSink(e) == IF e["LOG_SINK"] = "unset" THEN "stderr" ELSE e["LOG_SINK"]

ProcessFaults(e) == <<
    <<e["TRANSPORT"] \in {"blank", "bad"}, {"TRANSPORT"}>>,
    <<AuditSink(e) \in {"blank", "bad", "unset"}, {"AUDIT_SINK"}>>,
    <<LogSink(e) \in {"blank", "bad"}, {"LOG_SINK"}>>,
    <<Stdio(e) /\ AuditSink(e) \notin Paths, {"AUDIT_SINK"}>>,
    <<Stdio(e) /\ LogSink(e) = "stdout", {"LOG_SINK"}>>,
    <<AuditSink(e) = LogSink(e), {"AUDIT_SINK", "LOG_SINK"}>> >>

-----------------------------------------------------------------------------
(* Settings::from_lookup: who is let in *)

Gateway(e) == e["AUTH_MODE"] = "gateway"

AgentVar(e) == IF Gateway(e) THEN "BEARER" ELSE "STANDALONE_BEARER"
ProxyVar(e) == IF Gateway(e) THEN "PROXY_BEARER" ELSE "OPERATOR_PASSWORD"

OfStandalone == <<"STANDALONE_BEARER", "PRINCIPAL", "OPERATOR_PASSWORD", "OPERATOR_NAME">>
OfGateway == <<"BEARER", "PREVIOUS_BEARER", "PROXY_BEARER", "PREVIOUS_PROXY_BEARER", "JWKS", "ISSUER">>

ModeFaults(e) ==
    << <<~Given(e, "REGISTRY"), {"REGISTRY"}>>,
       <<e["AUTH_MODE"] = "bad" \/ (Gateway(e) /\ Stdio(e)), {"AUTH_MODE"}>> >>
    \o LET foreign == IF Gateway(e) THEN OfStandalone ELSE OfGateway
       IN [i \in DOMAIN foreign |-> <<Given(e, foreign[i]), {foreign[i]}>>]
    \o << <<Stdio(e) = Given(e, AgentVar(e)), {AgentVar(e)}>> >>

ReviewFaults(e) == <<
    <<~Gateway(e) /\ e[ProxyVar(e)] = "long", {ProxyVar(e)}>>,
    <<~Given(e, ProxyVar(e)) /\ (Given(e, "PREVIOUS_PROXY_BEARER") \/ Given(e, "OPERATOR_NAME")), {ProxyVar(e)}>>,
    <<e["REVIEW"] = "bad", {"REVIEW"}>>,
    <<e["DASHBOARD"] = "bad", {"DASHBOARD"}>>,
    <<e["REVIEW"] \in {"all", "privileged"} /\ ~Given(e, ProxyVar(e)), {ProxyVar(e)}>>,
    <<e["REVIEW"] \in {"all", "privileged"} /\ ~Given(e, "DASHBOARD"), {"DASHBOARD"}>> >>

(* Mutant: a previous token without a current one is laid to the name. *)
EvaluatorFaults_NamesTheName(e) == <<
    <<~Given(e, "EVALUATOR_BEARER") /\ (Given(e, "PREVIOUS_EVALUATOR_BEARER") \/ Given(e, "EVALUATOR_NAME")),
      {"EVALUATOR_NAME"}>>,
    <<Given(e, "EVALUATOR_BEARER") /\ ~Given(e, "EVALUATOR_NAME"), {"EVALUATOR_NAME"}>>,
    <<e["EVALUATOR_NAME"] = "bad", {"EVALUATOR_NAME"}>> >>

EvaluatorFaults(e) == <<
    <<~Given(e, "EVALUATOR_BEARER") /\ (Given(e, "PREVIOUS_EVALUATOR_BEARER") \/ Given(e, "EVALUATOR_NAME")),
      {"EVALUATOR_BEARER"}>>,
    <<Given(e, "EVALUATOR_BEARER") /\ ~Given(e, "EVALUATOR_NAME"), {"EVALUATOR_NAME"}>>,
    <<e["EVALUATOR_NAME"] = "bad", {"EVALUATOR_NAME"}>> >>

(* The variables of the surfaces, later ones compared with those before them. *)
Surfaces(e) == <<
    [of |-> "agent", current |-> AgentVar(e), previous |-> "PREVIOUS_BEARER"],
    [of |-> "operator", current |-> ProxyVar(e), previous |-> "PREVIOUS_PROXY_BEARER"],
    [of |-> "evaluator", current |-> "EVALUATOR_BEARER", previous |-> "PREVIOUS_EVALUATOR_BEARER"],
    [of |-> "metrics", current |-> "METRICS_BEARER", previous |-> "PREVIOUS_METRICS_BEARER"]>>

Takes(e, surface) ==
    {e[variable] : variable \in {v \in {surface.current, surface.previous} : Given(e, v)}}

TakenBefore(e, i) == UNION {Takes(e, Surfaces(e)[j]) : j \in 1 .. i - 1}

(* No surface takes a token of another. *)
SharedFaults(e) ==
    FlattenSeq([i \in 1 .. 4 |->
        LET surface == Surfaces(e)[i]
        IN << <<e[surface.current] \in TakenBefore(e, i), {surface.current}>>,
              <<e[surface.previous] \in TakenBefore(e, i), {surface.previous}>> >>])

(* bearer_pair, SharedBearer::new, check_bearer; in the order the pairs are built. *)
PairFaults(e) ==
    FlattenSeq([i \in 1 .. 4 |->
        LET surface == Surfaces(e)[IF i = 1 THEN 4 ELSE IF i = 4 THEN 3 ELSE i - 1]
            current == surface.current
            previous == surface.previous
        IN << <<~Given(e, current) /\ Given(e, previous), {current}>>,
              <<e[current] = "short", {current}>>,
              <<e[previous] = "short", {previous}>>,
              <<Given(e, current) /\ e[current] = e[previous], {previous}>> >>])

(* The tokens the names are compared with: not those of the metrics.  Mutant: nor those
   of the evaluator, who came last. *)
TokensOf_AgentAndOperator(e) == TakenBefore(e, 3)

TokensOf(e) == TakenBefore(e, 4)

(* The names of the caller and of the operator, where no gateway gives them.  The
   evaluator's name is compared with nothing. *)
Principal(e) == IF Given(e, "PRINCIPAL") THEN e["PRINCIPAL"] ELSE "local"
Operator(e) == IF Given(e, "OPERATOR_NAME") THEN e["OPERATOR_NAME"] ELSE "operator"
IdentityFaults(e) ==
    IF Gateway(e)
    THEN << <<~Given(e, "JWKS") \/ e["JWKS"] = "bad", {"JWKS"}>>, <<~Given(e, "ISSUER"), {"ISSUER"}>> >>
    ELSE << <<Principal(e) = "bad", {"PRINCIPAL"}>>, <<Operator(e) = "bad", {"OPERATOR_NAME"}>>,
            <<Principal(e) \in TokensOf(e), {"PRINCIPAL"}>>,
            <<Operator(e) \in TokensOf(e), {"OPERATOR_NAME"}>> >>

(* ... and what the surfaces may do *)

OneOf(e, variable, allowed) == <<e[variable] \notin allowed, {variable}>>

OtherFaults(e) == <<
    OneOf(e, "AUDIT_QUERY", {"unset", "blank", "url"}),
    OneOf(e, "AUDIT_LABELS", {"unset", "blank", "name"}),
    <<Given(e, "AUDIT_QUERY") # Given(e, "AUDIT_LABELS"), {"AUDIT_LABELS"}>>,
    <<Given(e, "OPERATOR_HEADER") /\ ~Gateway(e), {"OPERATOR_HEADER"}>>,
    OneOf(e, "OPERATOR_HEADER", {"unset", "blank", "name"}),
    <<Given(e, "FILE_ROOT") /\ (~Stdio(e) \/ Given(e, "FILE_ORIGIN")), {"FILE_ROOT"}>>,
    OneOf(e, "MAX_TRANSFER", {"unset", "number"}),
    OneOf(e, "TRANSFER_TIMEOUT", {"unset", "number"}),
    OneOf(e, "SFTP_READ_AHEAD", {"unset", "number"}),
    OneOf(e, "CHECKSUM_BYTES", {"unset", "number"}),
    OneOf(e, "SESSIONS_PER_PRINCIPAL", {"unset", "number"}),
    OneOf(e, "FILE_ORIGIN", {"unset", "blank", "url"}),
    OneOf(e, "NOTIFY", {"unset", "blank", "url"}) >>

SettingsFaults(e) ==
    ProcessFaults(e) \o ModeFaults(e) \o ReviewFaults(e) \o EvaluatorFaults(e) \o SharedFaults(e)
        \o PairFaults(e) \o IdentityFaults(e) \o OtherFaults(e)

(* `?`: the first fault is the answer. *)
First(faults) ==
    LET found == {i \in DOMAIN faults : faults[i][1]}
    IN IF found = {} THEN <<>> ELSE <<faults[Min(found)][2]>>

-----------------------------------------------------------------------------
(* open_outputs, Registry::from_json, EnvCredentials *)

(* What the file system makes of a path: /link is another name of /audit. *)
FileAt(path) == IF path = "/link" THEN "/audit" ELSE path

SameOutput(audit, log) == {audit, log} \subseteq Paths /\ FileAt(audit) = FileAt(log)

(* CredentialRef, and EnvCredentials::variable: everything but letters and digits is
   folded, so two references can have one variable. *)
Variable(reference) == IF reference = "c" THEN "C" ELSE "A_B"

(* unique_keys, PinnedHostKey, HostId: a file that repeats a name, or leaves a pin
   blank, is not a registry. *)
Malformed(file) ==
    \/ ~IsInjective([i \in DOMAIN file |-> file[i].host])
    \/ \E i \in DOMAIN file :
        \/ file[i].host = "bad" \/ file[i].pin = "blank"
        \/ ~IsInjective([j \in DOMAIN file[i].roles |-> file[i].roles[j].role])

(* Registry::resolve *)
AccountsOf(file) ==
    UNION {{[host |-> file[i].host, pin |-> file[i].pin, role |-> file[i].roles[j].role,
             credential |-> file[i].roles[j].credential] : j \in DOMAIN file[i].roles} : i \in DOMAIN file}

(* check_registry: whose variables more than one reference would be read from ... *)
Collides(set) ==
    \E one, other \in set :
        one.credential # other.credential /\ Variable(one.credential) = Variable(other.credential)

(* ... and what is left to be fetched: a key nobody can use is dropped. *)
Usable(kind) == kind = "usable"   \* usable_credential: neither malformed nor encrypted

Checked(set, keys) ==
    LET named == {Variable(account.credential) : account \in set}
    IN [variable \in DOMAIN keys |->
           IF variable \in named /\ ~Usable(keys[variable]) THEN "none" ELSE keys[variable]]

(* EnvCredentials::fetch *)
KeyFor(reference) == held[Variable(reference)]

-----------------------------------------------------------------------------
(* main, serve *)

Stage(at, fault) == [at |-> at, fault |-> fault]

Reads(stage, faults, then) ==
    /\ boot.at = stage
    /\ LET first == First(faults)
       IN boot' = IF first = <<>> THEN Stage(then, {}) ELSE Stage("refused", first[1])

ReadConfig ==
    /\ Reads("config", ConfigFaults(environment), "settings")
    /\ UNCHANGED <<environment, registryFile, held, accounts>>

ReadSettings ==
    /\ Reads("settings", SettingsFaults(environment), "outputs")
    /\ UNCHANGED <<environment, registryFile, held, accounts>>

(* The outputs are opened before anything can be admitted; a path may lead nowhere. *)
OpenOutputs ==
    /\ \/ Reads("outputs", <<<<SameOutput(AuditSink(environment), LogSink(environment)),
                               {"AUDIT_SINK", "LOG_SINK"}>>>>, "registry")
       \/ /\ boot.at = "outputs"
          /\ \E variable \in {"AUDIT_SINK", "LOG_SINK"} : boot' = Stage("refused", {variable})
    /\ UNCHANGED <<environment, registryFile, held, accounts>>

(* The file may not be there to be read. *)
ReadRegistry ==
    /\ \/ Reads("registry", <<<<Malformed(registryFile), {"REGISTRY"}>>>>, "credentials")
       \/ /\ boot.at = "registry"
          /\ boot' = Stage("refused", {"REGISTRY"})
    /\ accounts' = IF boot'.at = "refused" THEN {} ELSE AccountsOf(registryFile)
    /\ UNCHANGED <<environment, registryFile, held>>

CheckRegistry ==
    /\ Reads("credentials", <<<<Collides(accounts), {"REGISTRY"}>>>>, "surfaces")
    /\ held' = Checked(accounts, held)
    /\ UNCHANGED <<environment, registryFile, accounts>>

(* needs_http: what makes a listener necessary. *)
Listens(e) ==
    \/ ~Stdio(e)
    \/ Given(e, ProxyVar(e)) \/ Given(e, "EVALUATOR_BEARER") \/ Given(e, "METRICS_BEARER")
    \/ Given(e, "FILE_ORIGIN") /\ ~Given(e, "FILE_ROOT")

(* What this process has yet to start, each of which can fail: the clock and the record's
   writer in any; in others the gateway's keys, the clients, the store of the files it
   moves, and the listener. *)
YetToStart(e) ==
    {"clock", "audit writer"}
        \cup (IF Gateway(e) THEN {"identity"} ELSE {})
        \cup (IF Given(e, "NOTIFY") THEN {"notifications"} ELSE {})
        \cup (IF Given(e, "AUDIT_QUERY") THEN {"audit history"} ELSE {})
        \cup (IF Given(e, "FILE_ORIGIN") \/ Given(e, "FILE_ROOT") THEN {"files"} ELSE {})
        \cup (IF Listens(e) THEN {"listener"} ELSE {})

(* What is said of a failure is what was being started, and no variable. *)
Serve ==
    /\ boot.at = "surfaces"
    /\ \/ boot' = Stage("serving", {})
       \/ \E part \in YetToStart(environment) : boot' = Stage("failed", {part})
    /\ UNCHANGED <<environment, registryFile, held, accounts>>

StartupNext ==
    \/ ReadConfig \/ ReadSettings \/ OpenOutputs \/ ReadRegistry \/ CheckRegistry \/ Serve

-----------------------------------------------------------------------------
(* What the variables can be set to *)

TokenVars == {"STANDALONE_BEARER", "OPERATOR_PASSWORD", "BEARER", "PREVIOUS_BEARER", "PROXY_BEARER",
              "PREVIOUS_PROXY_BEARER", "EVALUATOR_BEARER", "PREVIOUS_EVALUATOR_BEARER", "METRICS_BEARER",
              "PREVIOUS_METRICS_BEARER"}
NameVars == {"PRINCIPAL", "OPERATOR_NAME", "EVALUATOR_NAME", "ISSUER", "AUDIT_LABELS", "OPERATOR_HEADER", "REGISTRY",
             "FILE_ROOT"}
UrlVars == {"JWKS", "DASHBOARD", "AUDIT_QUERY", "FILE_ORIGIN", "NOTIFY"}
NumberVars == {"MAX_TRANSFER", "TRANSFER_TIMEOUT", "SFTP_READ_AHEAD", "CHECKSUM_BYTES", "SESSIONS_PER_PRINCIPAL"}
SinkVars == {"AUDIT_SINK", "LOG_SINK"}
Variables == TokenVars \cup NameVars \cup UrlVars \cup NumberVars \cup SinkVars
                \cup {"LISTEN", "TRANSPORT", "AUTH_MODE", "REVIEW"}

ValuesOf(variable) ==
    {"unset", "blank"} \cup
    (CASE variable = "OPERATOR_PASSWORD" -> {"t1", "t2", "t3", "short", "long"}
       [] variable \in TokenVars \ {"OPERATOR_PASSWORD"} -> {"t1", "t2", "t3", "short"}
       [] variable \in {"PRINCIPAL", "OPERATOR_NAME", "EVALUATOR_NAME"} -> {"name", "bad", "t1", "t2", "t3"}
       [] variable \in {"AUDIT_LABELS", "OPERATOR_HEADER"} -> {"name", "bad"}
       [] variable \in {"ISSUER", "REGISTRY", "FILE_ROOT"} -> {"name"}
       [] variable \in UrlVars -> {"url", "bad"}
       [] variable \in NumberVars -> {"number", "bad"}
       [] variable \in SinkVars -> {"stdout", "stderr", "bad"} \cup Paths
       [] variable = "LISTEN" -> {"bad", "port 0", "wildcard", "address"}
       [] variable = "TRANSPORT" -> {"http", "stdio", "bad"}
       [] variable = "AUTH_MODE" -> {"standalone", "gateway", "bad"}
       [] variable = "REVIEW" -> {"disabled", "all", "privileged", "bad"})

With(e, variable, value) == [e EXCEPT ![variable] = value]

StartupInit ==
    /\ accounts = {}
    /\ boot = Stage("config", {})

(* Whatever the environment and the registry are, and whichever keys are held. *)
KeysHeld == held \in [{"A_B", "C"} -> {"usable", "encrypted", "malformed", "none"}]

(* ... each variable being unset, or set to what it can be set to. *)
EnvironmentRead ==
    /\ environment = [variable \in Variables |-> environment[variable]]
    /\ \A variable \in Variables : environment[variable] \in ValuesOf(variable)

StartupSpec == KeysHeld /\ StartupInit /\ [][StartupNext]_startupVars

-----------------------------------------------------------------------------
(* Properties *)

Serving == boot.at = "serving"

TokensApart ==
    \A i, j \in 1 .. 4 : i # j => Takes(environment, Surfaces(environment)[i])
                                       \cap Takes(environment, Surfaces(environment)[j]) = {}

NamesAreNoCredentials ==
    ~Gateway(environment) =>
        \A i \in 1 .. 4 : Surfaces(environment)[i].of # "metrics" =>
            {Principal(environment), Operator(environment)} \cap Takes(environment, Surfaces(environment)[i]) = {}

OutputsApart ==
    LET audit == AuditSink(environment)
        log == LogSink(environment)
    IN /\ FileAt(audit) # FileAt(log)
       /\ Stdio(environment) => {audit, log} \cap {"stdout"} = {}

KeysApart ==
    \A one, other \in accounts :
        /\ one.credential # other.credential => Variable(one.credential) # Variable(other.credential)
        /\ <<one.host, one.role>> = <<other.host, other.role>> => one = other
        /\ KeyFor(one.credential) \in {"usable", "none"}

Answerable ==
    environment["REVIEW"] \in {"all", "privileged"} =>
        /\ Listens(environment) /\ Given(environment, "DASHBOARD")
        /\ Takes(environment, Surfaces(environment)[2]) # {}

(* A process that serves keeps its surfaces, its outputs and its accounts apart: no token
   is taken on two surfaces; where the caller and the operator are named by the settings,
   neither name is a token of the agent, the operator or the evaluator (operations.md:67,
   "The service rejects a name equal to either configured standalone credential"; a name
   that is a token of the metrics, or an evaluator's that is a token, is let through); the
   audit and the log never share a file or the pipe of the protocol, no key is fetched for
   a reference it does not belong to, and a command that is held can be answered by
   somebody. *)
ServesKeptApart ==
    Serving => TokensApart /\ NamesAreNoCredentials /\ OutputsApart /\ KeysApart /\ Answerable

(* The variable a refused start names is one to be changed: with the others as they are,
   for some value of it the environment is not refused in its name. *)
RefusalsCanBeCured ==
    boot.at = "refused" =>
        \E variable \in boot.fault : \E value \in ValuesOf(variable) \cup (IF variable \in TokenVars THEN {"another"} ELSE {}) :
            LET changed == With(environment, variable, value)
                first == First(ConfigFaults(changed) \o SettingsFaults(changed))
            IN first = <<>> \/ variable \notin first[1]
=============================================================================
