------------------------------ MODULE Shutdown ------------------------------
(***************************************************************************)
(* The tasks that serve, and how they end (ssh-server/lib.rs serve,        *)
(* stopped): whichever of them ends first, or a signal, stops the service; *)
(* the others have DrainWithin to answer what they have accepted, the runs *)
(* StopWithin to be recorded, and the process answers with the first error *)
(* it came to know.                                                        *)
(***************************************************************************)
EXTENDS Startup

CONSTANTS
    DrainWithin,   \* DRAIN_WITHIN
    StopWithin,    \* STOP_WITHIN
    MaxUnsettled   \* bound: the runs that are not recorded when the service stops

ASSUME ShutdownAssumption == DrainWithin \in Nat /\ StopWithin \in Nat /\ MaxUnsettled \in Nat

VARIABLES
    tasks,     \* JoinSet: for each task how far it is, and what it ended with
    stop,      \* how far the end of the service is, with the time it took
    unsettled  \* runs whose completion is not recorded

shutdownVars == <<tasks, stop, unsettled>>

Task(at, ended) == [at |-> at, ended |-> ended]

ShutdownInit ==
    /\ tasks = [task \in {"stdio", "http"} |-> Task("absent", "none")]
    /\ stop = [at |-> "no", elapsed |-> 0, since |-> 0, failure |-> "none", exit |-> "none", named |-> 0]
    /\ unsettled = 0

(* JoinSet::spawn: stdio for the launch principal, HTTP where something listens. *)
Spawn ==
    /\ Serving /\ stop.at = "no" /\ \A task \in DOMAIN tasks : tasks[task].at = "absent"
    /\ tasks' = [task \in DOMAIN tasks |->
                    IF (task = "stdio" /\ Stdio(environment)) \/ (task = "http" /\ Listens(environment))
                    THEN Task("serving", "none") ELSE tasks[task]]
    /\ stop' = [stop EXCEPT !.at = "serving"]
    /\ unsettled' \in 0 .. MaxUnsettled

(* The client of stdio hangs up, a listener fails, a task panics: each while it serves;
   or what it had accepted is answered, once it drains. *)
TaskEnds(task) ==
    /\ tasks[task].at \in {"serving", "draining"}
    /\ stop.at \in {"serving", "draining"}
    /\ \E ended \in {"ok", "error"} :
        /\ task = "http" /\ ended = "ok" => tasks[task].at = "draining"
        /\ tasks' = [tasks EXCEPT ![task] = Task("ended", ended)]
    /\ UNCHANGED <<stop, unsettled>>

(* bastion.stop(), housekeeping.abort(), drain.send(true), after the first task joined
   or none. *)
StopWith(failure) ==
    stop' = [stop EXCEPT !.at = "draining", !.failure = failure]

Drained(after) ==
    [task \in DOMAIN tasks |->
        IF after[task].at = "serving" THEN Task("draining", "none") ELSE after[task]]

Stopped ==
    /\ stop.at = "serving"
    /\ StopWith("none") /\ tasks' = Drained(tasks)
    /\ UNCHANGED unsettled

JoinedFirst ==
    /\ stop.at = "serving"
    /\ \E task \in DOMAIN tasks :
        /\ tasks[task].at = "ended"
        /\ StopWith(IF tasks[task].ended = "error" THEN task ELSE "none")
        /\ tasks' = Drained([tasks EXCEPT ![task].at = "joined"])
    /\ UNCHANGED unsettled

(* `draining`: the rest are joined, and the first error is kept.  Mutant: the last. *)
JoinNext_KeepsTheLast ==
    /\ stop.at = "draining"
    /\ \E task \in DOMAIN tasks :
        /\ tasks[task].at = "ended"
        /\ tasks' = [tasks EXCEPT ![task].at = "joined"]
        /\ stop' = [stop EXCEPT !.failure = IF tasks[task].ended = "error" THEN task ELSE "none"]
    /\ UNCHANGED unsettled

JoinNext ==
    /\ stop.at = "draining"
    /\ \E task \in DOMAIN tasks :
        /\ tasks[task].at = "ended"
        /\ tasks' = [tasks EXCEPT ![task].at = "joined"]
        /\ stop' = [stop EXCEPT !.failure = IF @ = "none" /\ tasks[task].ended = "error" THEN task ELSE @]
    /\ UNCHANGED unsettled

Gone(task) == tasks[task].at \in {"absent", "joined"}

AllJoined ==
    /\ stop.at = "draining" /\ \A task \in DOMAIN tasks : Gone(task)
    /\ stop' = [stop EXCEPT !.at = "settling", !.since = 0]
    /\ UNCHANGED <<tasks, unsettled>>

(* timeout(DRAIN_WITHIN, ..) looks at what it waits for before it looks at the clock;
   abort_all: what the tasks that are left end with is not looked at. *)
DrainTimesOut ==
    /\ stop.at = "draining" /\ stop.since = DrainWithin
    /\ \A task \in DOMAIN tasks : tasks[task].at # "ended"
    /\ \E task \in DOMAIN tasks : ~Gone(task)
    /\ tasks' = [task \in DOMAIN tasks |-> IF Gone(task) THEN tasks[task] ELSE Task("joined", "unseen")]
    /\ stop' = [stop EXCEPT !.at = "settling", !.since = 0]
    /\ UNCHANGED unsettled

Exit(named) ==
    stop' = [stop EXCEPT !.at = "exited", !.named = named,
                         !.exit = IF stop.failure = "none" THEN "success" ELSE "failure"]

(* settled: a pass of the reclamation records what it can of what has ended. *)
Reclaims ==
    /\ stop.at = "settling" /\ stop.since < StopWithin /\ unsettled > 0
    /\ unsettled' = unsettled - 1
    /\ UNCHANGED <<tasks, stop>>

Settled ==
    /\ stop.at = "settling" /\ unsettled = 0
    /\ Exit(0) /\ UNCHANGED <<tasks, unsettled>>

SettlingTimesOut ==
    /\ stop.at = "settling" /\ stop.since = StopWithin /\ unsettled > 0
    /\ Exit(unsettled) /\ UNCHANGED <<tasks, unsettled>>

(* Time passes, but not past a deadline. *)
TimePasses ==
    /\ \/ stop.at = "draining" /\ stop.since < DrainWithin
       \/ stop.at = "settling" /\ stop.since < StopWithin
    /\ stop' = [stop EXCEPT !.since = @ + 1, !.elapsed = @ + 1]
    /\ UNCHANGED <<tasks, unsettled>>

ShutdownNext ==
    /\ \/ Spawn \/ Stopped \/ JoinedFirst \/ JoinNext \/ AllJoined \/ DrainTimesOut
       \/ Reclaims \/ Settled \/ SettlingTimesOut \/ TimePasses
       \/ \E task \in DOMAIN tasks : TaskEnds(task)
    /\ UNCHANGED startupVars

(* The start, the service and its end. *)
ShutdownSpec ==
    /\ StartupInit /\ ShutdownInit
    /\ [][ShutdownNext \/ (StartupNext /\ UNCHANGED shutdownVars)]_<<startupVars, shutdownVars>>

(* The process answers with failure exactly if a task that served ended in an error it
   lived to see, whichever ended the service; it leaves no run behind without its name;
   and a stop takes no longer than what it grants the requests and the runs. *)
ExitTells ==
    /\ stop.elapsed <= DrainWithin + StopWithin
    /\ stop.at = "exited" =>
        /\ stop.exit = "failure" <=> \E task \in DOMAIN tasks : tasks[task].ended = "error"
        /\ stop.named = unsettled
=============================================================================
