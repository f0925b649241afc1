------------------------------ MODULE Dialing ------------------------------
(***************************************************************************)
(* How a connection is opened once the service runs (ssh-core/connect.rs): *)
(* what the registry says of an account, the key that was checked at the   *)
(* start, a target that shows the key of some machine and takes or refuses *)
(* the credential, and one deadline over all of it, which may pass while   *)
(* any answer is on its way.                                               *)
(***************************************************************************)
EXTENDS Startup

VARIABLE
    dial   \* a connection being opened: the account, what the target showed, and what was told

dialVars == <<dial>>

Nothing == [host |-> "none", pin |-> "none", role |-> "none", credential |-> "none"]

NoDial == [at |-> "none", account |-> Nothing, shown |-> "nothing", mismatch |-> FALSE, offered |-> FALSE,
           taken |-> FALSE, told |-> "none"]

Told(answer) == [dial EXCEPT !.at = "told", !.told = answer]

(* connect_within, up to the first wait: nothing is dialled for a pin that cannot be read
   or a key that is not there. *)
Dial ==
    /\ Serving /\ dial.at \in {"none", "told"}
    /\ \E account \in accounts :
        LET key == KeyFor(account.credential)
        IN dial' = [NoDial EXCEPT
                       !.account = account,
                       !.at = IF account.pin = "unreadable" \/ key \in {"none", "malformed"} THEN "told" ELSE "dialling",
                       !.told = IF account.pin = "unreadable" THEN "unusable pin"
                                ELSE IF key = "none" THEN "credential unavailable"
                                ELSE IF key = "malformed" THEN "unusable credential" ELSE "none"]

(* check_server_key: the comparison, and the flag that says how it went.  Mutant: the
   flag is raised and the key is taken. *)
CheckServerKey_OnlyFlags(shown) ==
    dial' = [dial EXCEPT !.shown = shown, !.mismatch = shown # dial.account.pin, !.at = "keyed"]

CheckServerKey(shown) ==
    dial' = [dial EXCEPT !.shown = shown, !.mismatch = shown # dial.account.pin,
                         !.at = IF shown = dial.account.pin THEN "keyed" ELSE "turned away"]

TargetShowsKey ==
    /\ dial.at = "dialling"
    /\ \E shown \in {"pinned", "another"} : CheckServerKey(shown)

(* client::connect: the transport is made, or is not. *)
Connected ==
    /\ dial.at = "keyed"
    /\ dial' = [dial EXCEPT !.at = "asking"]

NotConnected ==
    /\ dial.at \in {"dialling", "keyed", "turned away"}
    /\ dial' = Told(IF dial.mismatch THEN "mismatch" ELSE "unreachable")

(* best_supported_rsa_hash: what it answers, and that it may not, changes only how the
   key signs. *)
Offer ==
    /\ dial.at = "asking"
    /\ dial' = [dial EXCEPT !.at = "authenticating", !.offered = TRUE]

(* authenticate_publickey *)
Authenticates ==
    /\ dial.at = "authenticating"
    /\ \/ dial' = [Told("open") EXCEPT !.taken = TRUE]
       \/ dial' = Told("rejected")
       \/ dial' = Told("failed")

(* Timeouts::connect, over every wait of connect_within. *)
DialTimesOut ==
    /\ dial.at \in {"dialling", "keyed", "turned away", "asking", "authenticating"}
    /\ dial' = Told("unreachable")

DialNext ==
    /\ Dial \/ TargetShowsKey \/ Connected \/ NotConnected \/ Offer \/ Authenticates \/ DialTimesOut
    /\ UNCHANGED startupVars

(* The start, and the connections that are opened once it has come to its end. *)
DialingSpec ==
    /\ KeysHeld /\ StartupInit /\ dial = NoDial
    /\ [][DialNext \/ (StartupNext /\ UNCHANGED dialVars)]_<<startupVars, dialVars>>

(* What is told of a dial is what happened to it: a credential is only ever shown to a
   machine with the pinned key, and is one that can be used; a connection is open only
   where it was taken; a target is blamed for its key, or for refusing the account, only
   when it showed another key or was offered the credential; and the operator's own
   mistakes are told before anything was dialled, the check at the start having left no
   key that cannot be parsed. *)
DialTells ==
    /\ dial.offered => dial.shown = dial.account.pin /\ KeyFor(dial.account.credential) = "usable"
    /\ dial.told = "open" => dial.offered /\ dial.taken
    /\ dial.told = "mismatch" => dial.shown \notin {"nothing", dial.account.pin}
    /\ dial.told \in {"rejected", "failed"} => dial.offered /\ ~dial.taken
    /\ dial.told \in {"unusable pin", "credential unavailable"} => dial.shown = "nothing"
    /\ dial.told # "unusable credential"
=============================================================================
