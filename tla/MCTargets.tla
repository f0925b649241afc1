----------------------------- MODULE MCTargets ------------------------------
(* Small instances, for TLC, of what the program does on a target: files put there,
   files and directories read, the frames they arrive in, and the command that runs
   there, how it crosses the wire and what is kept of its output.  They are models of their own and share no state, so each is explored by
   itself: `part` says which, and the others stay as they began. *)
EXTENDS Uploads, Downloads, Inspections, Frames, Executions, Output, Commands

(* One shape can overlap itself, and the two can overlap. *)
TwoShapes == {<<"a", "a", "b">>, <<"b", "b">>}

(* What ends a word, what escapes, and, for every other character that a shell would
   take for syntax, one of them. *)
PlainChars == {"dollar", "blank", "backslash"}

VARIABLE part

\* What one part leaves alone.
commandLineVars == <<collectedVars, commandVars>>
filesAndFrames == <<uploadVars, downloadVars, inspectionVars, frameVars>>

targetVars == <<filesAndFrames, executionVars, commandLineVars, part>>

TargetsInit ==
    /\ part \in {"uploads", "file", "look", "frames", "command", "output", "command line"}
    /\ part = "uploads" \/ local = FALSE
    /\ part = "file" \/ size = 0
    /\ part = "look" \/ (prefix = "itself" /\ object = "missing" /\ unread = <<>>)
    /\ part = "frames" \/ wire = <<>>
    /\ Init /\ DownloadsInit /\ FramesInit /\ ExecutionsInit /\ InspectionsInit /\ CollectedInit
    /\ part = "look" \/ look.list
    /\ IF part = "command line" THEN CommandsInit
       ELSE argv = <<>> /\ rendered = <<>> /\ shell = Between /\ place = [at |-> "new", arg |-> 1, char |-> 0]

Uploading == Next /\ UNCHANGED <<downloadVars, inspectionVars, frameVars, executionVars, commandLineVars>>
Downloading == DownloadsNext /\ UNCHANGED <<uploadVars, inspectionVars, frameVars, executionVars, commandLineVars>>
Looking == InspectionsNext /\ UNCHANGED <<uploadVars, downloadVars, frameVars, executionVars, commandLineVars>>
Decoding == FramesNext /\ UNCHANGED <<uploadVars, downloadVars, inspectionVars, executionVars, commandLineVars>>
Executing == ExecutionsNext /\ UNCHANGED <<filesAndFrames, commandLineVars>>
Collecting == CollectedNext /\ UNCHANGED <<filesAndFrames, executionVars, commandVars>>
Rendering == CommandsNext /\ UNCHANGED <<filesAndFrames, executionVars, collectedVars>>

(* A call, a stream or a command may be over. *)
AtRest == part \in {"look", "frames", "command", "command line"} /\ UNCHANGED targetVars

TargetsNext ==
    \/ UNCHANGED part /\ \/ part = "uploads" /\ Uploading
                         \/ part = "file" /\ Downloading
                         \/ part = "look" /\ Looking
                         \/ part = "frames" /\ Decoding
                         \/ part = "command" /\ Executing
                         \/ part = "output" /\ Collecting
                         \/ part = "command line" /\ Rendering
    \/ AtRest

TargetsSpec == TargetsInit /\ [][TargetsNext]_targetVars
=============================================================================
