----------------------------- MODULE Executions -----------------------------
(***************************************************************************)
(* One command on its target and what is said of it: the task that follows *)
(* its channel (ssh-core/run.rs: start), the record that task fills, and   *)
(* the answers made from that record (run.rs: snapshot_of, progress;       *)
(* ssh-server/tools.rs: reported, stream_with_files, ProgressResult).      *)
(*                                                                         *)
(* What the target sends is read in the order it was sent; a connection    *)
(* may be lost with some of it on the way.  Whoever asks is answered from  *)
(* the record as it is, so an answer is a function of the state.           *)
(***************************************************************************)
EXTENDS Naturals, Sequences, SequencesExt

CONSTANTS
    OutputBytes,   \* Limits::output_bytes, for each stream
    Inline,     \* the 4096 bytes an answer may hold of a stream
    Codes,      \* exit statuses
    MaxOutput   \* bound: pieces of output the command makes

ASSUME ExecutionsAssumption ==
    OutputBytes \in Nat /\ Inline \in Nat /\ MaxOutput \in Nat

Streams == {"stdout", "stderr"}

(* A piece of output is one unit long.  "marked" completes the shape of a secret,
   which the scan of module Output finds; "binary" is not text. *)
Pieces == {"text", "binary", "marked"}

VARIABLES
    command,  \* what became of the command on the target
    output,   \* what it wrote, for each stream
    exited,   \* Nothing, or the status it ended with
    channel,  \* what the target has sent and nobody has read
    link,     \* "up", "closed" by the target, or "lost" with output on its way
    follower, \* where the task of the run is, with its locals
    record    \* Record, and Live::cancellation

executionVars == <<command, output, exited, channel, link, follower, record>>

Nothing == "nothing"

(* Collected: what is kept, how much there was, whether it looked like a secret. *)
CollectedOutput == [kept : UNION {[1 .. n -> Pieces] : n \in 0 .. OutputBytes}, seen : 0 .. MaxOutput, matched : BOOLEAN]
Empty == [kept |-> <<>>, seen |-> 0, matched |-> FALSE]

-----------------------------------------------------------------------------
(* The target *)

Sends(message) == channel' = Append(channel, message)
Talking == command \in {"begun", "over", "refused"} /\ link = "up"

(* It takes the request, and may not say so; or declines it. *)
Begins ==
    /\ command = "asked"
    /\ link = "up"
    /\ command' = "begun"
    /\ Sends([kind |-> "success"]) \/ UNCHANGED channel
    /\ UNCHANGED <<output, exited, link, follower, record>>

Declines ==
    /\ command = "asked"
    /\ link = "up"
    /\ command' = "refused"
    /\ Sends([kind |-> "failure"])
    /\ UNCHANGED <<output, exited, link, follower, record>>

(* Output is still sent when the status has been. *)
Writes(stream, piece) ==
    /\ Talking
    /\ command # "refused"
    /\ Len(output["stdout"]) + Len(output["stderr"]) < MaxOutput
    /\ output' = [output EXCEPT ![stream] = Append(@, piece)]
    /\ Sends([kind |-> "data", stream |-> stream, piece |-> piece])
    /\ UNCHANGED <<command, exited, link, follower, record>>

(* It declines what it has shown to have begun. *)
Contradicts ==
    /\ Talking
    /\ command = "begun"
    /\ output["stdout"] \o output["stderr"] # <<>>
    /\ \A i \in DOMAIN channel : channel[i].kind # "failure"
    /\ Sends([kind |-> "failure"])
    /\ UNCHANGED <<command, output, exited, link, follower, record>>

Exits(code) ==
    /\ Talking
    /\ command = "begun"
    /\ command' = "over"
    /\ exited' = code
    /\ Sends([kind |-> "status", code |-> code])
    /\ UNCHANGED <<output, link, follower, record>>

IsKilled ==
    /\ Talking
    /\ command = "begun"
    /\ command' = "over"
    /\ Sends([kind |-> "signal"])
    /\ UNCHANGED <<output, exited, link, follower, record>>

Closes ==
    /\ Talking
    /\ link' = "closed"
    /\ Sends([kind |-> "closed"])
    /\ UNCHANGED <<command, output, exited, follower, record>>

(* The connection is lost, and with it what had not arrived. *)
IsLost ==
    /\ command # "unasked"
    /\ link = "up"
    /\ link' = "lost"
    /\ \E n \in 0 .. Len(channel) : channel' = Append(SubSeq(channel, 1, n), [kind |-> "closed"])
    /\ UNCHANGED <<command, output, exited, follower, record>>

-----------------------------------------------------------------------------
(* The task of the run *)

(* Collected::push; Collected::snapshot has it truncated if more was seen than kept. *)
Pushed(collected, piece) ==
    [kept |-> IF Len(collected.kept) < OutputBytes THEN Append(collected.kept, piece) ELSE collected.kept,
     seen |-> collected.seen + 1,
     matched |-> collected.matched \/ piece = "marked"]

Settles(state) ==
    /\ record' = [record EXCEPT !.state = state]
    /\ follower' = [follower EXCEPT !.at = "done"]

(* channel.exec: a send that reports a failure may still have arrived. *)
Sent ==
    /\ follower.at = "sending"
    /\ command' = "asked"
    /\ follower' = [follower EXCEPT !.at = "reading"]
    /\ UNCHANGED <<output, exited, channel, link, record>>

SendFails ==
    /\ follower.at = "sending"
    /\ command' \in {"unasked", "asked"}
    /\ Settles("indeterminate")
    /\ UNCHANGED <<output, exited, channel, link>>

Reads ==
    /\ follower.at = "reading"
    /\ channel # <<>>
    /\ channel' = Tail(channel)
    /\ UNCHANGED <<command, output, exited, link>>

(* Output, whether or not anything of it is kept. *)
ReadData ==
    LET message == Head(channel)
    IN /\ Reads
       /\ message.kind = "data"
       /\ record' = [record EXCEPT ![message.stream] = Pushed(@, message.piece)]
       /\ follower' = [follower EXCEPT !.began = TRUE]

(* A status is noted and settles nothing: output may still follow it.
   Mutant: it settles the run, and reading goes on. *)
ReadStatus_Settles ==
    /\ Reads
    /\ Head(channel).kind = "status"
    /\ follower' = [follower EXCEPT !.began = TRUE, !.code = Head(channel).code]
    /\ record' = [record EXCEPT !.state = "exited", !.code = Head(channel).code]

ReadStatus ==
    /\ Reads
    /\ Head(channel).kind = "status"
    /\ follower' = [follower EXCEPT !.began = TRUE, !.code = Head(channel).code]
    /\ UNCHANGED record

ReadEvidence ==
    /\ Reads
    /\ Head(channel).kind \in {"success", "signal"}
    /\ follower' = [follower EXCEPT !.began = TRUE]
    /\ UNCHANGED record

(* The negative reply counts if nothing has said the command began.
   Mutant: it counts whatever was read before. *)
ReadFailure_Always ==
    /\ Reads
    /\ Head(channel).kind = "failure"
    /\ Settles("refused")

ReadFailure ==
    /\ Reads
    /\ Head(channel).kind = "failure"
    /\ IF follower.began
       THEN UNCHANGED <<follower, record>>
       ELSE Settles("refused")

(* The channel is over: what arrived decides. *)
ReadEnd ==
    /\ Reads
    /\ Head(channel).kind = "closed"
    /\ follower' = [follower EXCEPT !.at = "done"]
    /\ record' = IF record.state # "running" THEN record
                 ELSE CASE follower.code # Nothing ->
                            [record EXCEPT !.state = "exited", !.code = follower.code]
                        [] follower.code = Nothing /\ follower.began ->
                            [record EXCEPT !.state = "ended"]
                        [] OTHER -> [record EXCEPT !.state = "indeterminate"]

(* Runs::cancel, and the signal that follows: whether it got through is noted. *)
CancelRun ==
    /\ record.state = "running"
    /\ record.cancellation = "not_requested"
    /\ record' = [record EXCEPT !.cancellation = "requested"]
    /\ UNCHANGED <<command, output, exited, channel, link, follower>>

Signals ==
    /\ follower.at = "reading"
    /\ record.cancellation = "requested"
    /\ \E result \in {"signal_sent", "signal_failed"} :
        record' = [record EXCEPT !.cancellation = result]
    /\ UNCHANGED <<command, output, exited, channel, link, follower>>

-----------------------------------------------------------------------------
ExecutionsInit ==
    /\ command = "unasked"
    /\ output = [s \in Streams |-> <<>>]
    /\ exited = Nothing
    /\ channel = <<>>
    /\ link = "up"
    /\ follower = [at |-> "sending", began |-> FALSE, code |-> Nothing]
    /\ record = [state |-> "running", code |-> Nothing, cancellation |-> "not_requested",
                 stdout |-> Empty, stderr |-> Empty]

Target ==
    \/ Begins \/ Declines \/ Contradicts \/ IsKilled \/ Closes \/ IsLost
    \/ \E s \in Streams, p \in Pieces : Writes(s, p)
    \/ \E c \in Codes : Exits(c)

ExecutionsNext ==
    \/ Target
    \/ Sent \/ SendFails
    \/ ReadData \/ ReadStatus \/ ReadEvidence \/ ReadFailure \/ ReadEnd
    \/ CancelRun \/ Signals

ExecutionsSpec == ExecutionsInit /\ [][ExecutionsNext]_executionVars

-----------------------------------------------------------------------------
(* The answers.  `files` is the store of the server: not there, or it takes what it
   is given, or it has no room. *)
Files == {"none", "takes", "full"}

(* stream_with_files and StreamOut::released; `content` stands for text inline and
   for the file behind a reference. *)
Released(s, files) ==
    LET stream == record[s]
        shown(as) == [as |-> as, content |-> stream.kept, bytes |-> stream.seen,
                      truncated |-> stream.seen > Len(stream.kept)]
        plain == \A i \in DOMAIN stream.kept : stream.kept[i] # "binary"
    IN CASE ~stream.matched /\ Len(stream.kept) <= Inline /\ plain -> shown("text")
         [] files = "takes" -> shown("reference")
         [] OTHER -> [as |-> "unavailable", bytes |-> stream.seen]

Pending(s) == [as |-> "pending", bytes |-> record[s].seen]

(* reported, ran_with_files. *)
ExecResult(files) ==
    CASE record.state = "running" ->
            [outcome |-> "still_running", stdout |-> Pending("stdout"), stderr |-> Pending("stderr")]
      [] record.state = "refused" -> [outcome |-> "not_started"]
      [] record.state = "indeterminate" -> [outcome |-> "unknown"]
      [] OTHER -> [outcome |-> "ran", exit |-> record.code,
                   stdout |-> Released("stdout", files), stderr |-> Released("stderr", files)]

(* ProgressResult, which collects nothing. *)
Progress ==
    [status |-> CASE record.state = "refused" -> "refused"
                  [] record.state = "indeterminate" -> "unknown"
                  [] OTHER -> record.state,
     exit |-> record.code, cancellation |-> record.cancellation,
     bytes |-> [s \in Streams |-> record[s].seen]]

Settled == record.state # "running"

-----------------------------------------------------------------------------
(* Properties *)

(* What a command is said to have written: the beginning of what it wrote, counted
   whole; and all of it, up to the limit, unless the connection went. *)
TellsOutput(s, shown) ==
    /\ shown.as \in {"text", "reference"} =>
        /\ IsPrefix(shown.content, output[s])
        /\ link = "closed" => shown.bytes = Len(output[s])
        /\ shown.truncated <=> shown.bytes > Len(shown.content)
    /\ shown.as = "text" => \A i \in 1 .. Len(shown.content) : shown.content[i] = "text"

(* tools.rs:reported: "ran" means it did, with the status the target gave; "not
   started" that it did not; what is said of its output is true, and the text of an
   answer holds nothing that looked like a secret. *)
AnswerTells ==
    \A files \in Files :
        LET a == ExecResult(files)
        IN /\ a.outcome = "not_started" => command = "refused"
           /\ a.outcome = "ran" =>
                /\ command \in {"begun", "over"}
                /\ a.exit \in {Nothing, exited}
                /\ \A s \in Streams : TellsOutput(s, a[s])

(* StreamOut::Pending: an answer that says a run is over, or hands out any of its
   output, is the answer from then on; what is told of a run that is going only
   grows, and a cancellation is not taken back. *)
Final(a) == a.outcome # "still_running" \/ \E s \in Streams : a[s].as # "pending"
AnswersOnlyMoveOn ==
    [][/\ \A files \in Files : Final(ExecResult(files)) => ExecResult(files)' = ExecResult(files)
       /\ Settled => Progress' = Progress
       /\ \A s \in Streams : Progress'.bytes[s] >= Progress.bytes[s]
       /\ Progress.cancellation # "not_requested" => Progress'.cancellation # "not_requested"]_executionVars
=============================================================================
