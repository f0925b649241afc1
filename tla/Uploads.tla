------------------------------ MODULE Uploads ------------------------------
(***************************************************************************)
(* Uploads to a target: the run that carries one out (ssh-core/run.rs:     *)
(* transfer, supervise_transfer), the writing over SFTP, in place          *)
(* (files.rs: upload) or through a staging file and a rename               *)
(* (files/staged.rs), and the source it takes from module Transfers and    *)
(* releases there.                                                         *)
(*                                                                         *)
(* The run is named by the reader of its source.  A request on the wire    *)
(* can be served, refused, or lost with its connection, and a target may   *)
(* serve it although nobody waits any more.                                *)
(***************************************************************************)
EXTENDS Transfers

CONSTANT Runs \* bound: the readers that uploads take

ASSUME UploadsAssumption == Runs \subseteq Readers

VARIABLE uploads \* the run of each source, and its two paths on the target

uploadVars == <<transferVars, uploads>>

(* Failure: "RemoteIo" stands for every way a request can be refused (NotFound,
   PermissionDenied, SymbolicLink, SftpUnavailable, RemoteIo), "TimedOut" for every
   way the work is ended from outside (TimedOut, Cancelled, WorkerStopped). *)
Failures == {"RemoteIo", "TimedOut", "UnsupportedOperation", "ReplacementUnknown", "StagingCleanupFailed"}

(* `replacement` is the flag the supervisor keeps; `asked` and `reply` the request
   on the wire and what came back; `result` what the work returned; `outcome` what
   the record of the run says. *)
Upload == [staged : BOOLEAN, pc : {"preparing", "opening", "writing", "renaming", "cleaning", "over"},
           replacement : BOOLEAN,
           asked : {"none", "open", "write", "rename", "remove"}, reply : {"none", "ok", "refused"},
           target : {"before", "partial", "new"}, stage : BOOLEAN,
           result : Failures \cup {"none", "ok"}, outcome : Failures \cup {"running", "exited"}]

-----------------------------------------------------------------------------
(* Helpers *)

At(r, pc) == uploads[r] # None /\ uploads[r].pc = pc
Answered(r, pc, reply) == At(r, pc) /\ uploads[r].reply = reply
Set(r, fields) == uploads' = [uploads EXCEPT ![r] = fields]

(* The work fails: its input goes with it. *)
Fails(r, cause) ==
    /\ Set(r, [uploads[r] EXCEPT !.pc = "over", !.result = cause, !.reply = "none"])
    /\ DropInput(r)

Goes(r, pc, request) ==
    /\ Set(r, [uploads[r] EXCEPT !.pc = pc, !.asked = request, !.reply = "none"])
    /\ UNCHANGED transferVars

(* A failure after the staging file was opened: remove it, and say why. *)
CleansUp(r, cause) ==
    /\ Set(r, [uploads[r] EXCEPT !.pc = "cleaning", !.asked = "remove", !.reply = "none",
                                 !.result = cause, !.replacement = FALSE])
    /\ UNCHANGED transferVars

-----------------------------------------------------------------------------
(* The target *)

Carried(u) ==
    CASE u.asked = "open" -> IF u.staged THEN [u EXCEPT !.stage = TRUE] ELSE [u EXCEPT !.target = "partial"]
      [] u.asked = "write" -> IF u.staged THEN u ELSE [u EXCEPT !.target = "new"]
      [] u.asked = "rename" -> [u EXCEPT !.target = "new", !.stage = FALSE]
      [] u.asked = "remove" -> [u EXCEPT !.stage = FALSE]
      [] OTHER -> u

Served(r) ==
    /\ uploads[r] # None /\ uploads[r].asked # "none"
    /\ Set(r, [Carried(uploads[r]) EXCEPT !.asked = "none", !.reply = IF At(r, "over") THEN "none" ELSE "ok"])
    /\ UNCHANGED transferVars

Refused(r) ==
    /\ uploads[r] # None /\ uploads[r].asked # "none"
    /\ Set(r, [uploads[r] EXCEPT !.asked = "none", !.reply = IF At(r, "over") THEN "none" ELSE "refused"])
    /\ UNCHANGED transferVars

-----------------------------------------------------------------------------
(* The work: upload_with_staging *)

(* Authorized and registered, with a source that was prepared before. *)
Begin(r, staged) ==
    /\ r \in Runs
    /\ uploads[r] = None
    /\ readers[r] # None
    /\ \/ readers[r].use = "source" /\ readers[r].at = "reading"
       \/ readers[r].at = "copied"
    /\ Set(r, [staged |-> staged, pc |-> "preparing", replacement |-> FALSE, asked |-> "none", reply |-> "none",
               target |-> "before", stage |-> FALSE, result |-> "none", outcome |-> "running"])
    /\ UNCHANGED transferVars

(* A source nobody places: the call was refused, or never came. *)
Discard(r) ==
    /\ uploads[r] # None => uploads[r].outcome # "running"
    /\ DropInput(r)
    /\ UNCHANGED uploads

(* Nothing asked of the target so far changes anything there. *)
FailEarly(r, cause) ==
    /\ At(r, "preparing")
    /\ cause = "UnsupportedOperation" => uploads[r].staged
    /\ Fails(r, cause)

Open(r) == At(r, "preparing") /\ Goes(r, "opening", "open")

(* A refused open, or one whose answer is lost, leaves nothing to clean up, as far
   as the work can tell. *)
OpenFails(r) == At(r, "opening") /\ uploads[r].reply # "ok" /\ Fails(r, "RemoteIo")

Write(r) == Answered(r, "opening", "ok") /\ Goes(r, "writing", "write")

(* The limits of the peer leave no room for a byte: found out after the open. *)
NoRoomToWrite(r) ==
    /\ Answered(r, "opening", "ok")
    /\ uploads[r].staged
    /\ CleansUp(r, "UnsupportedOperation")

WriteFails(r) ==
    /\ At(r, "writing") /\ uploads[r].reply # "ok"
    /\ IF uploads[r].staged THEN CleansUp(r, "RemoteIo") ELSE Fails(r, "RemoteIo")

(* The flag is up before the request is out.  Mutant: with its answer. *)
Rename_FlagsLate(r) ==
    /\ Answered(r, "writing", "ok")
    /\ uploads[r].staged
    /\ Set(r, [uploads[r] EXCEPT !.pc = "renaming", !.asked = "rename", !.reply = "none"])
    /\ UNCHANGED transferVars

Rename(r) ==
    /\ Answered(r, "writing", "ok")
    /\ uploads[r].staged
    /\ Set(r, [uploads[r] EXCEPT !.pc = "renaming", !.asked = "rename", !.reply = "none", !.replacement = TRUE])
    /\ UNCHANGED transferVars

RenameRefused(r) == Answered(r, "renaming", "refused") /\ CleansUp(r, "RemoteIo")

RenameLost(r) == At(r, "renaming") /\ uploads[r].reply # "refused" /\ Fails(r, "ReplacementUnknown")

Succeed(r) ==
    /\ Answered(r, IF uploads[r] # None /\ uploads[r].staged THEN "renaming" ELSE "writing", "ok")
    /\ Set(r, [uploads[r] EXCEPT !.pc = "over", !.result = "ok", !.reply = "none"])
    /\ UNCHANGED transferVars

(* The cause is told when the removal is confirmed. *)
Clean(r) ==
    /\ At(r, "cleaning")
    /\ Fails(r, IF uploads[r].reply = "ok" THEN uploads[r].result ELSE "StagingCleanupFailed")

-----------------------------------------------------------------------------
(* The supervision: Runs::transfer, supervise_transfer *)

(* The deadline, a cancellation or a panic ends the work wherever it is, even when
   it has returned and nobody has looked; its input goes with it. *)
Interrupt(r) ==
    /\ uploads[r] # None /\ uploads[r].outcome = "running"
    /\ IF At(r, "over") /\ uploads[r].result # "ok"
       THEN Set(r, [uploads[r] EXCEPT !.result = "TimedOut"]) /\ UNCHANGED transferVars
       ELSE readers[r].at # "placed" /\ Fails(r, "TimedOut")

(* A failure with the flag up is none of its cause's making. *)
Told(u) == IF u.replacement THEN "ReplacementUnknown" ELSE u.result

SettleFailed(r) ==
    /\ At(r, "over")
    /\ uploads[r].outcome = "running" /\ uploads[r].result \in Failures
    /\ Set(r, [uploads[r] EXCEPT !.outcome = Told(uploads[r]), !.result = "none", !.replacement = FALSE])
    /\ UNCHANGED transferVars

(* Only now is the source closed and released, then the run recorded. *)
SettlePlaced(r) ==
    /\ At(r, "over")
    /\ uploads[r].outcome = "running" /\ uploads[r].result = "ok"
    /\ Placed(r)
    /\ UNCHANGED uploads

SettleReleased(r) ==
    /\ At(r, "over")
    /\ Release(r)
    /\ Set(r, [uploads[r] EXCEPT !.outcome = "exited", !.result = "none", !.replacement = FALSE])

-----------------------------------------------------------------------------
(* Specification *)

Init == TransfersInit /\ uploads = [r \in Readers |-> None]

Placing(r) ==
    \/ Begin(r, TRUE) \/ Begin(r, FALSE) \/ Discard(r)
    \/ FailEarly(r, "RemoteIo") \/ FailEarly(r, "UnsupportedOperation")
    \/ Open(r) \/ OpenFails(r) \/ Write(r) \/ NoRoomToWrite(r) \/ WriteFails(r)
    \/ Rename(r) \/ RenameRefused(r) \/ RenameLost(r) \/ Succeed(r) \/ Clean(r)
    \/ Interrupt(r) \/ SettleFailed(r) \/ SettlePlaced(r) \/ SettleReleased(r)

Next ==
    \/ TransfersNext /\ UNCHANGED uploads
    \/ \E r \in Readers : Served(r) \/ Refused(r) \/ Placing(r)

Spec == Init /\ [][Next]_uploadVars

-----------------------------------------------------------------------------
(* Properties *)

TypeOK ==
    /\ local \in BOOLEAN
    /\ items \in [Held -> Item] /\ Held \subseteq made /\ made \subseteq References
    /\ asking \in [DOMAIN asking -> SUBSET References] /\ DOMAIN asking \subseteq Request
    /\ cleaner \in [DOMAIN cleaner -> Taken] /\ DOMAIN cleaner \subseteq References
    /\ sinks \subseteq made /\ published \subseteq made /\ caller \subseteq made
    /\ receiving \in [References -> {"none", "allocating", "writing", "publishing", "published", "over"}]
    /\ writing \in [References -> BOOLEAN]
    /\ readers \in [Readers -> Reader \cup {None}]
    /\ now \in 0 .. MaxNow
    /\ uploads \in [Readers -> Upload \cup {None}]

(* Bytes on disk belong to a reservation, and so count against MAX_ITEMS:
   transfer.rs, "Every reserved item is charged at the full byte ceiling,
   including in-flight uploads and downloads".  Files that are being written by a
   thread nobody waits for, read after their reference was withdrawn, published
   when their receiver had gone, or that could not be removed are all still
   charged. *)
Stored(id) ==
    \/ Filling(id) \/ Read(id) \/ id \in published
    \/ id \in DOMAIN cleaner /\ (cleaner[id].active \/ cleaner[id].content = "ready")

StorageIsCharged == \A id \in References : Stored(id) => id \in Held

(* The bytes of a reference are received at most once, whatever was abandoned,
   issued again or retried. *)
ReceivedOnce ==
    [][\A id \in References :
          receiving'[id] = "allocating" /\ receiving[id] # "allocating" => receiving[id] = "none"]_uploadVars

(* No use begins of content that was withdrawn, has expired or is being removed;
   for a local output too, where `local_source` does not look at the withdrawal. *)
ReadsStartOnLive ==
    [][\A r \in Readers :
          readers[r] = None /\ readers'[r] # None
              => LET id == readers'[r].of
                 IN Usable(id) /\ Is(id, "ready") /\ (local => id \in published)]_uploadVars

(* Content in its delivery window stays usable until it has reached where it was
   going: uploaded content its place on a target, any other content its caller. *)
Owed(id) == Usable(id) /\ Is(id, "ready")

Collected(id) ==
    IF items[id].upload
    THEN \E r \in Readers : readers[r] # None /\ readers[r].of = id /\ uploads[r] # None /\ uploads[r].target = "new"
    ELSE \E r \in ReadBy(id) : readers[r].use = "delivery" /\ readers[r].at = "sent"

OwedUntilCollected ==
    [][\A id \in References :
          Owed(id) => \/ id \in Held' /\ items'[id].content = "ready" /\ ~items'[id].withdrawn
                      \/ Collected(id)]_uploadVars

(* What a run says of its target is so, and stays so: success, that the content is
   there; a failure other than ReplacementUnknown, that a staged upload has not
   replaced the file; one that "remote_write_may_be_partial" does not warn of, that
   nothing at all is left. *)
OutcomeTellsEffect ==
    \A r \in Readers :
        LET u == uploads[r]
        IN u # None =>
              /\ u.outcome = "exited" => u.target = "new"
              /\ u.staged /\ u.outcome \in Failures \ {"ReplacementUnknown"}
                    => u.target = "before" /\ u.asked # "rename"
              /\ u.outcome = "UnsupportedOperation"
                    => u.target = "before" /\ ~u.stage /\ u.asked = "none"
=============================================================================
