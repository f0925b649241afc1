----------------------------- MODULE Transfers -----------------------------
(***************************************************************************)
(* The transfer buffer of the server (ssh-server/transfer.rs, disk.rs,     *)
(* local_files.rs): reservations, the bytes they are charged for, and who  *)
(* still reads or writes those bytes.                                      *)
(*                                                                         *)
(* The map of items has one mutex and every hold of it is one step.        *)
(* Between them run the handlers, which a client or a deadline can drop at *)
(* any await, and work on blocking threads, which goes on without them.    *)
(* A DiskFile lives while anything holds it; the counts of `retained` are  *)
(* written as the holders there can be.                                    *)
(***************************************************************************)
EXTENDS Naturals, FiniteSets, Functions

CONSTANTS
    References, \* identifiers of reservations: `token` never returns one twice
    Principals,
    Readers,    \* readers of completed content
    None,       \* "no such value"
    MaxItems, OwnerItems, \* MAX_ITEMS, OWNER_ITEMS
    TTL,
    MaxNow,     \* bound: the clock
    MaxAsking   \* bound: reservations that wait at once

ASSUME TransfersAssumption ==
    /\ IsFiniteSet(References)
    /\ MaxItems \in Nat /\ OwnerItems \in Nat
    /\ TTL \in Nat /\ MaxNow \in Nat /\ MaxAsking \in Nat
    /\ None \notin References

VARIABLES
    local,     \* Transfers::local: content is shared through a directory, not over HTTP
    items,     \* Transfers::items
    made,      \* references ever reserved
    asking,    \* reservations that wait for their own sweep: what it still has to clean
    sinks,     \* references whose Destination is alive
    receiving, \* how far the bytes of a reference have come
    caller,    \* receivers that somebody still waits for
    writing,   \* references one block of which is being written
    cleaner,   \* what the cleanup workers have taken from their items
    published, \* references with a file in the shared directory
    readers,   \* what each reader reads
    now        \* Clock

storeVars == <<items, made, asking, cleaner>>
diskVars == <<receiving, caller, writing, published>>
transferVars == <<local, storeVars, sinks, diskVars, readers, now>>

Item == [owner : Principals, upload : BOOLEAN, created : 0 .. MaxNow,
         content : {"pending", "receiving", "ready"}, active : BOOLEAN, file : BOOLEAN,
         ticket : {"due", "live", "none"}, cleaning : BOOLEAN, withdrawn : BOOLEAN]

Request == [owner : Principals, upload : BOOLEAN]

(* What a cleanup worker owns: the DiskFile, the published file, the content. *)
Taken == [active : BOOLEAN, file : BOOLEAN, content : {"pending", "ready"}]

(* `owed` is what the end of this use releases: a reader of uploaded content when
   it was placed, a delivery when all was sent, of any other content. *)
Reader == [of : References, use : {"delivery", "source", "copy"}, owed : BOOLEAN,
           at : {"reading", "sent", "ended", "copied", "placed"}]

-----------------------------------------------------------------------------
(* Helpers *)

Held == DOMAIN items
Expired(id) == now >= items[id].created + TTL
Is(id, content) == items[id].content = content
Without(f, id) == Restrict(f, DOMAIN f \ {id})
With(f, id, value) == [i \in DOMAIN f \cup {id} |-> IF i = id THEN value ELSE f[i]]

(* Somebody but its item holds the content, or the file it is received into. *)
ReadBy(id) == {r \in Readers : readers[r] # None /\ readers[r].of = id /\ readers[r].at \in {"reading", "sent", "ended"}}
Read(id) == ReadBy(id) # {}
Filling(id) == writing[id] \/ receiving[id] \in {"writing", "publishing", "published"}

(* retained.  Mutant: the holders of a file still being written are not counted. *)
Retained_Unfinished(id) ==
    \/ ~items[id].withdrawn /\ ~Expired(id)
    \/ Is(id, "receiving")
    \/ Is(id, "ready") /\ Read(id)

Retained(id) ==
    \/ ~items[id].withdrawn /\ ~Expired(id)
    \/ Is(id, "receiving")
    \/ items[id].active /\ Filling(id)
    \/ Is(id, "ready") /\ Read(id)

Sweepable == {id \in Held : ~items[id].cleaning /\ ~Retained(id)}

(* The first hold of sweep: what nothing retains passes to a worker. *)
Swept(batch) ==
    /\ cleaner' = [id \in DOMAIN cleaner \cup batch |->
                      IF id \in batch
                      THEN [active |-> items[id].active, file |-> items[id].file, content |-> items[id].content]
                      ELSE cleaner[id]]
    /\ items' = [id \in Held |->
                      IF id \in batch
                      THEN [items[id] EXCEPT !.cleaning = TRUE, !.active = FALSE, !.file = FALSE,
                                             !.content = "pending"]
                      ELSE items[id]]

(* owned, and its content there. *)
Usable(id) == id \in Held /\ ~items[id].cleaning /\ ~items[id].withdrawn /\ ~Expired(id)
Owned(p, id) == Usable(id) /\ items[id].owner = p

(* abandon.  Mutants: the reference stays usable; completed content is withdrawn. *)
Abandoned_Reusable(id) ==
    IF id \notin Held \/ Is(id, "ready") THEN items
    ELSE IF ~items[id].active /\ ~items[id].cleaning THEN Without(items, id)
    ELSE [items EXCEPT ![id].content = "pending"]

Abandoned_Completed(id) ==
    IF id \notin Held THEN items
    ELSE IF Is(id, "ready") THEN [items EXCEPT ![id].withdrawn = TRUE]
    ELSE IF ~items[id].active /\ ~items[id].cleaning THEN Without(items, id)
    ELSE [items EXCEPT ![id].content = "pending", ![id].withdrawn = TRUE]

Abandoned(id) ==
    IF id \notin Held \/ Is(id, "ready") THEN items
    ELSE IF ~items[id].active /\ ~items[id].cleaning THEN Without(items, id)
    ELSE [items EXCEPT ![id].content = "pending", ![id].withdrawn = TRUE]

(* withdraw_delivered *)
WithdrawDelivered(id) ==
    IF id \in Held /\ Is(id, "ready") THEN [items EXCEPT ![id].withdrawn = TRUE] ELSE items

-----------------------------------------------------------------------------
(* Reservations: reserve, authorize_upload, authorize_download, destination *)

(* reserve sweeps before it looks at the capacity, and waits for that sweep. *)
Ask(request) ==
    /\ request.upload => ~local
    /\ request \notin DOMAIN asking
    /\ Cardinality(DOMAIN asking) < MaxAsking
    /\ Swept(Sweepable)
    /\ asking' = With(asking, request, Sweepable)
    /\ UNCHANGED <<local, made, sinks, diskVars, readers, now>>

Room(owner) ==
    /\ Cardinality(Held) < MaxItems
    /\ Cardinality({id \in Held : items[id].owner = owner}) < OwnerItems

Fresh(request) ==
    [owner |-> request.owner, upload |-> request.upload, created |-> now, content |-> "pending",
     active |-> FALSE, file |-> FALSE, ticket |-> IF request.upload THEN "due" ELSE "none",
     cleaning |-> FALSE, withdrawn |-> FALSE]

Reserve(request, id) ==
    /\ request \in DOMAIN asking
    /\ asking[request] = {}
    /\ Room(request.owner)
    /\ id \notin made
    /\ items' = With(items, id, Fresh(request))
    /\ made' = made \cup {id}
    /\ asking' = Without(asking, request)
    /\ sinks' = IF request.upload THEN sinks ELSE sinks \cup {id}
    /\ UNCHANGED <<local, cleaner, diskVars, readers, now>>

(* TransferError::Capacity; or the caller of the reservation has gone. *)
NotReserved(request) ==
    /\ request \in DOMAIN asking
    /\ asking' = Without(asking, request)
    /\ UNCHANGED <<local, items, made, cleaner, sinks, diskVars, readers, now>>

(* The second hold of authorize_upload. *)
IssueUpload(id) ==
    /\ id \in Held
    /\ items[id].ticket = "due"
    /\ items' = [items EXCEPT ![id].ticket = "live"]
    /\ UNCHANGED <<local, made, asking, cleaner, sinks, diskVars, readers, now>>

(* authorize_download: a new ticket takes the place of an old one. *)
AuthorizeDownload(p, id) ==
    /\ ~local
    /\ Owned(p, id)
    /\ Is(id, "ready")
    /\ items' = [items EXCEPT ![id].ticket = "live"]
    /\ UNCHANGED <<local, made, asking, cleaner, sinks, diskVars, readers, now>>

-----------------------------------------------------------------------------
(* Receiving *)

Began(id) ==
    /\ receiving' = [receiving EXCEPT ![id] = "allocating"]
    /\ caller' = caller \cup {id}
    /\ UNCHANGED <<local, made, asking, cleaner, sinks, writing, published, readers, now>>

(* upload: the ticket is spent before a byte is read. *)
TakeUploadTicket(id) ==
    /\ Usable(id)
    /\ items[id].ticket = "live"
    /\ Is(id, "pending") /\ items[id].upload
    /\ items' = [items EXCEPT ![id].ticket = "none", ![id].content = "receiving"]
    /\ Began(id)

(* Destination::receive *)
ReceiveDestination(id) ==
    /\ id \in sinks
    /\ id \notin caller
    /\ Usable(id)
    /\ Is(id, "pending") /\ ~items[id].upload
    /\ items' = [items EXCEPT ![id].content = "receiving"]
    /\ Began(id)

Allocated(id) ==
    /\ id \in caller
    /\ receiving[id] = "allocating"
    /\ id \in Held /\ Is(id, "receiving")
    /\ items' = [items EXCEPT ![id].active = TRUE]
    /\ receiving' = [receiving EXCEPT ![id] = "writing"]
    /\ UNCHANGED <<local, made, asking, cleaner, sinks, caller, writing, published, readers, now>>

(* A block goes to a blocking thread, which holds the file until it is written. *)
WriteBlock(id) ==
    /\ id \in caller
    /\ receiving[id] = "writing"
    /\ ~writing[id]
    /\ writing' = [writing EXCEPT ![id] = TRUE]
    /\ UNCHANGED <<local, storeVars, sinks, receiving, caller, published, readers, now>>

BlockWritten(id) ==
    /\ writing[id]
    /\ writing' = [writing EXCEPT ![id] = FALSE]
    /\ UNCHANGED <<local, storeVars, sinks, receiving, caller, published, readers, now>>

(* The bytes are complete and are what was declared; the rest is one blocking
   task which outlives the caller. *)
Received(id) ==
    /\ id \in caller
    /\ receiving[id] = "writing"
    /\ ~writing[id]
    /\ id \in Held
    /\ receiving' = [receiving EXCEPT ![id] = "publishing"]
    /\ UNCHANGED <<local, storeVars, sinks, caller, writing, published, readers, now>>

Publish(id) ==
    /\ receiving[id] = "publishing"
    /\ local
    /\ receiving' = [receiving EXCEPT ![id] = "published"]
    /\ published' = published \cup {id}
    /\ UNCHANGED <<local, storeVars, sinks, caller, writing, readers, now>>

NotPublished(id) ==
    /\ receiving[id] = "publishing"
    /\ local
    /\ receiving' = [receiving EXCEPT ![id] = "over"]
    /\ UNCHANGED <<local, storeVars, sinks, caller, writing, published, readers, now>>

(* Item::complete: the published file is noted even when the rest is refused. *)
Completed(id) ==
    IF Is(id, "receiving")
    THEN [items EXCEPT ![id].file = local, ![id].content = "ready", ![id].active = FALSE, ![id].created = now]
    ELSE [items EXCEPT ![id].file = local]

Complete(id) ==
    /\ receiving[id] = IF local THEN "published" ELSE "publishing"
    /\ receiving' = [receiving EXCEPT ![id] = "over"]
    /\ IF id \in Held
       THEN items' = Completed(id) /\ UNCHANGED published
       ELSE published' = published \ {id} /\ UNCHANGED items
    /\ UNCHANGED <<local, made, asking, cleaner, sinks, caller, writing, readers, now>>

(* The receiving future ends, with an answer of its own or dropped by a deadline,
   a cancellation or a client: its guard, Receiving, abandons what is not ready.
   What a blocking thread has in hand goes on. *)
StopReceiving(id) ==
    /\ id \in caller
    /\ caller' = caller \ {id}
    /\ receiving' = [receiving EXCEPT ![id] = IF @ \in {"allocating", "writing"} THEN "over" ELSE @]
    /\ items' = Abandoned(id)
    /\ UNCHANGED <<local, made, asking, cleaner, sinks, writing, published, readers, now>>

DropDestination(id) ==
    /\ id \in sinks
    /\ id \notin caller
    /\ sinks' = sinks \ {id}
    /\ items' = Abandoned(id)
    /\ UNCHANGED <<local, made, asking, cleaner, diskVars, readers, now>>

-----------------------------------------------------------------------------
(* Reading: input, download *)

Opened(r, id, use, owed) ==
    /\ readers[r] = None
    /\ readers' = [readers EXCEPT ![r] = [of |-> id, use |-> use, owed |-> owed, at |-> "reading"]]
    /\ UNCHANGED <<local, made, asking, cleaner, sinks, diskVars, now>>

(* download: a body that streams the content. *)
TakeDownloadTicket(r, id) ==
    /\ Usable(id)
    /\ items[id].ticket = "live"
    /\ Is(id, "ready")
    /\ items' = [items EXCEPT ![id].ticket = "none"]
    /\ Opened(r, id, "delivery", ~items[id].upload)

(* input over HTTP.  Mutant: every use as a source releases, so content that is
   owed to its caller goes with it. *)
OpenSource_ReleasesAll(r, p, id) ==
    /\ ~local
    /\ Owned(p, id)
    /\ Is(id, "ready")
    /\ UNCHANGED items
    /\ Opened(r, id, "source", TRUE)

OpenSource(r, p, id) ==
    /\ ~local
    /\ Owned(p, id)
    /\ Is(id, "ready")
    /\ UNCHANGED items
    /\ Opened(r, id, "source", items[id].upload)

(* input of a local output: local_source pins the content and does not look at
   `withdrawn`; read_pinned copies it to a file of its own. *)
PinLocal(r, id) ==
    /\ local
    /\ id \in Held
    /\ ~items[id].cleaning /\ ~Expired(id)
    /\ Is(id, "ready")
    /\ UNCHANGED items
    /\ Opened(r, id, "copy", FALSE)

Move(r, from, to) ==
    /\ readers[r] # None /\ readers[r].at = from
    /\ readers' = [readers EXCEPT ![r].at = to]

LocalCopied(r) ==
    /\ Move(r, "reading", "copied")
    /\ readers[r].use = "copy"
    /\ UNCHANGED <<local, storeVars, sinks, diskVars, now>>

SentAll(r) ==
    /\ Move(r, "reading", "sent")
    /\ readers[r].use = "delivery"
    /\ UNCHANGED <<local, storeVars, sinks, diskVars, now>>

(* The poll after the last byte releases; the body is dropped later, or earlier. *)
EndDelivery(r) ==
    /\ Move(r, "sent", "ended")
    /\ items' = IF readers[r].owed THEN WithdrawDelivered(readers[r].of) ELSE items
    /\ UNCHANGED <<local, made, asking, cleaner, sinks, diskVars, now>>

DropDelivery(r) ==
    /\ readers[r] # None /\ readers[r].use = "delivery"
    /\ readers' = [readers EXCEPT ![r] = None]
    /\ UNCHANGED <<local, storeVars, sinks, diskVars, now>>

(* An input that is not placed: refused, failed, or its caller gone. *)
DropInput(r) ==
    /\ readers[r] # None /\ readers[r].use # "delivery"
    /\ readers[r].at # "placed"
    /\ readers' = [readers EXCEPT ![r] = None]
    /\ UNCHANGED <<local, storeVars, sinks, diskVars, now>>

(* PreparedUpload::succeeded: the reader is closed, and then the release runs. *)
Placed(r) ==
    /\ \/ Move(r, "reading", "placed") /\ readers[r].use = "source"
       \/ Move(r, "copied", "placed")
    /\ UNCHANGED <<local, storeVars, sinks, diskVars, now>>

Release(r) ==
    /\ readers[r] # None /\ readers[r].at = "placed"
    /\ readers' = [readers EXCEPT ![r] = None]
    /\ items' = IF readers[r].owed THEN WithdrawDelivered(readers[r].of) ELSE items
    /\ UNCHANGED <<local, made, asking, cleaner, sinks, diskVars, now>>

-----------------------------------------------------------------------------
(* sweep: the housekeeping loop, a metrics read, the end of an upload *)

Sweep ==
    /\ Sweepable # {}
    /\ Swept(Sweepable)
    /\ UNCHANGED <<local, made, asking, sinks, diskVars, readers, now>>

Awaited(id) == asking' = [request \in DOMAIN asking |-> asking[request] \ {id}]

(* Both files are gone, and then the reservation. *)
Cleaned(id) ==
    /\ id \in DOMAIN cleaner
    /\ cleaner' = Without(cleaner, id)
    /\ published' = IF cleaner[id].file THEN published \ {id} ELSE published
    /\ items' = Without(items, id)
    /\ Awaited(id)
    /\ UNCHANGED <<local, made, sinks, receiving, caller, writing, readers, now>>

(* A name could not be removed: everything goes back, for the next sweep. *)
NotCleaned(id) ==
    /\ id \in DOMAIN cleaner
    /\ local
    /\ cleaner[id].active \/ cleaner[id].file
    /\ cleaner' = Without(cleaner, id)
    /\ items' = IF id \in Held
                THEN [items EXCEPT ![id].active = cleaner[id].active, ![id].file = cleaner[id].file,
                                   ![id].content = cleaner[id].content, ![id].cleaning = FALSE]
                ELSE items
    /\ Awaited(id)
    /\ UNCHANGED <<local, made, sinks, diskVars, readers, now>>

Tick ==
    /\ now < MaxNow
    /\ now' = now + 1
    /\ UNCHANGED <<local, storeVars, sinks, diskVars, readers>>

-----------------------------------------------------------------------------
(* Specification *)

TransfersInit ==
    /\ local \in BOOLEAN
    /\ items = <<>> /\ made = {} /\ asking = <<>> /\ cleaner = <<>>
    /\ sinks = {}
    /\ receiving = [id \in References |-> "none"]
    /\ caller = {}
    /\ writing = [id \in References |-> FALSE]
    /\ published = {}
    /\ readers = [r \in Readers |-> None]
    /\ now = 0

Reserving ==
    \/ \E request \in Request :
          \/ Ask(request)
          \/ NotReserved(request)
          \/ \E id \in References : Reserve(request, id)
    \/ \E id \in References :
          \/ IssueUpload(id)
          \/ \E p \in Principals : AuthorizeDownload(p, id)

Receiving ==
    \E id \in References :
        \/ TakeUploadTicket(id) \/ ReceiveDestination(id)
        \/ Allocated(id) \/ WriteBlock(id) \/ BlockWritten(id) \/ Received(id)
        \/ Publish(id) \/ NotPublished(id) \/ Complete(id)
        \/ StopReceiving(id) \/ DropDestination(id)

Delivering ==
    \E r \in Readers :
        \/ \E id \in References : TakeDownloadTicket(r, id)
        \/ SentAll(r) \/ EndDelivery(r) \/ DropDelivery(r)

Preparing ==
    \E r \in Readers :
        \/ \E id \in References :
              \/ \E p \in Principals : OpenSource(r, p, id)
              \/ PinLocal(r, id)
        \/ LocalCopied(r)

Sweeping == Sweep \/ \E id \in References : Cleaned(id) \/ NotCleaned(id)

(* How an input is used, and so how it ends, is in module Uploads. *)
TransfersNext == Reserving \/ Receiving \/ Delivering \/ Preparing \/ Sweeping \/ Tick
=============================================================================
