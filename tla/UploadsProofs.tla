--------------------------- MODULE UploadsProofs ---------------------------
(***************************************************************************)
(* Proofs about Uploads and the buffer of module Transfers, for any number *)
(* of references, readers and runs and all limits; about Inspections, for  *)
(* every directory, every path and all limits; about Output, for every     *)
(* stream however it is cut; and about Commands, for every vector.         *)
(***************************************************************************)
EXTENDS Uploads, Inspections, Output, Commands, SequenceTheorems, WellFoundedInduction, TLAPS

-----------------------------------------------------------------------------
(* The invariant of the buffer *)

(* What belongs to a reservation, in its item or in the hands of its worker. *)
ActiveOf(id) == IF items[id].cleaning THEN cleaner[id].active ELSE items[id].active
FileOf(id) == IF items[id].cleaning THEN cleaner[id].file ELSE items[id].file
ContentOf(id) == IF items[id].cleaning THEN cleaner[id].content ELSE items[id].content

StoreTypes ==
    /\ local \in BOOLEAN
    /\ items \in [Held -> Item] /\ Held \subseteq made /\ made \subseteq References
    /\ asking \in [DOMAIN asking -> SUBSET References] /\ DOMAIN asking \subseteq Request
    /\ cleaner \in [DOMAIN cleaner -> Taken] /\ DOMAIN cleaner \subseteq References
    /\ sinks \subseteq made /\ published \subseteq made /\ caller \subseteq made
    /\ receiving \in [References -> {"none", "allocating", "writing", "publishing", "published", "over"}]
    /\ writing \in [References -> BOOLEAN]
    /\ readers \in [Readers -> Reader \cup {None}]
    /\ now \in 0 .. MaxNow

(* A worker has what it is to remove from an item that waits for it. *)
Cleaning ==
    /\ \A id \in DOMAIN cleaner : id \in Held /\ items[id].cleaning
    /\ \A id \in Held : items[id].cleaning => id \in DOMAIN cleaner
    /\ \A id \in Held : items[id].cleaning => Is(id, "pending") /\ (items[id].withdrawn \/ Expired(id))

(* Who reads or writes bytes keeps their reservation. *)
Charging ==
    /\ \A id \in References : Filling(id) => id \in Held /\ items[id].active /\ ~items[id].cleaning
    /\ \A r \in Readers : \A id \in References :
          r \in ReadBy(id) => id \in Held /\ Is(id, "ready") /\ ~items[id].cleaning

(* A file in the shared directory belongs to a reservation that will remove it. *)
Publishing ==
    /\ \A id \in published :
          /\ id \in Held /\ local
          /\ ActiveOf(id) \/ ContentOf(id) = "ready"
          /\ receiving[id] = "published" \/ FileOf(id)
    /\ \A id \in References : receiving[id] = "published" => id \in published

(* The phases of receiving, and what they leave of the reservation. *)
Phases ==
    /\ \A id \in References : writing[id] => receiving[id] \in {"writing", "over"}
    /\ \A id \in References : receiving[id] # "none" => id \in made
    /\ \A id \in Held : Is(id, "receiving") => ~items[id].cleaning /\ ~items[id].withdrawn
    /\ \A id \in Held : ContentOf(id) = "pending" /\ ~items[id].withdrawn => receiving[id] = "none"

(* With a shared directory nothing is uploaded here, no ticket is issued, and what
   is ready stays until it expires. *)
Sharing ==
    local => /\ \A request \in DOMAIN asking : ~request.upload
             /\ \A id \in Held : items[id].ticket = "none"
             /\ \A r \in Readers : readers[r] # None => ~readers[r].owed
             /\ \A id \in Held :
                   ContentOf(id) = "ready"
                      => id \in published /\ (items[id].withdrawn \/ items[id].cleaning => Expired(id))

(* What the end of a use releases. *)
Owing ==
    \A r \in Readers :
        readers[r] # None =>
            /\ readers[r].of \in made
            /\ readers[r].at \in {"sent", "ended"} => readers[r].use = "delivery"
            /\ readers[r].at = "copied" => readers[r].use = "copy"
            /\ readers[r].at = "placed" => readers[r].use # "delivery"
            /\ readers[r].owed /\ readers[r].of \in Held
                  => (items[readers[r].of].upload <=> readers[r].use # "delivery")

StoreInv == StoreTypes /\ Cleaning /\ Charging /\ Publishing /\ Phases /\ Sharing /\ Owing

-----------------------------------------------------------------------------
(* The invariant of the runs *)

(* What the run has asked of the target, and what is there of it. *)
Working(u) ==
    /\ u.asked # "none" => u.reply = "none"
    /\ u.pc = "preparing" => u.asked = "none" /\ u.target = "before" /\ ~u.stage
    /\ u.pc = "opening" => u.asked \in {"none", "open"}
    /\ u.pc = "writing" => u.asked \in {"none", "write"}
    /\ u.pc = "writing" /\ u.reply = "ok" /\ ~u.staged => u.target = "new"
    /\ u.pc = "renaming" => u.asked \in {"none", "rename"} /\ u.staged /\ u.replacement
    /\ u.pc = "renaming" => u.target = IF u.reply = "ok" THEN "new" ELSE "before"
    /\ u.pc = "cleaning" => u.asked \in {"none", "remove"} /\ u.staged /\ u.result \in Failures
    /\ u.pc = "cleaning" /\ u.reply = "ok" => ~u.stage
    /\ u.pc \in {"preparing", "opening", "writing", "cleaning"} => ~u.replacement
    /\ u.pc \in {"preparing", "opening", "writing", "renaming"} => u.result = "none"
    /\ u.pc # "over" => u.outcome = "running"
    /\ u.outcome # "running" => ~u.replacement
    /\ u.pc = "over" => u.reply = "none"

(* A file that may have been replaced is told of; so is one that was not. *)
Telling(u) ==
    /\ u.staged /\ (u.target # "before" \/ u.asked = "rename")
          => u.replacement \/ u.outcome \in {"exited", "ReplacementUnknown"}
    /\ u.result = "ok" => u.pc = "over" /\ u.target = "new" /\ u.asked = "none" /\ u.outcome = "running"
    /\ u.outcome = "exited" => u.target = "new" /\ u.asked = "none"
    /\ u.pc = "over" /\ u.result = "UnsupportedOperation" /\ ~u.replacement
          => u.target = "before" /\ ~u.stage /\ u.asked = "none"
    /\ u.outcome = "UnsupportedOperation" => u.target = "before" /\ ~u.stage /\ u.asked = "none"

RunTypes == uploads \in [Readers -> Upload \cup {None}]

RunInv ==
    /\ RunTypes
    /\ \A r \in Readers : uploads[r] # None => Working(uploads[r]) /\ Telling(uploads[r])
    /\ \A r \in Readers :
          readers[r] # None /\ readers[r].at = "placed"
             => uploads[r] # None /\ uploads[r].result = "ok" /\ uploads[r].outcome = "running"

-----------------------------------------------------------------------------
(* Uses of what is ready: only readers, tickets and withdrawals change *)

(* What a step may do to the items: issue or spend tickets, and withdraw what is ready. *)
ItemsAlike ==
    /\ items' \in [Held -> Item]
    /\ \A id \in Held :
          /\ items'[id].upload = items[id].upload /\ items'[id].created = items[id].created
          /\ items'[id].content = items[id].content /\ items'[id].active = items[id].active
          /\ items'[id].file = items[id].file /\ items'[id].cleaning = items[id].cleaning
          /\ items[id].withdrawn => items'[id].withdrawn
          /\ items'[id].withdrawn /\ ~items[id].withdrawn
                => ~items[id].cleaning /\ Is(id, "ready") /\ ~local
          /\ local => items'[id].ticket = items[id].ticket

(* What a step may make of a reader. *)
Fine(r, reader) ==
    /\ reader \in Reader
    /\ reader.of \in made
    /\ reader.at \in {"reading", "sent", "ended"}
          => reader.of \in Held /\ Is(reader.of, "ready") /\ ~items[reader.of].cleaning
    /\ reader.at \in {"sent", "ended"} => reader.use = "delivery"
    /\ reader.at = "copied" => reader.use = "copy"
    /\ reader.at = "placed" => reader.use # "delivery"
    /\ reader.owed => ~local
    /\ reader.owed /\ reader.of \in Held => (items[reader.of].upload <=> reader.use # "delivery")

LEMMA ReadersAreFine ==
    ASSUME StoreInv, NEW r \in Readers, readers[r] # None
    PROVE  Fine(r, readers[r])
BY DEF StoreInv, StoreTypes, Charging, Owing, Sharing, Fine, ReadBy, Reader, Held

LEMMA UsesKeep ==
    ASSUME StoreInv, UNCHANGED <<local, made, asking, cleaner, sinks, diskVars, now>>, ItemsAlike,
           readers' \in [Readers -> Reader \cup {None}],
           \A r \in Readers : readers'[r] # None => Fine(r, readers'[r])
    PROVE  StoreInv'
<1>. /\ UNCHANGED <<local, made, asking, cleaner, sinks, receiving, caller, writing, published, now>>
     /\ StoreTypes /\ Held' = Held
  BY DEF diskVars, StoreInv, ItemsAlike, Held
<1>1. StoreTypes'
  <2>1. items' \in [Held' -> Item]
    BY DEF ItemsAlike
  <2>. QED BY <2>1 DEF StoreTypes
<1>2. Cleaning'
  BY DEF StoreInv, Cleaning, ItemsAlike, Expired, Is
<1>3. Charging'
  <2>1. \A id \in References : Filling(id)' => id \in Held' /\ items'[id].active /\ ~items'[id].cleaning
    BY DEF StoreInv, Charging, ItemsAlike, Filling
  <2>2. \A r \in Readers : \A id \in References :
            r \in ReadBy(id)' => id \in Held' /\ Is(id, "ready")' /\ ~items'[id].cleaning
    BY DEF Fine, ItemsAlike, ReadBy, Is
  <2>. QED BY <2>1, <2>2 DEF Charging
<1>4. Publishing'
  BY DEF StoreInv, Publishing, ItemsAlike, ActiveOf, FileOf, ContentOf
<1>5. Phases'
  <2>1. \A id \in Held : ContentOf(id)' = "pending" /\ ~items'[id].withdrawn => receiving'[id] = "none"
    BY DEF StoreInv, Phases, ItemsAlike, ContentOf
  <2>2. \A id \in Held : Is(id, "receiving")' => ~items'[id].cleaning /\ ~items'[id].withdrawn
    BY DEF StoreInv, Phases, ItemsAlike, Is
  <2>. QED BY <2>1, <2>2 DEF StoreInv, Phases
<1>6. Sharing'
  <2>1. ASSUME local, NEW id \in Held, ContentOf(id)' = "ready"
        PROVE  /\ id \in published'
               /\ items'[id].withdrawn \/ items'[id].cleaning => Expired(id)'
    BY <2>1 DEF StoreInv, Sharing, ItemsAlike, ContentOf, Expired
  <2>2. local => \A r \in Readers : readers'[r] # None => ~readers'[r].owed
    BY DEF Fine
  <2>. QED BY <2>1, <2>2 DEF StoreInv, Sharing, ItemsAlike
<1>7. Owing'
  BY DEF Fine, Owing, ItemsAlike
<1>. QED BY <1>1, <1>2, <1>3, <1>4, <1>5, <1>6, <1>7 DEF StoreInv

(* One reader changes, and nothing else. *)
LEMMA ReaderKeeps ==
    ASSUME StoreInv, NEW r \in Readers, NEW new, readers' = [readers EXCEPT ![r] = new],
           new = None \/ Fine(r, new), UNCHANGED <<local, storeVars, sinks, diskVars, now>>
    PROVE  StoreInv'
<1>1. ItemsAlike
  BY DEF StoreInv, StoreTypes, ItemsAlike, storeVars, Held
<1>2. /\ readers' \in [Readers -> Reader \cup {None}]
      /\ \A q \in Readers : readers'[q] # None => Fine(q, readers'[q])
  <2>1. new \in Reader \cup {None}
    BY DEF Fine
  <2>2. readers \in [Readers -> Reader \cup {None}]
    BY DEF StoreInv, StoreTypes
  <2>3. ASSUME NEW q \in Readers, q # r, readers[q] # None PROVE Fine(q, readers[q])
    BY <2>3, ReadersAreFine
  <2>. QED BY <2>1, <2>2, <2>3
<1>. QED BY <1>1, <1>2, UsesKeep DEF storeVars

(* Uses go on, or end without a release. *)
LEMMA ReadingKeeps ==
    ASSUME StoreInv, NEW r \in Readers,
           LocalCopied(r) \/ SentAll(r) \/ DropDelivery(r) \/ DropInput(r) \/ Placed(r)
    PROVE  StoreInv'
<1>1. UNCHANGED <<local, storeVars, sinks, diskVars, now>>
  BY DEF LocalCopied, SentAll, DropDelivery, DropInput, Placed
<1>2. readers[r] # None /\ readers[r] \in Reader /\ Fine(r, readers[r])
  BY ReadersAreFine DEF LocalCopied, SentAll, DropDelivery, DropInput, Placed, Move, StoreInv, StoreTypes
<1>3. CASE DropDelivery(r) \/ DropInput(r)
  BY <1>1, <1>3, ReaderKeeps DEF DropDelivery, DropInput
<1>4. CASE LocalCopied(r)
  <2>1. Fine(r, [readers[r] EXCEPT !.at = "copied"])
    BY <1>2, <1>4 DEF Fine, LocalCopied, Move, Reader
  <2>. QED BY <1>1, <1>4, <2>1, ReaderKeeps DEF LocalCopied, Move
<1>5. CASE SentAll(r)
  <2>1. Fine(r, [readers[r] EXCEPT !.at = "sent"])
    BY <1>2, <1>5 DEF Fine, SentAll, Move, Reader
  <2>. QED BY <1>1, <1>5, <2>1, ReaderKeeps DEF SentAll, Move
<1>6. CASE Placed(r)
  <2>1. Fine(r, [readers[r] EXCEPT !.at = "placed"])
    BY <1>2, <1>6 DEF Fine, Placed, Move, Reader
  <2>. QED BY <1>1, <1>6, <2>1, ReaderKeeps DEF Placed, Move
<1>. QED BY <1>3, <1>4, <1>5, <1>6

(* The ticket of one item, or its withdrawal. *)
LEMMA OneItemAlike ==
    ASSUME StoreTypes, NEW id \in Held, NEW new \in Item, items' = [items EXCEPT ![id] = new],
           new.upload = items[id].upload, new.created = items[id].created,
           new.content = items[id].content, new.active = items[id].active,
           new.file = items[id].file, new.cleaning = items[id].cleaning,
           items[id].withdrawn => new.withdrawn,
           new.withdrawn /\ ~items[id].withdrawn => ~items[id].cleaning /\ Is(id, "ready") /\ ~local,
           local => new.ticket = items[id].ticket
    PROVE  ItemsAlike
<1>1. items' \in [Held -> Item]
  BY DEF StoreTypes
<1>2. items'[id] = new /\ \A i \in Held \ {id} : items'[i] = items[i]
  BY DEF StoreTypes
<1>. QED BY <1>1, <1>2 DEF ItemsAlike

LEMMA NothingIssuedShared ==
    ASSUME StoreInv, NEW id \in Held, items[id].ticket # "none"
    PROVE  ~local
BY DEF StoreInv, StoreTypes, Sharing

LEMMA IssuingKeeps ==
    ASSUME StoreInv, NEW id \in References,
           IssueUpload(id) \/ \E p \in Principals : AuthorizeDownload(p, id)
    PROVE  StoreInv'
<1>1. /\ id \in Held /\ ~local
      /\ items' = [items EXCEPT ![id] = [items[id] EXCEPT !.ticket = "live"]]
      /\ UNCHANGED <<local, made, asking, cleaner, sinks, diskVars, readers, now>>
  BY NothingIssuedShared DEF IssueUpload, AuthorizeDownload, Owned, Usable
<1>2. [items[id] EXCEPT !.ticket = "live"] \in Item
  BY <1>1 DEF StoreInv, StoreTypes, Item
<1>3. ItemsAlike
  <2>. DEFINE new == [items[id] EXCEPT !.ticket = "live"]
  <2>1. items[id] \in Item
    BY <1>1 DEF StoreInv, StoreTypes
  <2>2. /\ new.upload = items[id].upload /\ new.created = items[id].created
        /\ new.content = items[id].content /\ new.active = items[id].active
        /\ new.file = items[id].file /\ new.cleaning = items[id].cleaning
        /\ new.withdrawn = items[id].withdrawn
    BY <2>1 DEF Item
  <2>. HIDE DEF new
  <2>. QED BY <1>1, <1>2, <2>2, OneItemAlike DEF StoreInv, new
<1>. QED BY <1>1, <1>3, UsesKeep, ReadersAreFine DEF StoreInv, StoreTypes

(* Uses begin. *)
LEMMA OpeningKeeps ==
    ASSUME StoreInv, NEW r \in Readers, NEW id \in References,
           TakeDownloadTicket(r, id) \/ PinLocal(r, id) \/ \E p \in Principals : OpenSource(r, p, id)
    PROVE  StoreInv'
<1>1. id \in Held /\ Is(id, "ready") /\ ~items[id].cleaning /\ id \in made /\ items[id] \in Item
  BY DEF TakeDownloadTicket, PinLocal, OpenSource, Owned, Usable, StoreInv, StoreTypes
<1>2. CASE TakeDownloadTicket(r, id)
  <2>. DEFINE new == [items[id] EXCEPT !.ticket = "none"]
              reader == [of |-> id, use |-> "delivery", owed |-> ~items[id].upload, at |-> "reading"]
  <2>1. /\ ~local /\ items' = [items EXCEPT ![id] = new] /\ readers' = [readers EXCEPT ![r] = reader]
        /\ UNCHANGED <<local, made, asking, cleaner, sinks, diskVars, now>>
    BY <1>1, <1>2, NothingIssuedShared DEF TakeDownloadTicket, Opened
  <2>2. /\ new \in Item
        /\ new.upload = items[id].upload /\ new.created = items[id].created
        /\ new.content = items[id].content /\ new.active = items[id].active
        /\ new.file = items[id].file /\ new.cleaning = items[id].cleaning
        /\ new.withdrawn = items[id].withdrawn
    BY <1>1 DEF Item
  <2>3. ItemsAlike
    <3>. HIDE DEF new
    <3>. QED BY <1>1, <2>1, <2>2, OneItemAlike DEF StoreInv
  <2>4. Fine(r, reader)
    BY <1>1, <2>1 DEF Fine, Reader, Item
  <2>5. /\ readers' \in [Readers -> Reader \cup {None}]
        /\ \A q \in Readers : readers'[q] # None => Fine(q, readers'[q])
    BY <2>1, <2>4, ReadersAreFine DEF StoreInv, StoreTypes, Fine
  <2>. QED BY <2>1, <2>3, <2>5, UsesKeep
<1>3. CASE PinLocal(r, id)
  <2>1. Fine(r, [of |-> id, use |-> "copy", owed |-> FALSE, at |-> "reading"])
    BY <1>1 DEF Fine, Reader
  <2>. QED BY <1>3, <2>1, ReaderKeeps DEF PinLocal, Opened, storeVars
<1>4. CASE \E p \in Principals : OpenSource(r, p, id)
  <2>1. Fine(r, [of |-> id, use |-> "source", owed |-> items[id].upload, at |-> "reading"])
    BY <1>1, <1>4 DEF Fine, Reader, Item, OpenSource
  <2>. QED BY <1>4, <2>1, ReaderKeeps DEF OpenSource, Opened, storeVars
<1>. QED BY <1>2, <1>3, <1>4

(* Uses end with a release. *)
LEMMA WithdrawingIsAlike ==
    ASSUME StoreInv, NEW id, ~local, items' = WithdrawDelivered(id)
    PROVE  ItemsAlike
<1>1. CASE id \in Held /\ Is(id, "ready") /\ ~items[id].cleaning
  <2>. DEFINE new == [items[id] EXCEPT !.withdrawn = TRUE]
  <2>1. items[id] \in Item
    BY <1>1 DEF StoreInv, StoreTypes
  <2>2. /\ new \in Item
        /\ new.upload = items[id].upload /\ new.created = items[id].created
        /\ new.content = items[id].content /\ new.active = items[id].active
        /\ new.file = items[id].file /\ new.cleaning = items[id].cleaning
        /\ new.withdrawn
    BY <2>1 DEF Item
  <2>3. items' = [items EXCEPT ![id] = new]
    BY <1>1 DEF WithdrawDelivered
  <2>. HIDE DEF new
  <2>. QED BY <1>1, <2>2, <2>3, OneItemAlike DEF StoreInv
<1>2. CASE ~(id \in Held /\ Is(id, "ready"))
  <2>1. items' = items
    BY <1>2 DEF WithdrawDelivered
  <2>. QED BY <2>1 DEF ItemsAlike, StoreInv, StoreTypes, Held
<1>3. id \in Held /\ Is(id, "ready") => ~items[id].cleaning
  BY DEF StoreInv, Cleaning, Is
<1>. QED BY <1>1, <1>2, <1>3

LEMMA ReleasingKeeps ==
    ASSUME StoreInv, NEW r \in Readers, EndDelivery(r) \/ Release(r)
    PROVE  StoreInv'
<1>1. readers[r] # None /\ readers[r] \in Reader /\ Fine(r, readers[r])
  BY ReadersAreFine DEF EndDelivery, Release, Move, StoreInv, StoreTypes
<1>2. UNCHANGED <<local, made, asking, cleaner, sinks, diskVars, now>>
  BY DEF EndDelivery, Release
<1>3. ItemsAlike
  <2>1. CASE readers[r].owed
    <3>1. ~local
      BY <1>1, <2>1 DEF Fine
    <3>2. items' = WithdrawDelivered(readers[r].of)
      BY <2>1 DEF EndDelivery, Release
    <3>. QED BY <3>1, <3>2, WithdrawingIsAlike
  <2>2. CASE ~readers[r].owed
    <3>1. items' = items
      BY <2>2 DEF EndDelivery, Release
    <3>. QED BY <3>1 DEF ItemsAlike, StoreInv, StoreTypes, Held
  <2>. QED BY <2>1, <2>2
<1>4. /\ readers' \in [Readers -> Reader \cup {None}]
      /\ \A q \in Readers : readers'[q] # None => Fine(q, readers'[q])
  <2>1. CASE EndDelivery(r)
    <3>1. Fine(r, [readers[r] EXCEPT !.at = "ended"])
      BY <1>1, <2>1 DEF Fine, EndDelivery, Move, Reader
    <3>. QED BY <2>1, <3>1, ReadersAreFine DEF StoreInv, StoreTypes, EndDelivery, Move, Fine
  <2>2. CASE Release(r)
    BY <2>2, ReadersAreFine DEF StoreInv, StoreTypes, Release
  <2>. QED BY <2>1, <2>2
<1>. QED BY <1>2, <1>3, <1>4, UsesKeep

-----------------------------------------------------------------------------
(* Receiving *)

(* Receiving begins. *)
LEMMA TakingKeeps ==
    ASSUME StoreInv, NEW id \in References, TakeUploadTicket(id) \/ ReceiveDestination(id)
    PROVE  StoreInv'
<1>1. /\ id \in Held /\ id \in made /\ ~items[id].cleaning /\ ~items[id].withdrawn /\ Is(id, "pending")
      /\ items[id] \in Item
      /\ receiving' = [receiving EXCEPT ![id] = "allocating"] /\ caller' = caller \cup {id}
      /\ UNCHANGED <<local, made, asking, cleaner, sinks, writing, published, readers, now>>
  BY DEF TakeUploadTicket, ReceiveDestination, Usable, Began, StoreInv, StoreTypes
<1>2. /\ items'[id].content = "receiving" /\ items'[id] \in Item
      /\ items'[id].upload = items[id].upload /\ items'[id].created = items[id].created
      /\ items'[id].active = items[id].active /\ items'[id].file = items[id].file
      /\ ~items'[id].cleaning /\ ~items'[id].withdrawn
      /\ items'[id].ticket \in {items[id].ticket, "none"}
  BY <1>1 DEF TakeUploadTicket, ReceiveDestination, StoreInv, StoreTypes, Item
<1>3. items' \in [Held -> Item] /\ \A i \in Held \ {id} : items'[i] = items[i]
  BY <1>1, <1>2 DEF TakeUploadTicket, ReceiveDestination, StoreInv, StoreTypes
<1>4. Held' = Held
  BY <1>3 DEF Held
<1>5. receiving[id] = "none" /\ \A i \in References \ {id} : receiving'[i] = receiving[i]
  BY <1>1 DEF StoreInv, StoreTypes, Phases, ContentOf, Is
<1>6. ~Filling(id) /\ ~Filling(id)'
  BY <1>1, <1>5 DEF StoreInv, StoreTypes, Phases, Filling
<1>7. StoreTypes'
  BY <1>1, <1>3, <1>4 DEF StoreInv, StoreTypes
<1>8. Cleaning'
  BY <1>1, <1>2, <1>3, <1>4 DEF StoreInv, Cleaning, Is, Expired
<1>9. Charging'
  BY <1>1, <1>2, <1>3, <1>4, <1>5, <1>6 DEF StoreInv, Charging, Is, Filling, ReadBy
<1>10. Publishing'
  BY <1>1, <1>2, <1>3, <1>4, <1>5 DEF StoreInv, StoreTypes, Publishing, ActiveOf, FileOf, ContentOf, Is
<1>11. Phases'
  BY <1>1, <1>2, <1>3, <1>4, <1>5 DEF StoreInv, StoreTypes, Phases, ContentOf, Is
<1>12. Sharing'
  BY <1>1, <1>2, <1>3, <1>4 DEF StoreInv, Sharing, ContentOf, Expired
<1>13. Owing'
  BY <1>1, <1>2, <1>3, <1>4 DEF StoreInv, Owing
<1>. QED BY <1>7, <1>8, <1>9, <1>10, <1>11, <1>12, <1>13 DEF StoreInv

(* The file is there. *)
LEMMA AllocatedKeeps ==
    ASSUME StoreInv, NEW id \in References, Allocated(id)
    PROVE  StoreInv'
<1>1. /\ id \in Held /\ Is(id, "receiving") /\ ~items[id].cleaning /\ ~items[id].withdrawn
      /\ receiving[id] = "allocating" /\ receiving' = [receiving EXCEPT ![id] = "writing"]
      /\ items' = [items EXCEPT ![id].active = TRUE]
      /\ items[id] \in Item
      /\ UNCHANGED <<local, made, asking, cleaner, sinks, caller, writing, published, readers, now>>
  BY DEF Allocated, StoreInv, StoreTypes, Phases, Cleaning
<1>2. /\ items'[id] \in Item /\ items'[id].active
      /\ items'[id].content = items[id].content /\ items'[id].upload = items[id].upload
      /\ items'[id].created = items[id].created /\ items'[id].file = items[id].file
      /\ items'[id].cleaning = items[id].cleaning /\ items'[id].withdrawn = items[id].withdrawn
      /\ items'[id].ticket = items[id].ticket
  BY <1>1 DEF Item, StoreInv, StoreTypes
<1>3. items' \in [Held -> Item] /\ \A i \in Held \ {id} : items'[i] = items[i]
  BY <1>1, <1>2 DEF StoreInv, StoreTypes
<1>4. Held' = Held
  BY <1>3 DEF Held
<1>5. \A i \in References : receiving'[i] = IF i = id THEN "writing" ELSE receiving[i]
  BY <1>1 DEF StoreInv, StoreTypes
<1>6. StoreTypes'
  BY <1>1, <1>3, <1>4 DEF StoreInv, StoreTypes
<1>7. Cleaning'
  BY <1>1, <1>2, <1>3, <1>4 DEF StoreInv, Cleaning, Is, Expired
<1>8. Charging'
  BY <1>1, <1>2, <1>3, <1>4, <1>5 DEF StoreInv, Charging, Is, Filling, ReadBy
<1>9. Publishing'
  BY <1>1, <1>2, <1>3, <1>4, <1>5 DEF StoreInv, StoreTypes, Publishing, ActiveOf, FileOf, ContentOf, Is
<1>10. Phases'
  BY <1>1, <1>2, <1>3, <1>4, <1>5 DEF StoreInv, StoreTypes, Phases, ContentOf, Is
<1>11. Sharing'
  BY <1>1, <1>2, <1>3, <1>4 DEF StoreInv, Sharing, ContentOf, Expired
<1>12. Owing'
  BY <1>1, <1>2, <1>3, <1>4 DEF StoreInv, Owing
<1>. QED BY <1>6, <1>7, <1>8, <1>9, <1>10, <1>11, <1>12 DEF StoreInv

(* Bytes arrive, and are published or not: the items stay as they are. *)
LEMMA WritingKeeps ==
    ASSUME StoreInv, NEW id \in References,
           WriteBlock(id) \/ BlockWritten(id) \/ Received(id) \/ Publish(id) \/ NotPublished(id)
    PROVE  StoreInv'
<1>1. UNCHANGED <<local, items, made, asking, cleaner, sinks, caller, readers, now>>
  BY DEF WriteBlock, BlockWritten, Received, Publish, NotPublished, storeVars
<1>2. /\ writing' \in [References -> BOOLEAN]
      /\ receiving' \in [References -> {"none", "allocating", "writing", "publishing", "published", "over"}]
      /\ \A i \in References \ {id} : writing'[i] = writing[i] /\ receiving'[i] = receiving[i]
  BY DEF WriteBlock, BlockWritten, Received, Publish, NotPublished, StoreInv, StoreTypes
<1>3. Filling(id) /\ receiving[id] # "none"
  BY DEF WriteBlock, BlockWritten, Received, Publish, NotPublished, Filling, StoreInv, Phases
<1>4. id \in Held /\ id \in made /\ items[id].active /\ ~items[id].cleaning
  BY <1>3 DEF StoreInv, Charging, Phases
<1>5. /\ receiving'[id] # "none"
      /\ writing'[id] => receiving'[id] \in {"writing", "over"}
      /\ receiving'[id] = "published" => id \in published'
      /\ id \in published' => local /\ (receiving'[id] = "published" \/ FileOf(id))
      /\ published' \subseteq published \cup {id} /\ published \subseteq published'
  BY <1>3 DEF WriteBlock, BlockWritten, Received, Publish, NotPublished, StoreInv, StoreTypes, Phases, Publishing
<1>6. StoreTypes'
  BY <1>1, <1>2, <1>4, <1>5 DEF StoreInv, StoreTypes, Held
<1>7. Cleaning'
  BY <1>1 DEF StoreInv, Cleaning, Is, Expired, Held
<1>8. Charging'
  BY <1>1, <1>2, <1>4 DEF StoreInv, Charging, Is, Filling, ReadBy, Held
<1>9. Publishing'
  BY <1>1, <1>2, <1>4, <1>5 DEF StoreInv, StoreTypes, Publishing, ActiveOf, FileOf, ContentOf, Held
<1>10. Phases'
  BY <1>1, <1>2, <1>3, <1>4, <1>5 DEF StoreInv, StoreTypes, Phases, ContentOf, Is, Held
<1>11. Sharing'
  BY <1>1, <1>5 DEF StoreInv, Sharing, ContentOf, Expired, Held
<1>12. Owing'
  BY <1>1 DEF StoreInv, Owing, Held
<1>. QED BY <1>6, <1>7, <1>8, <1>9, <1>10, <1>11, <1>12 DEF StoreInv

(* What was received is ready, or only noted. *)
LEMMA CompleteKeeps ==
    ASSUME StoreInv, NEW id \in References, Complete(id)
    PROVE  StoreInv'
<1>1. /\ Filling(id) /\ ~writing[id] /\ receiving[id] = IF local THEN "published" ELSE "publishing"
      /\ id \in Held /\ id \in made /\ items[id].active /\ ~items[id].cleaning /\ items[id] \in Item
      /\ receiving' = [receiving EXCEPT ![id] = "over"]
      /\ items' = Completed(id)
      /\ UNCHANGED <<local, made, asking, cleaner, sinks, caller, writing, published, readers, now>>
  BY DEF Complete, Filling, StoreInv, StoreTypes, Charging, Phases
<1>2. /\ items'[id] \in Item /\ items'[id].file = local /\ ~items'[id].cleaning
      /\ items'[id].upload = items[id].upload /\ items'[id].withdrawn = items[id].withdrawn
      /\ items'[id].ticket = items[id].ticket
      /\ Is(id, "receiving") => items'[id].content = "ready"
      /\ ~Is(id, "receiving") => /\ items'[id].content = items[id].content /\ items'[id].active
                                 /\ items'[id].created = items[id].created
  BY <1>1 DEF Completed, Item, StoreInv, StoreTypes, Is
<1>3. items' \in [Held -> Item] /\ \A i \in Held \ {id} : items'[i] = items[i]
  BY <1>1, <1>2 DEF Completed, StoreInv, StoreTypes
<1>4. Held' = Held
  BY <1>3 DEF Held
<1>5. \A i \in References : receiving'[i] = IF i = id THEN "over" ELSE receiving[i]
  BY <1>1 DEF StoreInv, StoreTypes
<1>6. ~Filling(id)'
  BY <1>1, <1>5 DEF Filling
<1>7. StoreTypes'
  BY <1>1, <1>3, <1>4 DEF StoreInv, StoreTypes
<1>8. Cleaning'
  BY <1>1, <1>2, <1>3, <1>4 DEF StoreInv, Cleaning, Is, Expired
<1>9. Charging'
  <2>1. ~(\E r \in Readers : r \in ReadBy(id)) \/ Is(id, "ready")
    BY DEF StoreInv, Charging
  <2>. QED BY <1>1, <1>2, <1>3, <1>4, <1>5, <1>6, <2>1 DEF StoreInv, Charging, Is, Filling, ReadBy
<1>10. Publishing'
  BY <1>1, <1>2, <1>3, <1>4, <1>5 DEF StoreInv, StoreTypes, Publishing, ActiveOf, FileOf, ContentOf, Is
<1>11. Phases'
  BY <1>1, <1>2, <1>3, <1>4, <1>5 DEF StoreInv, StoreTypes, Phases, ContentOf, Is
<1>12. Sharing'
  <2>1. ASSUME local, NEW i \in Held, ContentOf(i)' = "ready"
        PROVE  i \in published /\ (items'[i].withdrawn \/ items'[i].cleaning => Expired(i)')
    <3>1. CASE i # id
      BY <1>1, <1>3, <2>1, <3>1 DEF StoreInv, Sharing, ContentOf, Expired
    <3>2. CASE i = id /\ Is(id, "receiving")
      BY <1>1, <1>2, <2>1, <3>2 DEF StoreInv, Phases, Publishing
    <3>3. CASE i = id /\ ~Is(id, "receiving")
      BY <1>1, <1>2, <2>1, <3>3 DEF StoreInv, Sharing, ContentOf, Expired
    <3>. QED BY <3>1, <3>2, <3>3
  <2>. QED BY <1>1, <1>2, <1>3, <1>4, <2>1 DEF StoreInv, Sharing
<1>13. Owing'
  BY <1>1, <1>2, <1>3, <1>4 DEF StoreInv, Owing
<1>. QED BY <1>7, <1>8, <1>9, <1>10, <1>11, <1>12, <1>13 DEF StoreInv

(* What abandoning leaves of the items. *)
LEMMA AbandonedItems ==
    ASSUME StoreInv, NEW id \in References, items' = Abandoned(id)
    PROVE  /\ Held' \subseteq Held /\ Held \ Held' \subseteq {id}
           /\ items' \in [Held' -> Item]
           /\ \A i \in Held' \ {id} : items'[i] = items[i]
           /\ id \in Held \ Held' => ~Is(id, "ready") /\ ~items[id].active /\ ~items[id].cleaning
           /\ id \in Held' => /\ items'[id].upload = items[id].upload /\ items'[id].created = items[id].created
                              /\ items'[id].active = items[id].active /\ items'[id].file = items[id].file
                              /\ items'[id].cleaning = items[id].cleaning
                              /\ items'[id].ticket = items[id].ticket
                              /\ Is(id, "ready") => items'[id] = items[id]
                              /\ ~Is(id, "ready")
                                    => /\ items'[id].content = "pending" /\ items'[id].withdrawn
                                       /\ items[id].active \/ items[id].cleaning
<1>. items \in [Held -> Item]
  BY DEF StoreInv, StoreTypes
<1>1. CASE id \notin Held \/ Is(id, "ready")
  <2>1. items' = items
    BY <1>1 DEF Abandoned
  <2>. QED BY <1>1, <2>1 DEF Held
<1>2. CASE id \in Held /\ ~Is(id, "ready") /\ ~items[id].active /\ ~items[id].cleaning
  <2>1. items' = [i \in Held \ {id} |-> items[i]]
    BY <1>2 DEF Abandoned, Without, Restrict, Held
  <2>2. Held' = Held \ {id}
    BY <2>1 DEF Held
  <2>. QED BY <1>2, <2>1, <2>2
<1>3. CASE id \in Held /\ ~Is(id, "ready") /\ (items[id].active \/ items[id].cleaning)
  <2>1. items' = [items EXCEPT ![id] = [items[id] EXCEPT !.content = "pending", !.withdrawn = TRUE]]
    BY <1>3 DEF Abandoned
  <2>2. items[id] \in Item /\ items'[id] = [items[id] EXCEPT !.content = "pending", !.withdrawn = TRUE]
    BY <1>3, <2>1
  <2>3. /\ items'[id] \in Item
        /\ items'[id].upload = items[id].upload /\ items'[id].created = items[id].created
        /\ items'[id].active = items[id].active /\ items'[id].file = items[id].file
        /\ items'[id].cleaning = items[id].cleaning /\ items'[id].ticket = items[id].ticket
        /\ items'[id].content = "pending" /\ items'[id].withdrawn
    BY <2>2 DEF Item
  <2>4. items' \in [Held -> Item] /\ \A i \in Held \ {id} : items'[i] = items[i]
    BY <1>3, <2>1, <2>3
  <2>5. Held' = Held
    BY <2>4 DEF Held
  <2>. QED BY <1>3, <2>3, <2>4, <2>5
<1>. QED BY <1>1, <1>2, <1>3

(* Receiving is abandoned. *)
LEMMA AbandoningKeeps ==
    ASSUME StoreInv, NEW id \in References, StopReceiving(id) \/ DropDestination(id)
    PROVE  StoreInv'
<1>1. /\ items' = Abandoned(id)
      /\ UNCHANGED <<local, made, asking, cleaner, writing, published, readers, now>>
      /\ caller' \subseteq caller /\ sinks' \subseteq sinks
  BY DEF StopReceiving, DropDestination, diskVars
<1>2. /\ receiving' \in [References -> {"none", "allocating", "writing", "publishing", "published", "over"}]
      /\ \A i \in References \ {id} : receiving'[i] = receiving[i]
      /\ receiving'[id] # receiving[id] => receiving[id] \in {"allocating", "writing"} /\ receiving'[id] = "over"
  <2>1. receiving \in [References -> {"none", "allocating", "writing", "publishing", "published", "over"}]
    BY DEF StoreInv, StoreTypes
  <2>2. CASE DropDestination(id)
    <3>1. receiving' = receiving
      BY <2>2 DEF DropDestination, diskVars
    <3>. QED BY <2>1, <3>1
  <2>3. CASE StopReceiving(id)
    <3>1. CASE receiving[id] \in {"allocating", "writing"}
      BY <2>1, <2>3, <3>1 DEF StopReceiving
    <3>2. CASE receiving[id] \notin {"allocating", "writing"}
      <4>1. receiving' = receiving
        BY <2>1, <2>3, <3>2 DEF StopReceiving
      <4>. QED BY <2>1, <4>1
    <3>. QED BY <3>1, <3>2
  <2>. QED BY <2>2, <2>3
<1>3. /\ Held' \subseteq Held /\ Held \ Held' \subseteq {id}
      /\ items' \in [Held' -> Item]
      /\ \A i \in Held' \ {id} : items'[i] = items[i]
      /\ id \in Held \ Held' => ~Is(id, "ready") /\ ~items[id].active /\ ~items[id].cleaning
  BY <1>1, AbandonedItems
<1>4. id \in Held' => /\ items'[id].upload = items[id].upload /\ items'[id].created = items[id].created
                      /\ items'[id].active = items[id].active /\ items'[id].file = items[id].file
                      /\ items'[id].cleaning = items[id].cleaning
                      /\ items'[id].ticket = items[id].ticket
                      /\ Is(id, "ready") => items'[id] = items[id]
                      /\ ~Is(id, "ready")
                            => /\ items'[id].content = "pending" /\ items'[id].withdrawn
                               /\ items[id].active \/ items[id].cleaning
  BY <1>1, AbandonedItems
<1>5. StoreTypes'
  BY <1>1, <1>2, <1>3 DEF StoreInv, StoreTypes
<1>6. Cleaning'
  BY <1>1, <1>3, <1>4 DEF StoreInv, Cleaning, Is, Expired
<1>7. Charging'
  BY <1>1, <1>2, <1>3, <1>4 DEF StoreInv, Charging, Is, Filling, ReadBy
<1>8. Publishing'
  BY <1>1, <1>2, <1>3, <1>4 DEF StoreInv, StoreTypes, Publishing, Cleaning, ActiveOf, FileOf, ContentOf, Is
<1>9. Phases'
  BY <1>1, <1>2, <1>3, <1>4 DEF StoreInv, StoreTypes, Phases, ContentOf, Is
<1>10. Sharing'
  BY <1>1, <1>3, <1>4 DEF StoreInv, Sharing, Cleaning, ContentOf, Expired, Is
<1>11. Owing'
  BY <1>1, <1>3, <1>4 DEF StoreInv, Owing
<1>. QED BY <1>5, <1>6, <1>7, <1>8, <1>9, <1>10, <1>11 DEF StoreInv

-----------------------------------------------------------------------------
(* Reservations and the clock *)

LEMMA WaitingKeeps ==
    ASSUME StoreInv, Tick \/ \E request \in Request : NotReserved(request)
    PROVE  StoreInv'
<1>1. /\ UNCHANGED <<local, items, made, cleaner, sinks, receiving, caller, writing, published, readers>>
      /\ now' \in 0 .. MaxNow /\ now' >= now
      /\ asking' \in [DOMAIN asking' -> SUBSET References] /\ DOMAIN asking' \subseteq DOMAIN asking
  <2>1. CASE Tick
    BY <2>1, TransfersAssumption DEF Tick, storeVars, diskVars, StoreInv, StoreTypes
  <2>2. ASSUME NEW request \in Request, NotReserved(request)
        PROVE  /\ asking' \in [DOMAIN asking' -> SUBSET References] /\ DOMAIN asking' \subseteq DOMAIN asking
    <3>1. asking' = [q \in DOMAIN asking \ {request} |-> asking[q]]
      BY <2>2 DEF NotReserved, Without, Restrict
    <3>2. asking \in [DOMAIN asking -> SUBSET References]
      BY DEF StoreInv, StoreTypes
    <3>. QED BY <3>1, <3>2
  <2>3. ASSUME NEW request \in Request, NotReserved(request)
        PROVE  UNCHANGED <<local, items, made, cleaner, sinks, receiving, caller, writing, published, readers, now>>
    BY <2>3 DEF NotReserved, diskVars
  <2>4. now \in 0 .. MaxNow
    BY DEF StoreInv, StoreTypes
  <2>. QED BY <2>1, <2>2, <2>3, <2>4, TransfersAssumption
<1>2. \A id \in Held : Expired(id) => Expired(id)'
  BY <1>1, TransfersAssumption DEF StoreInv, StoreTypes, Expired, Held, Item
<1>3. StoreTypes'
  BY <1>1 DEF StoreInv, StoreTypes, Held
<1>4. Cleaning'
  BY <1>1, <1>2 DEF StoreInv, Cleaning, Is, Held
<1>5. Charging'
  BY <1>1 DEF StoreInv, Charging, Is, Filling, ReadBy, Held
<1>6. Publishing'
  BY <1>1 DEF StoreInv, Publishing, ActiveOf, FileOf, ContentOf, Held
<1>7. Phases'
  BY <1>1 DEF StoreInv, Phases, ContentOf, Is, Held
<1>8. Sharing'
  BY <1>1, <1>2 DEF StoreInv, Sharing, ContentOf, Held
<1>9. Owing'
  BY <1>1 DEF StoreInv, Owing, Held
<1>. QED BY <1>3, <1>4, <1>5, <1>6, <1>7, <1>8, <1>9 DEF StoreInv

LEMMA ReserveKeeps ==
    ASSUME StoreInv, NEW request \in Request, NEW id \in References, Reserve(request, id)
    PROVE  StoreInv'
<1>1. /\ id \notin made /\ id \notin Held /\ made' = made \cup {id} /\ made' \subseteq References
      /\ UNCHANGED <<local, cleaner, receiving, caller, writing, published, readers, now>>
      /\ sinks' \subseteq sinks \cup {id}
  BY DEF Reserve, diskVars, StoreInv, StoreTypes
<1>2. /\ asking' \in [DOMAIN asking' -> SUBSET References] /\ DOMAIN asking' \subseteq DOMAIN asking
  <2>1. asking' = [q \in DOMAIN asking \ {request} |-> asking[q]]
    BY DEF Reserve, Without, Restrict
  <2>. QED BY <2>1 DEF StoreInv, StoreTypes
<1>3. Fresh(request) \in Item
  BY DEF Fresh, Request, Item, StoreInv, StoreTypes
<1>4. items' = [i \in Held \cup {id} |-> IF i = id THEN Fresh(request) ELSE items[i]]
  BY DEF Reserve, With, Held
<1>5. Held' = Held \cup {id}
  BY <1>4 DEF Held
<1>6. \A i \in Held : items'[i] = items[i]
  BY <1>1, <1>4
<1>7. items' \in [Held' -> Item]
  BY <1>3, <1>4, <1>5 DEF StoreInv, StoreTypes
<1>8. /\ items'[id].content = "pending" /\ ~items'[id].cleaning
      /\ items'[id].ticket = IF request.upload THEN "due" ELSE "none"
  BY <1>4 DEF Fresh
<1>9. receiving[id] = "none" /\ id \notin published /\ id \notin DOMAIN cleaner
  BY <1>1 DEF StoreInv, StoreTypes, Phases, Cleaning
<1>10. StoreTypes'
  BY <1>1, <1>2, <1>5, <1>7 DEF StoreInv, StoreTypes
<1>11. Cleaning'
  BY <1>1, <1>5, <1>6, <1>8, <1>9 DEF StoreInv, Cleaning, Is, Expired
<1>12. Charging'
  BY <1>1, <1>5, <1>6 DEF StoreInv, Charging, Is, Filling, ReadBy
<1>13. Publishing'
  BY <1>1, <1>5, <1>6, <1>9 DEF StoreInv, Publishing, ActiveOf, FileOf, ContentOf
<1>14. Phases'
  BY <1>1, <1>5, <1>6, <1>8, <1>9 DEF StoreInv, Phases, ContentOf, Is
<1>15. Sharing'
  <2>1. local => ~request.upload
    BY DEF Reserve, StoreInv, Sharing
  <2>2. ContentOf(id)' = "pending"
    BY <1>8 DEF ContentOf
  <2>. QED BY <1>1, <1>2, <1>5, <1>6, <1>8, <2>1, <2>2 DEF StoreInv, Sharing, ContentOf, Expired
<1>16. Owing'
  BY <1>1, <1>5, <1>6 DEF StoreInv, Owing
<1>. QED BY <1>10, <1>11, <1>12, <1>13, <1>14, <1>15, <1>16 DEF StoreInv

-----------------------------------------------------------------------------
(* Sweeps *)

(* What nothing retains: nobody reads or writes it. *)
LEMMA SweepableIsIdle ==
    ASSUME StoreInv, NEW id \in Sweepable
    PROVE  /\ id \in Held /\ id \in References /\ ~items[id].cleaning
           /\ ~Filling(id) /\ ~Is(id, "receiving")
           /\ Is(id, "ready") => \A r \in Readers : r \notin ReadBy(id)
           /\ items[id].withdrawn \/ Expired(id)
BY DEF Sweepable, Retained, Read, ReadBy, StoreInv, StoreTypes, Charging

LEMMA SweptKeeps ==
    ASSUME StoreInv, Swept(Sweepable),
           UNCHANGED <<local, made, sinks, receiving, caller, writing, published, readers, now>>,
           asking' \in [DOMAIN asking' -> SUBSET References], DOMAIN asking' \subseteq Request,
           local => \A request \in DOMAIN asking' : ~request.upload
    PROVE  StoreInv'
<1>1. Held' = Held
  BY DEF Swept, Held
<1>2. \A id \in Held \ Sweepable : items'[id] = items[id]
  BY DEF Swept
<1>3. ASSUME NEW id \in Sweepable
      PROVE  /\ items'[id] \in Item /\ items'[id].cleaning
             /\ items'[id].content = "pending"
             /\ items'[id].upload = items[id].upload /\ items'[id].created = items[id].created
             /\ items'[id].ticket = items[id].ticket /\ items'[id].withdrawn = items[id].withdrawn
  <2>1. items[id] \in Item /\ id \in Held
    BY <1>3, SweepableIsIdle DEF StoreInv, StoreTypes
  <2>2. items'[id] = [items[id] EXCEPT !.cleaning = TRUE, !.active = FALSE, !.file = FALSE, !.content = "pending"]
    BY <2>1 DEF Swept
  <2>. QED BY <2>1, <2>2 DEF Item
<1>4. items' \in [Held' -> Item]
  <2>1. \A id \in Held : items'[id] \in Item
    BY <1>2, <1>3 DEF StoreInv, StoreTypes
  <2>2. items' = [id \in Held |-> items'[id]]
    BY DEF Swept
  <2>. QED BY <1>1, <2>1, <2>2
<1>5. DOMAIN cleaner' = DOMAIN cleaner \cup Sweepable
  BY DEF Swept
<1>6. \A id \in DOMAIN cleaner \ Sweepable : cleaner'[id] = cleaner[id]
  BY DEF Swept
<1>7. ASSUME NEW id \in Sweepable
      PROVE  /\ cleaner'[id] \in Taken
             /\ cleaner'[id].active = items[id].active /\ cleaner'[id].file = items[id].file
             /\ cleaner'[id].content = items[id].content
  <2>1. items[id] \in Item /\ items[id].content # "receiving"
    BY <1>7, SweepableIsIdle DEF StoreInv, StoreTypes, Is
  <2>2. cleaner'[id] = [active |-> items[id].active, file |-> items[id].file, content |-> items[id].content]
    BY <1>7 DEF Swept
  <2>. QED BY <2>1, <2>2 DEF Item, Taken
<1>8. cleaner' \in [DOMAIN cleaner' -> Taken] /\ DOMAIN cleaner' \subseteq References
  <2>1. \A id \in DOMAIN cleaner' : cleaner'[id] \in Taken
    BY <1>5, <1>6, <1>7 DEF StoreInv, StoreTypes
  <2>2. cleaner' = [id \in DOMAIN cleaner' |-> cleaner'[id]]
    BY DEF Swept
  <2>3. DOMAIN cleaner' \subseteq References
    BY <1>5, SweepableIsIdle DEF StoreInv, StoreTypes
  <2>. QED BY <2>1, <2>2, <2>3
<1>9. StoreTypes'
  BY <1>1, <1>4, <1>8 DEF StoreInv, StoreTypes
<1>10. Cleaning'
  BY <1>1, <1>2, <1>3, <1>5, SweepableIsIdle DEF StoreInv, Cleaning, Is, Expired
<1>11. Charging'
  BY <1>1, <1>2, SweepableIsIdle DEF StoreInv, Charging, Is, Filling, ReadBy
<1>12. ASSUME NEW id \in Held
       PROVE  /\ ActiveOf(id)' = ActiveOf(id) /\ FileOf(id)' = FileOf(id) /\ ContentOf(id)' = ContentOf(id)
              /\ items'[id].withdrawn = items[id].withdrawn
  <2>1. CASE id \in Sweepable
    BY <1>3, <1>7, <2>1, SweepableIsIdle DEF ActiveOf, FileOf, ContentOf
  <2>2. CASE id \notin Sweepable
    BY <1>2, <1>6, <2>2 DEF ActiveOf, FileOf, ContentOf, StoreInv, Cleaning
  <2>. QED BY <2>1, <2>2
<1>13. Publishing'
  BY <1>1, <1>12 DEF StoreInv, Publishing
<1>14. Phases'
  <2>1. \A id \in Held : Is(id, "receiving")' => ~items'[id].cleaning /\ ~items'[id].withdrawn
    BY <1>2, <1>3 DEF StoreInv, Phases, Is
  <2>. QED BY <1>1, <1>12, <2>1 DEF StoreInv, Phases
<1>15. Sharing'
  <2>1. \A id \in Held : items'[id].ticket = items[id].ticket
    BY <1>2, <1>3
  <2>2. \A id \in Held : Expired(id)' <=> Expired(id)
    BY <1>2, <1>3 DEF Expired
  <2>3. ASSUME local, NEW id \in Held, ContentOf(id) = "ready", items'[id].withdrawn \/ items'[id].cleaning
        PROVE  Expired(id)
    BY <1>2, <1>12, <2>3, SweepableIsIdle DEF StoreInv, Sharing
  <2>. QED BY <1>1, <1>12, <2>1, <2>2, <2>3 DEF StoreInv, Sharing
<1>16. Owing'
  <2>1. \A id \in Held : items'[id].upload = items[id].upload
    BY <1>2, <1>3
  <2>. QED BY <1>1, <2>1 DEF StoreInv, Owing
<1>. QED BY <1>9, <1>10, <1>11, <1>13, <1>14, <1>15, <1>16 DEF StoreInv

LEMMA SweepingKeeps ==
    ASSUME StoreInv, Sweep \/ \E request \in Request : Ask(request)
    PROVE  StoreInv'
<1>1. CASE Sweep
  <2>1. /\ asking' = asking /\ Swept(Sweepable)
        /\ UNCHANGED <<local, made, sinks, receiving, caller, writing, published, readers, now>>
    BY <1>1 DEF Sweep, diskVars
  <2>. QED BY <2>1, SweptKeeps DEF StoreInv, StoreTypes, Sharing
<1>2. ASSUME NEW request \in Request, Ask(request) PROVE StoreInv'
  <2>1. /\ Swept(Sweepable) /\ (request.upload => ~local)
        /\ UNCHANGED <<local, made, sinks, receiving, caller, writing, published, readers, now>>
        /\ asking' = [q \in DOMAIN asking \cup {request} |-> IF q = request THEN Sweepable ELSE asking[q]]
    BY <1>2 DEF Ask, With, diskVars
  <2>2. Sweepable \subseteq References
    BY SweepableIsIdle
  <2>3. asking' \in [DOMAIN asking' -> SUBSET References] /\ DOMAIN asking' = DOMAIN asking \cup {request}
    BY <2>1, <2>2 DEF StoreInv, StoreTypes
  <2>4. local => \A q \in DOMAIN asking' : ~q.upload
    BY <2>1, <2>3 DEF StoreInv, Sharing
  <2>. QED BY <2>1, <2>3, <2>4, SweptKeeps DEF StoreInv, StoreTypes
<1>. QED BY <1>1, <1>2

LEMMA CleanedKeeps ==
    ASSUME StoreInv, NEW id \in References, Cleaned(id)
    PROVE  StoreInv'
<1>1. /\ id \in DOMAIN cleaner /\ id \in Held /\ items[id].cleaning
      /\ UNCHANGED <<local, made, sinks, receiving, caller, writing, readers, now>>
  BY DEF Cleaned, StoreInv, Cleaning
<1>2. /\ items' = [i \in Held \ {id} |-> items[i]]
      /\ cleaner' = [i \in DOMAIN cleaner \ {id} |-> cleaner[i]]
      /\ published' = IF cleaner[id].file THEN published \ {id} ELSE published
      /\ asking' = [q \in DOMAIN asking |-> asking[q] \ {id}]
  BY DEF Cleaned, Without, Restrict, Awaited, Held
<1>3. Held' = Held \ {id}
  BY <1>2 DEF Held
<1>4. id \notin published'
  BY <1>1, <1>2 DEF StoreInv, Publishing, Charging, Filling, FileOf, StoreTypes
<1>5. published' = published \ {id}
  BY <1>2, <1>4
<1>6. ~Filling(id) /\ receiving[id] # "published"
  BY <1>1 DEF StoreInv, Charging, Filling
<1>7. asking' \in [DOMAIN asking' -> SUBSET References] /\ DOMAIN asking' = DOMAIN asking
  BY <1>2 DEF StoreInv, StoreTypes
<1>8. StoreTypes'
  BY <1>1, <1>2, <1>3, <1>5, <1>7 DEF StoreInv, StoreTypes
<1>9. Cleaning'
  BY <1>1, <1>2, <1>3 DEF StoreInv, Cleaning, Is, Expired
<1>10. Charging'
  <2>1. \A r \in Readers : r \notin ReadBy(id)
    BY <1>1 DEF StoreInv, Charging
  <2>. QED BY <1>1, <1>2, <1>3, <1>6, <2>1 DEF StoreInv, Charging, Is, Filling, ReadBy
<1>11. Publishing'
  BY <1>1, <1>2, <1>3, <1>5, <1>6 DEF StoreInv, Publishing, ActiveOf, FileOf, ContentOf, Cleaning
<1>12. Phases'
  BY <1>1, <1>2, <1>3 DEF StoreInv, Phases, ContentOf, Is, Cleaning
<1>13. Sharing'
  BY <1>1, <1>2, <1>3, <1>5, <1>7 DEF StoreInv, Sharing, ContentOf, Expired, Cleaning
<1>14. Owing'
  BY <1>1, <1>2, <1>3 DEF StoreInv, Owing
<1>. QED BY <1>8, <1>9, <1>10, <1>11, <1>12, <1>13, <1>14 DEF StoreInv

LEMMA NotCleanedKeeps ==
    ASSUME StoreInv, NEW id \in References, NotCleaned(id)
    PROVE  StoreInv'
<1>1. /\ id \in DOMAIN cleaner /\ id \in Held /\ items[id].cleaning /\ items[id] \in Item
      /\ cleaner[id] \in Taken
      /\ UNCHANGED <<local, made, sinks, receiving, caller, writing, published, readers, now>>
  BY DEF NotCleaned, diskVars, StoreInv, StoreTypes, Cleaning
<1>2. /\ items' = [items EXCEPT ![id].active = cleaner[id].active, ![id].file = cleaner[id].file,
                                ![id].content = cleaner[id].content, ![id].cleaning = FALSE]
      /\ cleaner' = [i \in DOMAIN cleaner \ {id} |-> cleaner[i]]
      /\ asking' = [q \in DOMAIN asking |-> asking[q] \ {id}]
  BY <1>1 DEF NotCleaned, Without, Restrict, Awaited
<1>3. items'[id] = [items[id] EXCEPT !.active = cleaner[id].active, !.file = cleaner[id].file,
                                     !.content = cleaner[id].content, !.cleaning = FALSE]
  BY <1>1, <1>2 DEF StoreInv, StoreTypes
<1>4. /\ items'[id] \in Item
      /\ items'[id].upload = items[id].upload /\ items'[id].created = items[id].created
      /\ items'[id].ticket = items[id].ticket /\ items'[id].withdrawn = items[id].withdrawn
      /\ items'[id].active = cleaner[id].active /\ items'[id].file = cleaner[id].file
      /\ items'[id].content = cleaner[id].content /\ ~items'[id].cleaning
  BY <1>1, <1>3 DEF Item, Taken
<1>5. items' \in [Held -> Item] /\ \A i \in Held \ {id} : items'[i] = items[i]
  BY <1>1, <1>2, <1>4 DEF StoreInv, StoreTypes
<1>6. Held' = Held
  BY <1>5 DEF Held
<1>7. asking' \in [DOMAIN asking' -> SUBSET References] /\ DOMAIN asking' = DOMAIN asking
  BY <1>2 DEF StoreInv, StoreTypes
<1>8. cleaner' \in [DOMAIN cleaner' -> Taken] /\ DOMAIN cleaner' = DOMAIN cleaner \ {id}
  BY <1>2 DEF StoreInv, StoreTypes
<1>9. \A i \in Held : /\ ActiveOf(i)' = ActiveOf(i) /\ FileOf(i)' = FileOf(i) /\ ContentOf(i)' = ContentOf(i)
                      /\ items'[i].withdrawn = items[i].withdrawn
  BY <1>1, <1>2, <1>4, <1>5 DEF ActiveOf, FileOf, ContentOf, StoreInv, Cleaning
<1>10. items'[id].content # "receiving"
  BY <1>1, <1>4 DEF Taken
<1>11. StoreTypes'
  BY <1>1, <1>5, <1>6, <1>7, <1>8 DEF StoreInv, StoreTypes
<1>12. Cleaning'
  BY <1>1, <1>2, <1>4, <1>5, <1>6, <1>8 DEF StoreInv, Cleaning, Is, Expired
<1>13. Charging'
  BY <1>1, <1>4, <1>5, <1>6 DEF StoreInv, Charging, Is, Filling, ReadBy
<1>14. Publishing'
  BY <1>1, <1>6, <1>9 DEF StoreInv, Publishing
<1>15. Phases'
  <2>1. \A i \in Held : Is(i, "receiving")' => ~items'[i].cleaning /\ ~items'[i].withdrawn
    BY <1>5, <1>10 DEF StoreInv, Phases, Is
  <2>. QED BY <1>1, <1>6, <1>9, <2>1 DEF StoreInv, Phases
<1>16. Sharing'
  <2>1. \A i \in Held : items'[i].ticket = items[i].ticket
    BY <1>4, <1>5
  <2>2. \A i \in Held : /\ Expired(i)' <=> Expired(i)
                        /\ items'[i].cleaning => items[i].cleaning
    BY <1>1, <1>4, <1>5 DEF Expired
  <2>. QED BY <1>1, <1>6, <1>7, <1>9, <2>1, <2>2 DEF StoreInv, Sharing
<1>17. Owing'
  BY <1>1, <1>4, <1>5, <1>6 DEF StoreInv, Owing
<1>. QED BY <1>11, <1>12, <1>13, <1>14, <1>15, <1>16, <1>17 DEF StoreInv

-----------------------------------------------------------------------------
(* Every step of the buffer *)

LEMMA StoreBegins == Init => StoreInv
<1>. SUFFICES ASSUME Init PROVE StoreInv
  OBVIOUS
<1>1. /\ local \in BOOLEAN /\ items = <<>> /\ made = {} /\ asking = <<>> /\ cleaner = <<>>
      /\ sinks = {} /\ published = {} /\ caller = {} /\ now = 0
      /\ receiving = [id \in References |-> "none"] /\ writing = [id \in References |-> FALSE]
      /\ readers = [r \in Readers |-> None]
  BY DEF Init, TransfersInit
<1>2. DOMAIN items = {} /\ DOMAIN asking = {} /\ DOMAIN cleaner = {}
  BY <1>1
<1>3. /\ items \in [Held -> Item] /\ asking \in [DOMAIN asking -> SUBSET References]
      /\ cleaner \in [DOMAIN cleaner -> Taken]
  BY <1>1, <1>2 DEF Held
<1>4. StoreTypes
  BY <1>1, <1>2, <1>3, TransfersAssumption DEF StoreTypes, Held
<1>5. Cleaning /\ Publishing /\ Phases /\ Sharing
  BY <1>1, <1>2 DEF Cleaning, Publishing, Phases, Sharing, Held
<1>6. Charging /\ Owing
  BY <1>1, <1>2 DEF Charging, Owing, Filling, ReadBy
<1>. QED BY <1>4, <1>5, <1>6 DEF StoreInv

LEMMA BufferKeeps ==
    ASSUME StoreInv, TransfersNext
    PROVE  StoreInv'
<1>1. CASE Reserving
  BY <1>1, SweepingKeeps, WaitingKeeps, ReserveKeeps, IssuingKeeps DEF Reserving
<1>2. CASE Receiving
  BY <1>2, TakingKeeps, AllocatedKeeps, WritingKeeps, CompleteKeeps, AbandoningKeeps DEF Receiving
<1>3. CASE Delivering
  BY <1>3, OpeningKeeps, ReadingKeeps, ReleasingKeeps DEF Delivering
<1>4. CASE Preparing
  BY <1>4, OpeningKeeps, ReadingKeeps DEF Preparing
<1>5. CASE Sweeping
  BY <1>5, SweepingKeeps, CleanedKeeps, NotCleanedKeeps DEF Sweeping
<1>6. CASE Tick
  BY <1>6, WaitingKeeps
<1>. QED BY <1>1, <1>2, <1>3, <1>4, <1>5, <1>6 DEF TransfersNext

(* What a run does to the buffer. *)
LEMMA RunsTouchTheirReader ==
    ASSUME NEW r \in Readers, Served(r) \/ Refused(r) \/ Placing(r)
    PROVE  UNCHANGED transferVars \/ DropInput(r) \/ Placed(r) \/ Release(r)
BY DEF Served, Refused, Placing, Begin, Discard, FailEarly, Open, OpenFails, Write, NoRoomToWrite,
       WriteFails, Rename, RenameRefused, RenameLost, Succeed, Clean, Interrupt, SettleFailed,
       SettlePlaced, SettleReleased, Fails, Goes, CleansUp

LEMMA StoreStays ==
    ASSUME StoreInv, UNCHANGED transferVars
    PROVE  StoreInv'
<1>1. UNCHANGED <<local, items, made, asking, cleaner, sinks, receiving, caller, writing, published, readers, now>>
  BY DEF transferVars, storeVars, diskVars
<1>2. StoreTypes' /\ Cleaning' /\ Charging'
  BY <1>1 DEF StoreInv, StoreTypes, Cleaning, Charging, Held, Is, Expired, Filling, ReadBy
<1>3. Publishing' /\ Phases' /\ Sharing' /\ Owing'
  BY <1>1 DEF StoreInv, Publishing, Phases, Sharing, Owing, Held, Is, Expired, ActiveOf, FileOf, ContentOf
<1>. QED BY <1>2, <1>3 DEF StoreInv

LEMMA StoreKeeps ==
    ASSUME StoreInv, [Next]_uploadVars
    PROVE  StoreInv'
<1>1. CASE TransfersNext
  BY <1>1, BufferKeeps
<1>2. ASSUME NEW r \in Readers, Served(r) \/ Refused(r) \/ Placing(r)
      PROVE  StoreInv'
  BY <1>2, RunsTouchTheirReader, StoreStays, ReadingKeeps, ReleasingKeeps
<1>3. CASE UNCHANGED uploadVars
  BY <1>3, StoreStays DEF uploadVars
<1>. QED BY <1>1, <1>2, <1>3 DEF Next

-----------------------------------------------------------------------------
(* The runs *)

(* One run takes a step, and its source is not at its place. *)
LEMMA UploadKeeps ==
    ASSUME RunInv, NEW r \in Readers, NEW new \in Upload, Set(r, new), Working(new), Telling(new),
           \A q \in Readers \ {r} : readers'[q] = readers[q],
           readers'[r] # None => readers'[r].at # "placed"
    PROVE  RunInv'
<1>1. RunTypes'
  BY DEF RunInv, RunTypes, Set
<1>2. uploads'[r] = new /\ \A q \in Readers \ {r} : uploads'[q] = uploads[q]
  BY DEF RunInv, RunTypes, Set
<1>3. \A q \in Readers : uploads'[q] # None => Working(uploads'[q]) /\ Telling(uploads'[q])
  BY <1>2 DEF RunInv
<1>. QED BY <1>1, <1>2, <1>3 DEF RunInv

(* A source in place belongs to a run that has succeeded and is yet to settle. *)
LEMMA PlacedHasSucceeded ==
    ASSUME RunInv, NEW r \in Readers, readers[r] # None, readers[r].at = "placed"
    PROVE  /\ uploads[r] # None /\ uploads[r].pc = "over" /\ uploads[r].result = "ok"
           /\ uploads[r].outcome = "running" /\ uploads[r].asked = "none" /\ uploads[r].target = "new"
BY DEF RunInv, Telling

(* A step of the work keeps what its record says true. *)
LEMMA WorkKeeps ==
    ASSUME StoreInv, RunInv, NEW r \in Readers, uploads[r] # None,
           \/ Served(r) \/ Refused(r) \/ FailEarly(r, "RemoteIo") \/ FailEarly(r, "UnsupportedOperation")
           \/ Open(r) \/ OpenFails(r) \/ Write(r) \/ NoRoomToWrite(r) \/ WriteFails(r) \/ Rename(r)
           \/ RenameRefused(r) \/ RenameLost(r) \/ Succeed(r) \/ Clean(r) \/ Interrupt(r) \/ SettleFailed(r)
    PROVE  RunInv'
<1>. DEFINE u == uploads[r]
<1>1. u \in Upload /\ Working(u) /\ Telling(u)
  BY DEF RunInv, RunTypes
<1>2. ASSUME DropInput(r)
      PROVE  readers'[r] = None /\ \A q \in Readers \ {r} : readers'[q] = readers[q]
  BY <1>2 DEF DropInput, StoreInv, StoreTypes
<1>3. ASSUME UNCHANGED transferVars
      PROVE  \A q \in Readers : readers'[q] = readers[q]
  BY <1>3 DEF transferVars
<1>4. ASSUME u.asked # "none" \/ u.pc # "over" \/ u.result # "ok", readers[r] # None
      PROVE  readers[r].at # "placed"
  BY <1>4, PlacedHasSucceeded
<1>5. CASE Served(r)
  <2>. DEFINE new == [Carried(u) EXCEPT !.asked = "none", !.reply = IF u.pc = "over" THEN "none" ELSE "ok"]
  <2>1. UNCHANGED transferVars /\ Set(r, new)
    BY <1>5 DEF Served, Carried, At
  <2>2. new \in Upload /\ Working(new) /\ Telling(new)
    <3>. u.asked \in {"open", "write", "rename", "remove"}
      BY <1>1, <1>5 DEF Served, Upload
    <3>1. CASE u.asked = "open" /\ u.staged
      <4>. DEFINE x == [u EXCEPT !.stage = TRUE, !.asked = "none", !.reply = IF u.pc = "over" THEN "none" ELSE "ok"]
      <4>1. new = x
        BY <1>1, <3>1 DEF Carried, Upload
      <4>2. x \in Upload /\ Working(x) /\ Telling(x)
        BY <1>1, <3>1 DEF Upload, Working, Telling, Failures
      <4>. QED BY <4>1, <4>2
    <3>2. CASE u.asked = "open" /\ ~u.staged
      <4>. DEFINE x == [u EXCEPT !.target = "partial", !.asked = "none", !.reply = IF u.pc = "over" THEN "none" ELSE "ok"]
      <4>1. new = x
        BY <1>1, <3>2 DEF Carried, Upload
      <4>2. x \in Upload /\ Working(x) /\ Telling(x)
        BY <1>1, <3>2 DEF Upload, Working, Telling, Failures
      <4>. QED BY <4>1, <4>2
    <3>3. CASE u.asked = "write" /\ u.staged
      <4>. DEFINE x == [u EXCEPT !.asked = "none", !.reply = IF u.pc = "over" THEN "none" ELSE "ok"]
      <4>1. new = x
        BY <1>1, <3>3 DEF Carried, Upload
      <4>2. x \in Upload /\ Working(x) /\ Telling(x)
        BY <1>1, <3>3 DEF Upload, Working, Telling, Failures
      <4>. QED BY <4>1, <4>2
    <3>4. CASE u.asked = "write" /\ ~u.staged
      <4>. DEFINE x == [u EXCEPT !.target = "new", !.asked = "none", !.reply = IF u.pc = "over" THEN "none" ELSE "ok"]
      <4>1. new = x
        BY <1>1, <3>4 DEF Carried, Upload
      <4>2. x \in Upload /\ Working(x) /\ Telling(x)
        BY <1>1, <3>4 DEF Upload, Working, Telling, Failures
      <4>. QED BY <4>1, <4>2
    <3>5. CASE u.asked = "rename"
      <4>. DEFINE x == [u EXCEPT !.target = "new", !.stage = FALSE, !.asked = "none", !.reply = IF u.pc = "over" THEN "none" ELSE "ok"]
      <4>1. new = x
        BY <1>1, <3>5 DEF Carried, Upload
      <4>2. x \in Upload /\ Working(x) /\ Telling(x)
        BY <1>1, <3>5 DEF Upload, Working, Telling, Failures
      <4>. QED BY <4>1, <4>2
    <3>6. CASE u.asked = "remove"
      <4>. DEFINE x == [u EXCEPT !.stage = FALSE, !.asked = "none", !.reply = IF u.pc = "over" THEN "none" ELSE "ok"]
      <4>1. new = x
        BY <1>1, <3>6 DEF Carried, Upload
      <4>2. x \in Upload /\ Working(x) /\ Telling(x)
        BY <1>1, <3>6 DEF Upload, Working, Telling, Failures
      <4>. QED BY <4>1, <4>2
    <3>. QED BY <1>1, <3>1, <3>2, <3>3, <3>4, <3>5, <3>6 DEF Upload
  <2>3. readers'[r] # None => readers'[r].at # "placed"
    BY <1>1, <1>2, <1>3, <1>4, <1>5, <2>1 DEF Served, Carried, At, Working, Failures
  <2>. HIDE DEF new
  <2>. QED BY <1>2, <1>3, <2>1, <2>2, <2>3, UploadKeeps
<1>6. CASE Refused(r)
  <2>. DEFINE new == [u EXCEPT !.asked = "none", !.reply = IF u.pc = "over" THEN "none" ELSE "refused"]
  <2>1. UNCHANGED transferVars /\ Set(r, new)
    BY <1>6 DEF Refused, At
  <2>2. new \in Upload
    BY <1>1 DEF Upload
  <2>3. Working(new)
    BY <1>1, <1>6 DEF Refused, Upload, Working, Failures
  <2>4. Telling(new)
    BY <1>1, <1>6 DEF Refused, Upload, Working, Telling, Failures
  <2>5. readers'[r] # None => readers'[r].at # "placed"
    BY <1>1, <1>2, <1>3, <1>4, <1>6, <2>1 DEF Refused, At, Working, Failures
  <2>. HIDE DEF new
  <2>. QED BY <1>2, <1>3, <2>1, <2>2, <2>3, <2>4, <2>5, UploadKeeps
<1>7. CASE FailEarly(r, "RemoteIo")
  <2>. DEFINE new == [u EXCEPT !.pc = "over", !.result = "RemoteIo", !.reply = "none"]
  <2>1. DropInput(r) /\ Set(r, new)
    BY <1>7 DEF FailEarly, Fails, At
  <2>2. new \in Upload /\ Working(new) /\ Telling(new)
    BY <1>1, <1>7 DEF FailEarly, Fails, At, Upload, Working, Telling, Failures
  <2>3. readers'[r] # None => readers'[r].at # "placed"
    BY <1>1, <1>2, <1>3, <1>4, <1>7, <2>1 DEF FailEarly, Fails, At, Working, Failures
  <2>. HIDE DEF new
  <2>. QED BY <1>2, <1>3, <2>1, <2>2, <2>3, UploadKeeps
<1>8. CASE FailEarly(r, "UnsupportedOperation")
  <2>. DEFINE new == [u EXCEPT !.pc = "over", !.result = "UnsupportedOperation", !.reply = "none"]
  <2>1. DropInput(r) /\ Set(r, new)
    BY <1>8 DEF FailEarly, Fails, At
  <2>2. new \in Upload /\ Working(new) /\ Telling(new)
    BY <1>1, <1>8 DEF FailEarly, Fails, At, Upload, Working, Telling, Failures
  <2>3. readers'[r] # None => readers'[r].at # "placed"
    BY <1>1, <1>2, <1>3, <1>4, <1>8, <2>1 DEF FailEarly, Fails, At, Working, Failures
  <2>. HIDE DEF new
  <2>. QED BY <1>2, <1>3, <2>1, <2>2, <2>3, UploadKeeps
<1>9. CASE Open(r)
  <2>. DEFINE new == [u EXCEPT !.pc = "opening", !.asked = "open", !.reply = "none"]
  <2>1. UNCHANGED transferVars /\ Set(r, new)
    BY <1>9 DEF Open, Goes, At
  <2>2. new \in Upload /\ Working(new) /\ Telling(new)
    BY <1>1, <1>9 DEF Open, Goes, At, Upload, Working, Telling, Failures
  <2>3. readers'[r] # None => readers'[r].at # "placed"
    BY <1>1, <1>2, <1>3, <1>4, <1>9, <2>1 DEF Open, Goes, At, Working, Failures
  <2>. HIDE DEF new
  <2>. QED BY <1>2, <1>3, <2>1, <2>2, <2>3, UploadKeeps
<1>10. CASE OpenFails(r)
  <2>. DEFINE new == [u EXCEPT !.pc = "over", !.result = "RemoteIo", !.reply = "none"]
  <2>1. DropInput(r) /\ Set(r, new)
    BY <1>10 DEF OpenFails, Fails, At
  <2>2. new \in Upload /\ Working(new) /\ Telling(new)
    BY <1>1, <1>10 DEF OpenFails, Fails, At, Upload, Working, Telling, Failures
  <2>3. readers'[r] # None => readers'[r].at # "placed"
    BY <1>1, <1>2, <1>3, <1>4, <1>10, <2>1 DEF OpenFails, Fails, At, Working, Failures
  <2>. HIDE DEF new
  <2>. QED BY <1>2, <1>3, <2>1, <2>2, <2>3, UploadKeeps
<1>11. CASE Write(r)
  <2>. DEFINE new == [u EXCEPT !.pc = "writing", !.asked = "write", !.reply = "none"]
  <2>1. UNCHANGED transferVars /\ Set(r, new)
    BY <1>11 DEF Write, Goes, Answered, At
  <2>2. new \in Upload /\ Working(new) /\ Telling(new)
    BY <1>1, <1>11 DEF Write, Goes, Answered, At, Upload, Working, Telling, Failures
  <2>3. readers'[r] # None => readers'[r].at # "placed"
    BY <1>1, <1>2, <1>3, <1>4, <1>11, <2>1 DEF Write, Goes, Answered, At, Working, Failures
  <2>. HIDE DEF new
  <2>. QED BY <1>2, <1>3, <2>1, <2>2, <2>3, UploadKeeps
<1>12. CASE NoRoomToWrite(r)
  <2>. DEFINE new == [u EXCEPT !.pc = "cleaning", !.asked = "remove", !.reply = "none",
                             !.result = "UnsupportedOperation", !.replacement = FALSE]
  <2>1. UNCHANGED transferVars /\ Set(r, new)
    BY <1>12 DEF NoRoomToWrite, CleansUp, Answered, At
  <2>2. new \in Upload /\ Working(new) /\ Telling(new)
    BY <1>1, <1>12 DEF NoRoomToWrite, CleansUp, Answered, At, Upload, Working, Telling, Failures
  <2>3. readers'[r] # None => readers'[r].at # "placed"
    BY <1>1, <1>2, <1>3, <1>4, <1>12, <2>1 DEF NoRoomToWrite, CleansUp, Answered, At, Working, Failures
  <2>. HIDE DEF new
  <2>. QED BY <1>2, <1>3, <2>1, <2>2, <2>3, UploadKeeps
<1>13. CASE WriteFails(r) /\ u.staged
  <2>. DEFINE new == [u EXCEPT !.pc = "cleaning", !.asked = "remove", !.reply = "none",
                             !.result = "RemoteIo", !.replacement = FALSE]
  <2>1. UNCHANGED transferVars /\ Set(r, new)
    BY <1>13 DEF WriteFails, CleansUp, At
  <2>2. new \in Upload /\ Working(new) /\ Telling(new)
    BY <1>1, <1>13 DEF WriteFails, CleansUp, At, Upload, Working, Telling, Failures
  <2>3. readers'[r] # None => readers'[r].at # "placed"
    BY <1>1, <1>2, <1>3, <1>4, <1>13, <2>1 DEF WriteFails, CleansUp, At, Working, Failures
  <2>. HIDE DEF new
  <2>. QED BY <1>2, <1>3, <2>1, <2>2, <2>3, UploadKeeps
<1>14. CASE WriteFails(r) /\ ~u.staged
  <2>. DEFINE new == [u EXCEPT !.pc = "over", !.result = "RemoteIo", !.reply = "none"]
  <2>1. DropInput(r) /\ Set(r, new)
    BY <1>14 DEF WriteFails, Fails, At
  <2>2. new \in Upload /\ Working(new) /\ Telling(new)
    BY <1>1, <1>14 DEF WriteFails, Fails, At, Upload, Working, Telling, Failures
  <2>3. readers'[r] # None => readers'[r].at # "placed"
    BY <1>1, <1>2, <1>3, <1>4, <1>14, <2>1 DEF WriteFails, Fails, At, Working, Failures
  <2>. HIDE DEF new
  <2>. QED BY <1>2, <1>3, <2>1, <2>2, <2>3, UploadKeeps
<1>15. CASE Rename(r)
  <2>. DEFINE new == [u EXCEPT !.pc = "renaming", !.asked = "rename", !.reply = "none", !.replacement = TRUE]
  <2>1. UNCHANGED transferVars /\ Set(r, new)
    BY <1>15 DEF Rename, Answered, At
  <2>2. new \in Upload /\ Working(new) /\ Telling(new)
    BY <1>1, <1>15 DEF Rename, Answered, At, Upload, Working, Telling, Failures
  <2>3. readers'[r] # None => readers'[r].at # "placed"
    BY <1>1, <1>2, <1>3, <1>4, <1>15, <2>1 DEF Rename, Answered, At, Working, Failures
  <2>. HIDE DEF new
  <2>. QED BY <1>2, <1>3, <2>1, <2>2, <2>3, UploadKeeps
<1>16. CASE RenameRefused(r)
  <2>. DEFINE new == [u EXCEPT !.pc = "cleaning", !.asked = "remove", !.reply = "none",
                             !.result = "RemoteIo", !.replacement = FALSE]
  <2>1. UNCHANGED transferVars /\ Set(r, new)
    BY <1>16 DEF RenameRefused, CleansUp, Answered, At
  <2>2. new \in Upload /\ Working(new) /\ Telling(new)
    BY <1>1, <1>16 DEF RenameRefused, CleansUp, Answered, At, Upload, Working, Telling, Failures
  <2>3. readers'[r] # None => readers'[r].at # "placed"
    BY <1>1, <1>2, <1>3, <1>4, <1>16, <2>1 DEF RenameRefused, CleansUp, Answered, At, Working, Failures
  <2>. HIDE DEF new
  <2>. QED BY <1>2, <1>3, <2>1, <2>2, <2>3, UploadKeeps
<1>17. CASE RenameLost(r)
  <2>. DEFINE new == [u EXCEPT !.pc = "over", !.result = "ReplacementUnknown", !.reply = "none"]
  <2>1. DropInput(r) /\ Set(r, new)
    BY <1>17 DEF RenameLost, Fails, At
  <2>2. new \in Upload /\ Working(new) /\ Telling(new)
    BY <1>1, <1>17 DEF RenameLost, Fails, At, Upload, Working, Telling, Failures
  <2>3. readers'[r] # None => readers'[r].at # "placed"
    BY <1>1, <1>2, <1>3, <1>4, <1>17, <2>1 DEF RenameLost, Fails, At, Working, Failures
  <2>. HIDE DEF new
  <2>. QED BY <1>2, <1>3, <2>1, <2>2, <2>3, UploadKeeps
<1>18. CASE Succeed(r)
  <2>. DEFINE new == [u EXCEPT !.pc = "over", !.result = "ok", !.reply = "none"]
  <2>1. UNCHANGED transferVars /\ Set(r, new)
    BY <1>18 DEF Succeed, Answered, At
  <2>2. new \in Upload /\ Working(new) /\ Telling(new)
    BY <1>1, <1>18 DEF Succeed, Answered, At, Upload, Working, Telling, Failures
  <2>3. readers'[r] # None => readers'[r].at # "placed"
    BY <1>1, <1>2, <1>3, <1>4, <1>18, <2>1 DEF Succeed, Answered, At, Working, Failures
  <2>. HIDE DEF new
  <2>. QED BY <1>2, <1>3, <2>1, <2>2, <2>3, UploadKeeps
<1>19. CASE Clean(r)
  <2>. DEFINE new == [u EXCEPT !.pc = "over", !.reply = "none",
                             !.result = IF u.reply = "ok" THEN u.result ELSE "StagingCleanupFailed"]
  <2>1. DropInput(r) /\ Set(r, new)
    BY <1>19 DEF Clean, Fails, At
  <2>2. new \in Upload /\ Working(new) /\ Telling(new)
    BY <1>1, <1>19 DEF Clean, Fails, At, Upload, Working, Telling, Failures
  <2>3. readers'[r] # None => readers'[r].at # "placed"
    BY <1>1, <1>2, <1>3, <1>4, <1>19, <2>1 DEF Clean, Fails, At, Working, Failures
  <2>. HIDE DEF new
  <2>. QED BY <1>2, <1>3, <2>1, <2>2, <2>3, UploadKeeps
<1>20. CASE Interrupt(r) /\ u.pc = "over" /\ u.result # "ok"
  <2>. DEFINE new == [u EXCEPT !.result = "TimedOut"]
  <2>1. UNCHANGED transferVars /\ Set(r, new)
    BY <1>20 DEF Interrupt, At
  <2>2. new \in Upload /\ Working(new) /\ Telling(new)
    BY <1>1, <1>20 DEF Interrupt, At, Upload, Working, Telling, Failures
  <2>3. readers'[r] # None => readers'[r].at # "placed"
    BY <1>1, <1>2, <1>3, <1>4, <1>20, <2>1 DEF Interrupt, At, Working, Failures
  <2>. HIDE DEF new
  <2>. QED BY <1>2, <1>3, <2>1, <2>2, <2>3, UploadKeeps
<1>21. CASE Interrupt(r) /\ ~(u.pc = "over" /\ u.result # "ok")
  <2>. DEFINE new == [u EXCEPT !.pc = "over", !.result = "TimedOut", !.reply = "none"]
  <2>1. DropInput(r) /\ Set(r, new)
    BY <1>21 DEF Interrupt, Fails, At
  <2>2. new \in Upload /\ Working(new) /\ Telling(new)
    BY <1>1, <1>21 DEF Interrupt, Fails, At, Upload, Working, Telling, Failures
  <2>3. readers'[r] # None => readers'[r].at # "placed"
    BY <1>1, <1>2, <1>3, <1>4, <1>21, <2>1 DEF Interrupt, Fails, At, Working, Failures
  <2>. HIDE DEF new
  <2>. QED BY <1>2, <1>3, <2>1, <2>2, <2>3, UploadKeeps
<1>22. CASE SettleFailed(r)
  <2>. DEFINE new == [u EXCEPT !.outcome = Told(u), !.result = "none", !.replacement = FALSE]
  <2>1. UNCHANGED transferVars /\ Set(r, new)
    BY <1>22 DEF SettleFailed, Told, At
  <2>2. new \in Upload /\ Working(new) /\ Telling(new)
    BY <1>1, <1>22 DEF SettleFailed, Told, At, Upload, Working, Telling, Failures
  <2>3. readers'[r] # None => readers'[r].at # "placed"
    BY <1>1, <1>2, <1>3, <1>4, <1>22, <2>1 DEF SettleFailed, Told, At, Working, Failures
  <2>. HIDE DEF new
  <2>. QED BY <1>2, <1>3, <2>1, <2>2, <2>3, UploadKeeps
<1>. QED BY <1>5, <1>6, <1>7, <1>8, <1>9, <1>10, <1>11, <1>12, <1>13, <1>14, <1>15, <1>16, <1>17, <1>18, <1>19, <1>20, <1>21, <1>22

LEMMA BeginKeeps ==
    ASSUME StoreInv, RunInv, NEW r \in Readers, NEW staged \in BOOLEAN, Begin(r, staged)
    PROVE  RunInv'
<1>. DEFINE new == [staged |-> staged, pc |-> "preparing", replacement |-> FALSE, asked |-> "none",
                    reply |-> "none", target |-> "before", stage |-> FALSE, result |-> "none",
                    outcome |-> "running"]
<1>1. Set(r, new) /\ readers' = readers /\ readers[r].at # "placed"
  BY DEF Begin, transferVars
<1>2. new \in Upload /\ Working(new) /\ Telling(new)
  BY DEF Upload, Working, Telling
<1>. HIDE DEF new
<1>. QED BY <1>1, <1>2, UploadKeeps

LEMMA SettleReleasedKeeps ==
    ASSUME StoreInv, RunInv, NEW r \in Readers, SettleReleased(r)
    PROVE  RunInv'
<1>. DEFINE new == [uploads[r] EXCEPT !.outcome = "exited", !.result = "none", !.replacement = FALSE]
<1>1. Set(r, new) /\ Release(r)
  BY DEF SettleReleased
<1>2. readers'[r] = None /\ \A q \in Readers \ {r} : readers'[q] = readers[q]
  BY <1>1 DEF Release, StoreInv, StoreTypes
<1>3. /\ uploads[r] # None /\ uploads[r].pc = "over" /\ uploads[r].result = "ok"
      /\ uploads[r].asked = "none" /\ uploads[r].target = "new"
  BY <1>1, PlacedHasSucceeded DEF Release
<1>4. uploads[r] \in Upload /\ Working(uploads[r])
  BY <1>3 DEF RunInv, RunTypes
<1>5. new \in Upload /\ Working(new) /\ Telling(new)
  BY <1>3, <1>4 DEF Upload, Working, Telling, Failures
<1>. HIDE DEF new
<1>. QED BY <1>1, <1>2, <1>5, UploadKeeps

(* What else there is leaves the runs alone, and no source comes to its place. *)
LEMMA RunsStay ==
    ASSUME RunInv, UNCHANGED uploads,
           \A r \in Readers : readers'[r] # None /\ readers'[r].at = "placed"
              => \/ readers[r] # None /\ readers[r].at = "placed"
                 \/ uploads[r] # None /\ uploads[r].result = "ok" /\ uploads[r].outcome = "running"
    PROVE  RunInv'
BY DEF RunInv, RunTypes

LEMMA BufferPlacesNothing ==
    ASSUME StoreInv, TransfersNext, NEW r \in Readers, readers'[r] # None, readers'[r].at = "placed"
    PROVE  readers[r] # None /\ readers[r].at = "placed"
<1>. readers \in [Readers -> Reader \cup {None}]
  BY DEF StoreInv, StoreTypes
<1>1. CASE Reserving
  BY <1>1 DEF Reserving, Ask, NotReserved, Reserve, IssueUpload, AuthorizeDownload
<1>2. CASE Receiving
  BY <1>2 DEF Receiving, TakeUploadTicket, ReceiveDestination, Began, Allocated, WriteBlock, BlockWritten,
              Received, Publish, NotPublished, Complete, StopReceiving, DropDestination
<1>3. CASE Delivering
  BY <1>3 DEF Delivering, TakeDownloadTicket, Opened, SentAll, EndDelivery, DropDelivery, Move, Reader
<1>4. CASE Preparing
  BY <1>4 DEF Preparing, OpenSource, PinLocal, Opened, LocalCopied, Move, Reader
<1>5. CASE Sweeping \/ Tick
  BY <1>5 DEF Sweeping, Sweep, Cleaned, NotCleaned, Tick
<1>. QED BY <1>1, <1>2, <1>3, <1>4, <1>5 DEF TransfersNext

LEMMA RunKeeps ==
    ASSUME StoreInv, RunInv, [Next]_uploadVars
    PROVE  RunInv'
<1>1. CASE TransfersNext /\ UNCHANGED uploads
  BY <1>1, BufferPlacesNothing, RunsStay
<1>2. CASE UNCHANGED uploadVars
  BY <1>2, RunsStay DEF uploadVars, transferVars
<1>3. ASSUME NEW r \in Readers, Served(r) \/ Refused(r) \/ Placing(r)
      PROVE  RunInv'
  <2>1. CASE Begin(r, TRUE) \/ Begin(r, FALSE)
    BY <2>1, BeginKeeps
  <2>2. CASE Discard(r)
    BY <2>2, RunsStay DEF Discard, DropInput, StoreInv, StoreTypes
  <2>3. CASE SettlePlaced(r)
    <3>1. readers' = [readers EXCEPT ![r].at = "placed"]
      BY <2>3 DEF SettlePlaced, Placed, Move
    <3>2. uploads[r] # None /\ uploads[r].result = "ok" /\ uploads[r].outcome = "running" /\ UNCHANGED uploads
      BY <2>3 DEF SettlePlaced, At
    <3>3. readers \in [Readers -> Reader \cup {None}]
      BY DEF StoreInv, StoreTypes
    <3>4. \A q \in Readers \ {r} : readers'[q] = readers[q]
      BY <3>1, <3>3
    <3>. QED BY <3>2, <3>4, RunsStay
  <2>4. CASE SettleReleased(r)
    BY <2>4, SettleReleasedKeeps
  <2>5. CASE Served(r) \/ Refused(r)
    BY <2>5, WorkKeeps DEF Served, Refused
  <2>6. ASSUME \/ FailEarly(r, "RemoteIo") \/ FailEarly(r, "UnsupportedOperation") \/ Open(r) \/ OpenFails(r)
               \/ Write(r) \/ NoRoomToWrite(r) \/ WriteFails(r) \/ Rename(r) \/ RenameRefused(r) \/ RenameLost(r)
               \/ Succeed(r) \/ Clean(r) \/ Interrupt(r) \/ SettleFailed(r)
        PROVE  RunInv'
    <3>1. uploads[r] # None
      BY <2>6 DEF FailEarly, Open, OpenFails, Write, NoRoomToWrite, WriteFails, Rename, RenameRefused,
                  RenameLost, Succeed, Clean, Interrupt, SettleFailed, Answered, At
    <3>. QED BY <2>6, <3>1, WorkKeeps
  <2>. QED BY <1>3, <2>1, <2>2, <2>3, <2>4, <2>5, <2>6 DEF Placing
<1>. QED BY <1>1, <1>2, <1>3 DEF Next

LEMMA Transferring == Spec => [](StoreInv /\ RunInv)
<1>1. Init => StoreInv /\ RunInv
  <2>1. Init => RunInv
    BY DEF Init, TransfersInit, RunInv, RunTypes
  <2>. QED BY <2>1, StoreBegins
<1>2. StoreInv /\ RunInv /\ [Next]_uploadVars => (StoreInv /\ RunInv)'
  BY StoreKeeps, RunKeeps
<1>. QED BY <1>1, <1>2, PTL DEF Spec

-----------------------------------------------------------------------------
(* What holds of every state *)

(* Every variable of the buffer and of the uploads keeps its type (TypeOK): nothing
   is held that was not reserved, and no worker has what no item passed to it. *)
THEOREM UploadsTypeInvariant == Spec => []TypeOK
<1>1. StoreInv /\ RunInv => TypeOK
  BY DEF StoreInv, StoreTypes, RunInv, RunTypes, TypeOK
<1>. QED BY <1>1, Transferring, PTL

(* Every file that is written, read, shared or being removed belongs to a reservation
   and so counts against MAX_ITEMS (StorageIsCharged). *)
THEOREM StorageCharged == Spec => []StorageIsCharged
<1>1. StoreInv => StorageIsCharged
  <2>. SUFFICES ASSUME StoreInv, NEW id \in References, Stored(id)
               PROVE  id \in Held
    BY DEF StorageIsCharged
  <2>1. CASE Read(id)
    BY <2>1 DEF Read, ReadBy, StoreInv, Charging
  <2>2. CASE ~Read(id)
    BY <2>2 DEF Stored, StoreInv, Cleaning, Charging, Publishing
  <2>. QED BY <2>1, <2>2
<1>. QED BY <1>1, Transferring, PTL

(* supervise_transfer: the outcome of a run tells what became of the file on the
   target, also when a request is served long after (OutcomeTellsEffect). *)
THEOREM OutcomesTell == Spec => []OutcomeTellsEffect
<1>1. RunInv => OutcomeTellsEffect
  <2>. SUFFICES ASSUME RunInv, NEW r \in Readers, uploads[r] # None
               PROVE  LET u == uploads[r]
                      IN  /\ u.outcome = "exited" => u.target = "new"
                          /\ u.staged /\ u.outcome \in Failures \ {"ReplacementUnknown"}
                                => u.target = "before" /\ u.asked # "rename"
                          /\ u.outcome = "UnsupportedOperation"
                                => u.target = "before" /\ ~u.stage /\ u.asked = "none"
    BY DEF OutcomeTellsEffect
  <2>. DEFINE u == uploads[r]
  <2>1. Working(u) /\ Telling(u)
    BY DEF RunInv
  <2>2. u.outcome \in Failures => ~u.replacement
    BY <2>1 DEF Working, Telling, Failures
  <2>. QED BY <2>1, <2>2 DEF Telling, Failures
<1>. QED BY <1>1, Transferring, PTL

-----------------------------------------------------------------------------
(* What a step may do *)

(* What a run does leaves how far the bytes have come, and opens nothing. *)
LEMMA RunsReceiveNothing ==
    ASSUME StoreInv, NEW r \in Readers, Served(r) \/ Refused(r) \/ Placing(r)
    PROVE  /\ receiving' = receiving
           /\ \A q \in Readers : readers[q] = None => readers'[q] = None
<1>1. UNCHANGED transferVars \/ DropInput(r) \/ Placed(r) \/ Release(r)
  BY RunsTouchTheirReader
<1>2. readers \in [Readers -> Reader \cup {None}]
  BY DEF StoreInv, StoreTypes
<1>. QED BY <1>1, <1>2 DEF transferVars, diskVars, DropInput, Placed, Release, Move

(* take of an upload ticket, Destination::receive: the bytes of a reference begin to
   arrive once at most (ReceivedOnce). *)
THEOREM ReceivedAtMostOnce == Spec => ReceivedOnce
<1>1. ASSUME StoreInv, [Next]_uploadVars, NEW id \in References,
             receiving'[id] = "allocating", receiving[id] # "allocating"
      PROVE  receiving[id] = "none"
  <2>. receiving \in [References -> {"none", "allocating", "writing", "publishing", "published", "over"}]
    BY <1>1 DEF StoreInv, StoreTypes
  <2>1. PICK other \in References : TakeUploadTicket(other) \/ ReceiveDestination(other)
    <3>1. TransfersNext
      BY <1>1, RunsReceiveNothing DEF Next, uploadVars, transferVars, diskVars
    <3>2. Receiving
      BY <1>1, <3>1 DEF TransfersNext, Reserving, Ask, NotReserved, Reserve, IssueUpload, AuthorizeDownload,
            Delivering, TakeDownloadTicket, Opened, SentAll, EndDelivery, DropDelivery, Preparing, OpenSource,
            PinLocal, LocalCopied, Sweeping, Sweep, Cleaned, NotCleaned, Tick, diskVars
    <3>3. ASSUME NEW o \in References,
                 \/ Allocated(o) \/ WriteBlock(o) \/ BlockWritten(o) \/ Received(o) \/ Publish(o)
                 \/ NotPublished(o) \/ Complete(o) \/ StopReceiving(o) \/ DropDestination(o)
          PROVE  FALSE
      BY <1>1, <3>3 DEF Allocated, WriteBlock, BlockWritten, Received, Publish, NotPublished, Complete,
                        StopReceiving, DropDestination, diskVars
    <3>. QED BY <3>2, <3>3 DEF Receiving
  <2>2. other = id /\ Usable(id) /\ Is(id, "pending")
    BY <1>1, <2>1 DEF TakeUploadTicket, ReceiveDestination, Began
  <2>. QED BY <1>1, <2>2 DEF StoreInv, Phases, Usable, ContentOf, Is
<1>2. StoreInv /\ [Next]_uploadVars
        => [\A id \in References :
               receiving'[id] = "allocating" /\ receiving[id] # "allocating" => receiving[id] = "none"]_uploadVars
  BY <1>1
<1>. QED BY <1>2, Transferring, PTL DEF Spec, ReceivedOnce

(* take of a download ticket, open_source, local_source: a use begins of content that
   is there, is not withdrawn and has not expired, also where the code does not look
   at the withdrawal (ReadsStartOnLive). *)
THEOREM UsesStartOnLive == Spec => ReadsStartOnLive
<1>1. ASSUME StoreInv, [Next]_uploadVars, NEW r \in Readers, readers[r] = None, readers'[r] # None
      PROVE  Usable(readers'[r].of) /\ Is(readers'[r].of, "ready") /\ (local => readers'[r].of \in published)
  <2>. readers \in [Readers -> Reader \cup {None}]
    BY <1>1 DEF StoreInv, StoreTypes
  <2>1. TransfersNext
    BY <1>1, RunsReceiveNothing DEF Next, uploadVars, transferVars
  <2>2. Delivering \/ Preparing
    BY <1>1, <2>1 DEF TransfersNext, Reserving, Ask, NotReserved, Reserve, IssueUpload, AuthorizeDownload,
          Receiving, TakeUploadTicket, ReceiveDestination, Began, Allocated, WriteBlock, BlockWritten, Received,
          Publish, NotPublished, Complete, StopReceiving, DropDestination, Sweeping, Sweep, Cleaned,
          NotCleaned, Tick
  <2>3. PICK o \in Readers, id \in References :
            TakeDownloadTicket(o, id) \/ PinLocal(o, id) \/ \E p \in Principals : OpenSource(o, p, id)
    <3>1. ASSUME NEW o \in Readers,
                 SentAll(o) \/ EndDelivery(o) \/ DropDelivery(o) \/ LocalCopied(o)
          PROVE  FALSE
      BY <1>1, <3>1 DEF SentAll, EndDelivery, DropDelivery, LocalCopied, Move
    <3>. QED BY <2>2, <3>1 DEF Delivering, Preparing
  <2>4. readers'[r].of = id
    BY <1>1, <2>3 DEF TakeDownloadTicket, PinLocal, OpenSource, Opened
  <2>5. CASE PinLocal(o, id)
    BY <1>1, <2>4, <2>5 DEF PinLocal, StoreInv, Sharing, ContentOf, Usable, Is
  <2>6. CASE TakeDownloadTicket(o, id)
    BY <1>1, <2>4, <2>6 DEF TakeDownloadTicket, StoreInv, Sharing, Usable
  <2>7. CASE \E p \in Principals : OpenSource(o, p, id)
    BY <1>1, <2>4, <2>7 DEF OpenSource, Owned
  <2>. QED BY <2>3, <2>5, <2>6, <2>7
<1>2. StoreInv /\ [Next]_uploadVars
        => [\A r \in Readers :
               readers[r] = None /\ readers'[r] # None
                  => LET id == readers'[r].of
                     IN Usable(id) /\ Is(id, "ready") /\ (local => id \in published)]_uploadVars
  BY <1>1
<1>. QED BY <1>2, Transferring, PTL DEF Spec, ReadsStartOnLive

(* Content that stays where it is, and usable but for its age. *)
Stands(id) == id \in Held' /\ items'[id].content = "ready" /\ ~items'[id].withdrawn

(* Who has sent content to its caller. *)
Sends(id) == \E r \in Readers : EndDelivery(r) /\ readers[r].owed /\ readers[r].of = id

LEMMA WithdrawingSparesOthers ==
    ASSUME StoreInv, NEW of, NEW id \in Held, of # id, Owed(id), items' = WithdrawDelivered(of)
    PROVE  Stands(id)
BY DEF StoreInv, StoreTypes, Owed, Usable, Is, WithdrawDelivered, Stands, Held

LEMMA SweepingSparesOwed ==
    ASSUME NEW id \in Held, Owed(id), Swept(Sweepable)
    PROVE  Stands(id)
<1>1. id \notin Sweepable
  BY DEF Owed, Usable, Sweepable, Retained
<1>. QED BY <1>1 DEF Swept, Stands, Owed, Usable, Is, Held

LEMMA AbandoningSparesOwed ==
    ASSUME StoreInv, NEW other, NEW id \in Held, Owed(id), items' = Abandoned(other)
    PROVE  Stands(id)
<1>. items \in [Held -> Item]
  BY DEF StoreInv, StoreTypes
<1>1. id \in DOMAIN items' /\ items'[id] = items[id]
  BY DEF Abandoned, Without, Restrict, Owed, Is, Held
<1>. QED BY <1>1 DEF Stands, Owed, Usable, Is, Held

LEMMA BufferSparesOwed ==
    ASSUME StoreInv, TransfersNext, NEW id \in References, Owed(id)
    PROVE  Stands(id) \/ Sends(id)
<1>. /\ items \in [Held -> Item] /\ Held \subseteq made /\ id \in Held
     /\ Is(id, "ready") /\ ~items[id].withdrawn /\ ~items[id].cleaning
  BY DEF StoreInv, StoreTypes, Owed, Usable
<1>1. ASSUME items' = items
      PROVE  Stands(id)
  BY <1>1 DEF Stands, Is, Held
<1>2. CASE Reserving
  <2>1. CASE \E request \in Request : Ask(request)
    BY <2>1, SweepingSparesOwed DEF Ask
  <2>2. CASE \E request \in Request : NotReserved(request)
    BY <1>1, <2>2 DEF NotReserved
  <2>3. ASSUME NEW request \in Request, NEW other \in References, Reserve(request, other)
        PROVE  Stands(id)
    BY <2>3 DEF Reserve, With, Stands, Is, Held
  <2>4. ASSUME NEW other \in References, IssueUpload(other) \/ \E p \in Principals : AuthorizeDownload(p, other)
        PROVE  Stands(id)
    <3>1. other \in Held /\ items' = [items EXCEPT ![other].ticket = "live"]
      BY <2>4 DEF IssueUpload, AuthorizeDownload, Owned, Usable
    <3>. QED BY <3>1 DEF Stands, Is, Held, Item
  <2>. QED BY <1>2, <2>1, <2>2, <2>3, <2>4 DEF Reserving
<1>3. CASE Receiving
  <2>1. ASSUME NEW other \in References, TakeUploadTicket(other) \/ ReceiveDestination(other) \/ Allocated(other)
        PROVE  Stands(id)
    <3>1. other # id
      BY <2>1 DEF TakeUploadTicket, ReceiveDestination, Allocated, Is
    <3>. QED BY <2>1, <3>1 DEF TakeUploadTicket, ReceiveDestination, Allocated, Stands, Is, Held
  <2>2. ASSUME NEW other \in References,
               \/ WriteBlock(other) \/ BlockWritten(other) \/ Received(other) \/ Publish(other) \/ NotPublished(other)
        PROVE  Stands(id)
    BY <1>1, <2>2 DEF WriteBlock, BlockWritten, Received, Publish, NotPublished, storeVars
  <2>3. ASSUME NEW other \in References, Complete(other)
        PROVE  Stands(id)
    <3>1. CASE other # id /\ other \in Held
      <4>1. DOMAIN items' = Held /\ items'[id] = items[id]
        BY <2>3, <3>1 DEF Complete, Completed, Held
      <4>. QED BY <4>1 DEF Stands, Is, Held
    <3>2. CASE other = id
      <4>1. items' = [items EXCEPT ![id].file = local]
        BY <2>3, <3>2 DEF Complete, Completed, Is
      <4>. QED BY <4>1 DEF Stands, Is, Held, Item
    <3>3. CASE other \notin Held
      BY <1>1, <2>3, <3>3 DEF Complete
    <3>. QED BY <3>1, <3>2, <3>3
  <2>4. ASSUME NEW other \in References, StopReceiving(other) \/ DropDestination(other)
        PROVE  Stands(id)
    BY <2>4, AbandoningSparesOwed DEF StopReceiving, DropDestination
  <2>. QED BY <1>3, <2>1, <2>2, <2>3, <2>4 DEF Receiving
<1>4. CASE Delivering
  <2>1. ASSUME NEW r \in Readers, NEW other \in References, TakeDownloadTicket(r, other)
        PROVE  Stands(id)
    <3>1. items' = [items EXCEPT ![other].ticket = "none"]
      BY <2>1 DEF TakeDownloadTicket
    <3>. QED BY <3>1 DEF Stands, Is, Held, Item
  <2>2. ASSUME NEW r \in Readers, SentAll(r) \/ DropDelivery(r)
        PROVE  Stands(id)
    BY <1>1, <2>2 DEF SentAll, DropDelivery, storeVars
  <2>3. ASSUME NEW r \in Readers, EndDelivery(r)
        PROVE  Stands(id) \/ Sends(id)
    <3>1. CASE ~readers[r].owed
      BY <1>1, <2>3, <3>1 DEF EndDelivery
    <3>2. CASE readers[r].owed /\ readers[r].of = id
      BY <2>3, <3>2 DEF Sends
    <3>3. CASE readers[r].owed /\ readers[r].of # id
      BY <2>3, <3>3, WithdrawingSparesOthers DEF EndDelivery
    <3>. QED BY <3>1, <3>2, <3>3
  <2>. QED BY <1>4, <2>1, <2>2, <2>3 DEF Delivering
<1>5. CASE Preparing
  BY <1>1, <1>5 DEF Preparing, OpenSource, PinLocal, LocalCopied, storeVars
<1>6. CASE Sweeping
  <2>1. CASE Sweep
    BY <2>1, SweepingSparesOwed DEF Sweep
  <2>2. ASSUME NEW other \in References, Cleaned(other)
        PROVE  Stands(id)
    <3>1. other # id
      BY <2>2 DEF Cleaned, StoreInv, Cleaning
    <3>2. id \in DOMAIN items' /\ items'[id] = items[id]
      BY <2>2, <3>1 DEF Cleaned, Without, Restrict, Held
    <3>. QED BY <3>2 DEF Stands, Is, Held
  <2>3. ASSUME NEW other \in References, NotCleaned(other)
        PROVE  Stands(id)
    <3>1. other # id
      BY <2>3 DEF NotCleaned, StoreInv, Cleaning
    <3>. QED BY <2>3, <3>1 DEF NotCleaned, Stands, Is, Held
  <2>. QED BY <1>6, <2>1, <2>2, <2>3 DEF Sweeping
<1>7. CASE Tick
  BY <1>1, <1>7 DEF Tick, storeVars
<1>. QED BY <1>2, <1>3, <1>4, <1>5, <1>6, <1>7 DEF TransfersNext

(* Content within its delivery window leaves only when it has reached where it was
   going: whoever releases it had sent all of it to its caller, or had seen it in its
   place on a target (OwedUntilCollected). *)
THEOREM OwedStays == Spec => OwedUntilCollected
<1>1. ASSUME StoreInv, RunInv, [Next]_uploadVars, NEW id \in References, Owed(id)
      PROVE  Stands(id) \/ Collected(id)
  <2>. items \in [Held -> Item] /\ id \in Held /\ Is(id, "ready") /\ ~items[id].withdrawn
    BY <1>1 DEF StoreInv, StoreTypes, Owed, Usable
  <2>1. ASSUME items' = items
        PROVE  Stands(id)
    BY <2>1 DEF Stands, Is, Held
  <2>2. CASE TransfersNext
    <3>1. ASSUME Sends(id)
          PROVE  Collected(id)
      <4>1. PICK r \in Readers : EndDelivery(r) /\ readers[r].owed /\ readers[r].of = id
        BY <3>1 DEF Sends
      <4>2. readers[r] # None /\ readers[r].at = "sent" /\ readers[r].use = "delivery" /\ ~items[id].upload
        BY <1>1, <4>1 DEF EndDelivery, Move, StoreInv, Owing
      <4>. QED BY <4>1, <4>2 DEF Collected, ReadBy
    <3>. QED BY <1>1, <2>2, <3>1, BufferSparesOwed
  <2>3. CASE UNCHANGED uploadVars
    BY <2>1, <2>3 DEF uploadVars, transferVars, storeVars
  <2>4. ASSUME NEW r \in Readers, Served(r) \/ Refused(r) \/ Placing(r)
        PROVE  Stands(id) \/ Collected(id)
    <3>1. CASE ~Release(r)
      BY <2>1, <2>4, <3>1, RunsTouchTheirReader DEF transferVars, storeVars, DropInput, Placed
    <3>2. CASE Release(r) /\ ~readers[r].owed
      BY <2>1, <3>2 DEF Release
    <3>3. CASE Release(r) /\ readers[r].of # id /\ readers[r].owed
      BY <1>1, <3>3, WithdrawingSparesOthers DEF Release
    <3>4. CASE Release(r) /\ readers[r].of = id /\ readers[r].owed
      <4>1. readers[r] # None /\ readers[r].at = "placed" /\ readers[r].use # "delivery" /\ items[id].upload
        BY <1>1, <3>4 DEF Release, StoreInv, Owing
      <4>2. uploads[r] # None /\ uploads[r].target = "new"
        BY <1>1, <4>1, PlacedHasSucceeded
      <4>. QED BY <3>4, <4>1, <4>2 DEF Collected
    <3>. QED BY <3>1, <3>2, <3>3, <3>4
  <2>. QED BY <1>1, <2>2, <2>3, <2>4 DEF Next
<1>2. StoreInv /\ RunInv /\ [Next]_uploadVars
        => [\A id \in References :
               Owed(id) => \/ id \in Held' /\ items'[id].content = "ready" /\ ~items'[id].withdrawn
                           \/ Collected(id)]_uploadVars
  BY <1>1 DEF Stands
<1>. QED BY <1>2, Transferring, PTL DEF Spec, OwedUntilCollected

-----------------------------------------------------------------------------
(* Induction *)

LEMMA LeastIsThere ==
    ASSUME NEW T \in SUBSET Nat, T # {}
    PROVE  \E x \in T : \A y \in T : x <= y
<1>1. \E x \in T : \A y \in T : ~(<<y, x>> \in OpToRel(<, Nat))
  BY NatLessThanWellFounded, WFMin, Zenon
<1>2. PICK x \in T : \A y \in T : ~(<<y, x>> \in OpToRel(<, Nat))
  BY <1>1
<1>3. ASSUME NEW y \in T, y < x PROVE <<y, x>> \in OpToRel(<, Nat)
  <2>1. <<y, x>> \in Nat \X Nat /\ <<y, x>>[1] = y /\ <<y, x>>[2] = x
    OBVIOUS
  <2>. QED BY <1>3, <2>1, Zenon DEF OpToRel
<1>4. \A y \in T : ~(y < x)
  BY <1>2, <1>3, Zenon
<1>. QED BY <1>4

(* What holds of 0 and of the successor of whatever it holds of, up to n. *)
LEMMA StepByStep ==
    ASSUME NEW n \in Nat, NEW T, 0 \in T, \A i \in Nat : i < n /\ i \in T => i + 1 \in T
    PROVE  \A i \in 0 .. n : i \in T
<1>. DEFINE Missing == {i \in 0 .. n : i \notin T}
<1>1. SUFFICES ASSUME Missing # {} PROVE FALSE
  OBVIOUS
<1>2. PICK x \in Missing : \A y \in Missing : x <= y
  <2>1. Missing \in SUBSET Nat
    OBVIOUS
  <2>. HIDE DEF Missing
  <2>. QED BY <1>1, <2>1, LeastIsThere
<1>3. x \in Nat /\ x # 0 /\ x <= n /\ x \notin T
  BY <1>2
<1>4. x - 1 \in Nat /\ x - 1 < n /\ (x - 1) + 1 = x /\ x - 1 \in 0 .. n /\ ~(x <= x - 1)
  BY <1>3
<1>5. x - 1 \in T
  BY <1>2, <1>4
<1>. QED BY <1>3, <1>4, <1>5

LEMMA FunctionIsSeq ==
    ASSUME NEW S, NEW n \in Nat, NEW f \in [1 .. n -> S]
    PROVE  f \in Seq(S) /\ Len(f) = n
<1>1. f \in Seq(S)
  BY SeqDef
<1>2. Len(f) \in Nat /\ DOMAIN f = 1 .. Len(f) /\ DOMAIN f = 1 .. n
  BY <1>1, LenProperties
<1>. QED BY <1>1, <1>2

-----------------------------------------------------------------------------
(* Folds *)

Largest(s) == CHOOSE x \in s : \A y \in s : x >= y

LEMMA LargestIs ==
    ASSUME NEW n \in Nat, NEW s \in SUBSET (1 .. n + 1), n + 1 \in s
    PROVE  Largest(s) = n + 1 /\ s \ {n + 1} \in SUBSET (1 .. n)
<1>1. \A y \in s : n + 1 >= y
  OBVIOUS
<1>2. \A x \in s : (\A y \in s : x >= y) => x = n + 1
  OBVIOUS
<1>3. Largest(s) = n + 1
  BY <1>1, <1>2 DEF Largest
<1>. QED BY <1>3

(* A step for each element of a sequence is taken from the last one down, on all subsets
   of its places: step[i][v] is what is made of v at place i. *)
Folds(g, n, base, step) ==
    \A s \in SUBSET (1 .. n) : g[s] = IF s = {} THEN base ELSE step[Largest(s)][g[s \ {Largest(s)}]]

LEMMA FoldsExist ==
    ASSUME NEW n \in Nat, NEW V, NEW base \in V, NEW step \in [1 .. n -> [V -> V]]
    PROVE  \E g \in [SUBSET (1 .. n) -> V] : Folds(g, n, base, step)
<1>. DEFINE T == {k \in 0 .. n : \E g \in [SUBSET (1 .. k) -> V] : Folds(g, k, base, step)}
<1>1. 0 \in T
  <2>. DEFINE g == [s \in SUBSET (1 .. 0) |-> base]
  <2>1. g \in [SUBSET (1 .. 0) -> V] /\ \A s \in SUBSET (1 .. 0) : s = {} /\ g[s] = base
    OBVIOUS
  <2>. HIDE DEF g
  <2>2. Folds(g, 0, base, step)
    BY <2>1 DEF Folds
  <2>. QED BY <2>1, <2>2
<1>2. ASSUME NEW k \in Nat, k < n, k \in T PROVE k + 1 \in T
  <2>1. PICK g \in [SUBSET (1 .. k) -> V] : Folds(g, k, base, step)
    BY <1>2
  <2>. DEFINE more == [s \in SUBSET (1 .. k + 1) |->
                          IF k + 1 \in s THEN step[k + 1][g[s \ {k + 1}]] ELSE g[s]]
  <2>2. k + 1 \in 1 .. n
    BY <1>2
  <2>3. ASSUME NEW s \in SUBSET (1 .. k + 1), k + 1 \notin s PROVE s \in SUBSET (1 .. k)
    BY <2>3
  <2>4. more \in [SUBSET (1 .. k + 1) -> V]
    <3>1. ASSUME NEW s \in SUBSET (1 .. k + 1)
          PROVE (IF k + 1 \in s THEN step[k + 1][g[s \ {k + 1}]] ELSE g[s]) \in V
      <4>1. CASE k + 1 \in s
        <5>1. g[s \ {k + 1}] \in V
          BY <4>1, LargestIs
        <5>2. step[k + 1] \in [V -> V]
          BY <2>2
        <5>. QED BY <4>1, <5>1, <5>2
      <4>2. CASE k + 1 \notin s
        BY <2>3, <4>2
      <4>. QED BY <4>1, <4>2
    <3>. QED BY <3>1
  <2>5. \A s \in SUBSET (1 .. k + 1) :
            more[s] = IF k + 1 \in s THEN step[k + 1][g[s \ {k + 1}]] ELSE g[s]
    OBVIOUS
  <2>. HIDE DEF more
  <2>6. ASSUME NEW s \in SUBSET (1 .. k)
        PROVE  s \in SUBSET (1 .. k + 1) /\ k + 1 \notin s /\ more[s] = g[s]
    <3>1. s \in SUBSET (1 .. k + 1) /\ k + 1 \notin s
      OBVIOUS
    <3>. QED BY <2>5, <3>1
  <2>7. ASSUME NEW s \in SUBSET (1 .. k + 1)
        PROVE  more[s] = IF s = {} THEN base ELSE step[Largest(s)][more[s \ {Largest(s)}]]
    <3>1. CASE k + 1 \in s
      <4>1. Largest(s) = k + 1 /\ s \ {k + 1} \in SUBSET (1 .. k) /\ s # {}
        BY <3>1, LargestIs
      <4>2. more[s \ {k + 1}] = g[s \ {k + 1}]
        BY <2>6, <4>1
      <4>3. more[s] = step[k + 1][g[s \ {k + 1}]]
        BY <2>5, <3>1
      <4>. QED BY <4>1, <4>2, <4>3
    <3>2. CASE k + 1 \notin s
      <4>1. s \in SUBSET (1 .. k) /\ s \ {Largest(s)} \in SUBSET (1 .. k)
        BY <2>3, <3>2
      <4>2. g[s] = IF s = {} THEN base ELSE step[Largest(s)][g[s \ {Largest(s)}]]
        BY <2>1, <4>1 DEF Folds
      <4>3. more[s] = g[s] /\ more[s \ {Largest(s)}] = g[s \ {Largest(s)}]
        BY <2>6, <4>1
      <4>. QED BY <4>2, <4>3
    <3>. QED BY <3>1, <3>2
  <2>8. Folds(more, k + 1, base, step)
    BY <2>7 DEF Folds
  <2>9. k + 1 \in 0 .. n
    BY <1>2
  <2>. QED BY <2>4, <2>8, <2>9
<1>. HIDE DEF T
<1>3. \A k \in Nat : k < n /\ k \in T => k + 1 \in T
  BY <1>2
<1>4. \A k \in 0 .. n : k \in T
  BY <1>1, <1>3, StepByStep
<1>5. n \in T
  BY <1>4
<1>. QED BY <1>5 DEF T

LEMMA LargestIn ==
    ASSUME NEW n \in Nat, NEW s \in SUBSET (1 .. n), s # {}
    PROVE  Largest(s) \in s
<1>. DEFINE T == {n - x : x \in s}
<1>1. T \in SUBSET Nat /\ T # {}
  <2>1. \A x \in s : n - x \in Nat
    OBVIOUS
  <2>2. PICK x \in s : TRUE
    OBVIOUS
  <2>. QED BY <2>1, <2>2
<1>2. PICK t \in T : \A u \in T : t <= u
  <2>. HIDE DEF T
  <2>. QED BY <1>1, LeastIsThere
<1>3. PICK x \in s : t = n - x
  BY <1>2
<1>4. ASSUME NEW y \in s PROVE x >= y
  <2>1. n - y \in T /\ x \in Int /\ y \in Int
    OBVIOUS
  <2>2. n - x <= n - y
    BY <1>2, <1>3, <2>1
  <2>. QED BY <2>1, <2>2
<1>. QED BY <1>4 DEF Largest

Entries == [kind : {"plain", "secret", "slash", "dot", "withheld"}, length : Nat]
Components == {"a", "b", "..", ".", ""}

LEMMA ShownTyped ==
    ASSUME NEW name \in Names
    PROVE  /\ Shown(name) \in Entries
           /\ name.kind # "slash" => Shown(name).kind \notin {"secret", "slash"}
BY DEF Names, Shown, Entries

LEMMA CostTyped ==
    ASSUME NEW entry \in Entries
    PROVE  Cost(entry) \in Nat
<1>1. entry.length \in Nat /\ EntryCost \in Nat /\ LetterCost \in Nat
  BY InspectionsAssumption DEF Entries
<1>2. LetterCost * entry.length \in Nat
  BY <1>1
<1>. QED BY <1>1, <1>2 DEF Cost

LEMMA JoinsSteps ==
    ASSUME NEW n \in Nat, NEW seq \in [1 .. n -> Names]
    PROVE  \E h : /\ h[0] = <<>> /\ WholeList(seq) = h[n]
                  /\ \A k \in 0 .. n : k < n => h[k + 1] = Joins(h[k], seq[k + 1])
<1>. DEFINE IsTheFold(f) == f = [s \in SUBSET (1 .. n) |->
                              IF s = {} THEN <<>> ELSE Joins(f[s \ {Largest(s)}], seq[Largest(s)])]
            step == [i \in 1 .. n |-> [v \in Seq(Entries) |-> Joins(v, seq[i])]]
            fold == CHOOSE f : IsTheFold(f)
            h == [k \in 0 .. n |-> fold[1 .. k]]
<1>1. DOMAIN seq = 1 .. n
  OBVIOUS
<1>2. WholeList(seq) = fold[1 .. n]
  BY <1>1 DEF WholeList, FoldLeft, MapThenFoldSet, Max, Largest
<1>3. step \in [1 .. n -> [Seq(Entries) -> Seq(Entries)]] /\ <<>> \in Seq(Entries)
  <2>1. ASSUME NEW v \in Seq(Entries), NEW i \in 1 .. n PROVE Joins(v, seq[i]) \in Seq(Entries)
    <3>1. Shown(seq[i]) \in Entries
      BY ShownTyped
    <3>. QED BY <3>1 DEF Joins
  <2>. QED BY <2>1
<1>4. \A i \in 1 .. n : \A v \in Seq(Entries) : step[i][v] = Joins(v, seq[i])
  OBVIOUS
<1>. HIDE DEF step
<1>5. PICK g \in [SUBSET (1 .. n) -> Seq(Entries)] : Folds(g, n, <<>>, step)
  BY <1>3, FoldsExist
<1>6. IsTheFold(g)
  <2>1. ASSUME NEW s \in SUBSET (1 .. n)
        PROVE  g[s] = IF s = {} THEN <<>> ELSE Joins(g[s \ {Largest(s)}], seq[Largest(s)])
    <3>1. CASE s = {}
      BY <1>5, <3>1 DEF Folds
    <3>2. CASE s # {}
      <4>1. Largest(s) \in 1 .. n /\ s \ {Largest(s)} \in SUBSET (1 .. n)
        BY <3>2, LargestIn
      <4>2. g[s \ {Largest(s)}] \in Seq(Entries)
        BY <1>5, <4>1
      <4>3. g[s] = step[Largest(s)][g[s \ {Largest(s)}]]
        BY <1>5, <3>2 DEF Folds
      <4>. QED BY <1>4, <3>2, <4>1, <4>2, <4>3
    <3>. QED BY <3>1, <3>2
  <2>2. [s \in SUBSET (1 .. n) |-> g[s]] =
          [s \in SUBSET (1 .. n) |-> IF s = {} THEN <<>> ELSE Joins(g[s \ {Largest(s)}], seq[Largest(s)])]
    BY <2>1
  <2>3. g = [s \in SUBSET (1 .. n) |-> g[s]]
    OBVIOUS
  <2>. QED BY <2>2, <2>3
<1>7. IsTheFold(fold)
  <2>. HIDE DEF IsTheFold
  <2>. QED BY <1>6
<1>. HIDE DEF fold
<1>8. \A s \in SUBSET (1 .. n) :
        fold[s] = IF s = {} THEN <<>> ELSE Joins(fold[s \ {Largest(s)}], seq[Largest(s)])
  BY <1>7, Zenon
<1>. HIDE DEF IsTheFold
<1>9. \A k \in 0 .. n : h[k] = fold[1 .. k]
  OBVIOUS
<1>. HIDE DEF h
<1>10. h[0] = <<>> /\ h[n] = fold[1 .. n]
  <2>1. 1 .. 0 = {} /\ 1 .. 0 \in SUBSET (1 .. n) /\ 0 \in 0 .. n /\ n \in 0 .. n
    OBVIOUS
  <2>2. fold[1 .. 0] = <<>>
    BY <1>8, <2>1
  <2>. QED BY <1>9, <2>1, <2>2
<1>11. ASSUME NEW k \in 0 .. n, k < n PROVE h[k + 1] = Joins(h[k], seq[k + 1])
  <2>. DEFINE s == 1 .. k + 1
  <2>1. k \in Nat /\ s \in SUBSET (1 .. k + 1) /\ s \in SUBSET (1 .. n) /\ k + 1 \in s /\ s # {}
        /\ k + 1 \in 0 .. n
    <3>1. k \in Nat /\ k + 1 <= n
      BY <1>11
    <3>2. \A i \in 1 .. k + 1 : i \in 1 .. n
      BY <3>1
    <3>3. k + 1 \in 1 .. k + 1 /\ k + 1 \in 0 .. n
      BY <3>1
    <3>. QED BY <3>1, <3>2, <3>3
  <2>2. s \ {k + 1} = 1 .. k
    BY <2>1
  <2>3. h[k] = fold[1 .. k] /\ h[k + 1] = fold[s]
    BY <1>9, <2>1
  <2>. HIDE DEF s
  <2>4. Largest(s) = k + 1
    BY <2>1, LargestIs
  <2>5. fold[s] = Joins(fold[s \ {Largest(s)}], seq[Largest(s)])
    BY <1>8, <2>1, Zenon
  <2>. QED BY <2>2, <2>3, <2>4, <2>5
<1>. QED BY <1>2, <1>10, <1>11

LEMMA ChargedSteps ==
    ASSUME NEW n \in Nat, NEW seq \in [1 .. n -> Entries]
    PROVE  \E h : /\ h[0] = BaseCost /\ ChargeOf(seq) = h[n]
                  /\ \A k \in 0 .. n : k < n => h[k + 1] = Charged(h[k], seq[k + 1])
<1>. DEFINE IsTheFold(f) == f = [s \in SUBSET (1 .. n) |->
                              IF s = {} THEN BaseCost ELSE Charged(f[s \ {Largest(s)}], seq[Largest(s)])]
            step == [i \in 1 .. n |-> [v \in Nat |-> Charged(v, seq[i])]]
            fold == CHOOSE f : IsTheFold(f)
            h == [k \in 0 .. n |-> fold[1 .. k]]
<1>1. DOMAIN seq = 1 .. n
  OBVIOUS
<1>2. ChargeOf(seq) = fold[1 .. n]
  BY <1>1 DEF ChargeOf, FoldLeft, MapThenFoldSet, Max, Largest
<1>3. step \in [1 .. n -> [Nat -> Nat]] /\ BaseCost \in Nat
  <2>1. ASSUME NEW v \in Nat, NEW i \in 1 .. n PROVE Charged(v, seq[i]) \in Nat
    <3>1. seq[i] \in Entries
      OBVIOUS
    <3>. QED BY <3>1, CostTyped DEF Charged
  <2>2. BaseCost \in Nat
    BY InspectionsAssumption
  <2>. QED BY <2>1, <2>2
<1>4. \A i \in 1 .. n : \A v \in Nat : step[i][v] = Charged(v, seq[i])
  OBVIOUS
<1>. HIDE DEF step
<1>5. PICK g \in [SUBSET (1 .. n) -> Nat] : Folds(g, n, BaseCost, step)
  BY <1>3, FoldsExist
<1>6. IsTheFold(g)
  <2>1. ASSUME NEW s \in SUBSET (1 .. n)
        PROVE  g[s] = IF s = {} THEN BaseCost ELSE Charged(g[s \ {Largest(s)}], seq[Largest(s)])
    <3>1. CASE s = {}
      BY <1>5, <3>1 DEF Folds
    <3>2. CASE s # {}
      <4>1. Largest(s) \in 1 .. n /\ s \ {Largest(s)} \in SUBSET (1 .. n)
        BY <3>2, LargestIn
      <4>2. g[s \ {Largest(s)}] \in Nat
        BY <1>5, <4>1
      <4>3. g[s] = step[Largest(s)][g[s \ {Largest(s)}]]
        BY <1>5, <3>2 DEF Folds
      <4>. QED BY <1>4, <3>2, <4>1, <4>2, <4>3
    <3>. QED BY <3>1, <3>2
  <2>2. [s \in SUBSET (1 .. n) |-> g[s]] =
          [s \in SUBSET (1 .. n) |-> IF s = {} THEN BaseCost ELSE Charged(g[s \ {Largest(s)}], seq[Largest(s)])]
    BY <2>1
  <2>3. g = [s \in SUBSET (1 .. n) |-> g[s]]
    OBVIOUS
  <2>. QED BY <2>2, <2>3
<1>7. IsTheFold(fold)
  <2>. HIDE DEF IsTheFold
  <2>. QED BY <1>6
<1>. HIDE DEF fold
<1>8. \A s \in SUBSET (1 .. n) :
        fold[s] = IF s = {} THEN BaseCost ELSE Charged(fold[s \ {Largest(s)}], seq[Largest(s)])
  BY <1>7, Zenon
<1>. HIDE DEF IsTheFold
<1>9. \A k \in 0 .. n : h[k] = fold[1 .. k]
  OBVIOUS
<1>. HIDE DEF h
<1>10. h[0] = BaseCost /\ h[n] = fold[1 .. n]
  <2>1. 1 .. 0 = {} /\ 1 .. 0 \in SUBSET (1 .. n) /\ 0 \in 0 .. n /\ n \in 0 .. n
    OBVIOUS
  <2>2. fold[1 .. 0] = BaseCost
    BY <1>8, <2>1
  <2>. QED BY <1>9, <2>1, <2>2
<1>11. ASSUME NEW k \in 0 .. n, k < n PROVE h[k + 1] = Charged(h[k], seq[k + 1])
  <2>. DEFINE s == 1 .. k + 1
  <2>1. k \in Nat /\ s \in SUBSET (1 .. k + 1) /\ s \in SUBSET (1 .. n) /\ k + 1 \in s /\ s # {}
        /\ k + 1 \in 0 .. n
    <3>1. k \in Nat /\ k + 1 <= n
      BY <1>11
    <3>2. \A i \in 1 .. k + 1 : i \in 1 .. n
      BY <3>1
    <3>3. k + 1 \in 1 .. k + 1 /\ k + 1 \in 0 .. n
      BY <3>1
    <3>. QED BY <3>1, <3>2, <3>3
  <2>2. s \ {k + 1} = 1 .. k
    BY <2>1
  <2>3. h[k] = fold[1 .. k] /\ h[k + 1] = fold[s]
    BY <1>9, <2>1
  <2>. HIDE DEF s
  <2>4. Largest(s) = k + 1
    BY <2>1, LargestIs
  <2>5. fold[s] = Charged(fold[s \ {Largest(s)}], seq[Largest(s)])
    BY <1>8, <2>1, Zenon
  <2>. QED BY <2>2, <2>3, <2>4, <2>5
<1>. QED BY <1>2, <1>10, <1>11

Looks == [at : {"resolving", "asking", "opening", "reading", "done"}, list : BOOLEAN, names : Seq(Names),
          entries : Seq(Entries), charge : Nat, packets : Nat, ends : {"no", "refused", "truncated"}]

LEMMA FrontIsSeq ==
    ASSUME NEW S, NEW s \in Seq(S), s # <<>>
    PROVE  Front(s) \in Seq(S) /\ Len(Front(s)) = Len(s) - 1 /\ \A i \in 1 .. Len(s) - 1 : Front(s)[i] = s[i]
<1>1. Len(s) \in Nat /\ Len(s) # 0
  BY LenProperties, EmptySeq
<1>2. \A i \in 1 .. Len(s) - 1 : s[i] \in S
  BY <1>1, ElementOfSeq
<1>3. /\ SubSeq(s, 1, Len(s) - 1) \in Seq(S)
      /\ Len(SubSeq(s, 1, Len(s) - 1)) = IF 1 <= Len(s) - 1 THEN Len(s) - 1 - 1 + 1 ELSE 0
      /\ \A i \in 1 .. Len(s) - 1 - 1 + 1 : SubSeq(s, 1, Len(s) - 1)[i] = s[1 + i - 1]
  BY <1>1, <1>2, SubSeqProperties
<1>4. Len(s) - 1 - 1 + 1 = Len(s) - 1 /\ (~(1 <= Len(s) - 1) => Len(s) - 1 = 0)
      /\ \A i \in 1 .. Len(s) - 1 : 1 + i - 1 = i
  <2>. DEFINE n == Len(s)
  <2>1. n \in Nat /\ n # 0
    BY <1>1
  <2>. HIDE DEF n
  <2>2. n - 1 - 1 + 1 = n - 1 /\ (~(1 <= n - 1) => n - 1 = 0)
    BY <2>1
  <2>3. \A i \in 1 .. n - 1 : 1 + i - 1 = i
    OBVIOUS
  <2>. QED BY <2>2, <2>3 DEF n
<1>5. Len(SubSeq(s, 1, Len(s) - 1)) = Len(s) - 1
  BY <1>3, <1>4
<1>6. \A i \in 1 .. Len(s) - 1 : SubSeq(s, 1, Len(s) - 1)[i] = s[i]
  BY <1>3, <1>4
<1>. QED BY <1>3, <1>5, <1>6 DEF Front

LEMMA EnteredTyped ==
    ASSUME NEW at \in Seq(Components), NEW component \in Components
    PROVE  Enters(at, component) \in Seq(Components)
<1>1. at # <<>> => Front(at) \in Seq(Components)
  BY FrontIsSeq
<1>2. Append(at, component) \in Seq(Components)
  OBVIOUS
<1>. QED BY <1>1, <1>2 DEF Enters

LEMMA AdmittedTyped ==
    ASSUME NEW l \in Looks, NEW name \in Names
    PROVE  EntryAdmitted(l, name) \in Looks
<1>. DEFINE entry == Shown(name)
<1>1. entry \in Entries /\ Cost(entry) \in Nat
  BY ShownTyped, CostTyped
<1>. HIDE DEF entry
<1>2. CASE l.ends # "no" \/ name.kind = "dot"
  <2>1. EntryAdmitted(l, name) = l
    BY <1>2, Zenon DEF EntryAdmitted
  <2>. QED BY <2>1
<1>3. CASE ~(l.ends # "no" \/ name.kind = "dot") /\ name.kind = "slash"
  BY <1>3 DEF EntryAdmitted, Looks
<1>4. CASE ~(l.ends # "no" \/ name.kind = "dot") /\ name.kind # "slash"
  <2>1. l.charge + Cost(entry) \in Nat /\ Append(l.entries, entry) \in Seq(Entries)
    BY <1>1 DEF Looks
  <2>2. [l EXCEPT !.ends = "truncated"] \in Looks
    BY DEF Looks
  <2>3. [l EXCEPT !.entries = Append(@, entry), !.charge = @ + Cost(entry)] \in Looks
    BY <2>1 DEF Looks
  <2>4. EntryAdmitted(l, name) \in
            {[l EXCEPT !.ends = "truncated"], [l EXCEPT !.entries = Append(@, entry), !.charge = @ + Cost(entry)]}
    BY <1>4 DEF EntryAdmitted, entry
  <2>. QED BY <2>2, <2>3, <2>4
<1>. QED BY <1>2, <1>3, <1>4

LEMMA EntersSteps ==
    ASSUME NEW n \in Nat, NEW seq \in [1 .. n -> Components], NEW raw, raw.components = seq
    PROVE  \E h : /\ h[0] = <<>> /\ Resolved(raw) = h[n]
                  /\ \A k \in 0 .. n : k < n => h[k + 1] = Enters(h[k], seq[k + 1])
<1>. DEFINE IsTheFold(f) == f = [s \in SUBSET (1 .. n) |->
                              IF s = {} THEN <<>> ELSE Enters(f[s \ {Largest(s)}], seq[Largest(s)])]
            step == [i \in 1 .. n |-> [v \in Seq(Components) |-> Enters(v, seq[i])]]
            fold == CHOOSE f : IsTheFold(f)
            h == [k \in 0 .. n |-> fold[1 .. k]]
<1>1. DOMAIN seq = 1 .. n
  OBVIOUS
<1>2. Resolved(raw) = fold[1 .. n]
  BY <1>1 DEF Resolved, FoldLeft, MapThenFoldSet, Max, Largest
<1>3. step \in [1 .. n -> [Seq(Components) -> Seq(Components)]] /\ <<>> \in Seq(Components)
  <2>1. ASSUME NEW v \in Seq(Components), NEW i \in 1 .. n PROVE Enters(v, seq[i]) \in Seq(Components)
    BY EnteredTyped
  <2>. QED BY <2>1
<1>4. \A i \in 1 .. n : \A v \in Seq(Components) : step[i][v] = Enters(v, seq[i])
  OBVIOUS
<1>. HIDE DEF step
<1>5. PICK g \in [SUBSET (1 .. n) -> Seq(Components)] : Folds(g, n, <<>>, step)
  BY <1>3, FoldsExist
<1>6. IsTheFold(g)
  <2>1. ASSUME NEW s \in SUBSET (1 .. n)
        PROVE  g[s] = IF s = {} THEN <<>> ELSE Enters(g[s \ {Largest(s)}], seq[Largest(s)])
    <3>1. CASE s = {}
      BY <1>5, <3>1 DEF Folds
    <3>2. CASE s # {}
      <4>1. Largest(s) \in 1 .. n /\ s \ {Largest(s)} \in SUBSET (1 .. n)
        BY <3>2, LargestIn
      <4>2. g[s \ {Largest(s)}] \in Seq(Components)
        BY <1>5, <4>1
      <4>3. g[s] = step[Largest(s)][g[s \ {Largest(s)}]]
        BY <1>5, <3>2 DEF Folds
      <4>. QED BY <1>4, <3>2, <4>1, <4>2, <4>3
    <3>. QED BY <3>1, <3>2
  <2>2. [s \in SUBSET (1 .. n) |-> g[s]] =
          [s \in SUBSET (1 .. n) |-> IF s = {} THEN <<>> ELSE Enters(g[s \ {Largest(s)}], seq[Largest(s)])]
    BY <2>1
  <2>3. g = [s \in SUBSET (1 .. n) |-> g[s]]
    OBVIOUS
  <2>. QED BY <2>2, <2>3
<1>7. IsTheFold(fold)
  <2>. HIDE DEF IsTheFold
  <2>. QED BY <1>6
<1>. HIDE DEF fold
<1>8. \A s \in SUBSET (1 .. n) :
        fold[s] = IF s = {} THEN <<>> ELSE Enters(fold[s \ {Largest(s)}], seq[Largest(s)])
  BY <1>7, Zenon
<1>. HIDE DEF IsTheFold
<1>9. \A k \in 0 .. n : h[k] = fold[1 .. k]
  OBVIOUS
<1>. HIDE DEF h
<1>10. h[0] = <<>> /\ h[n] = fold[1 .. n]
  <2>1. 1 .. 0 = {} /\ 1 .. 0 \in SUBSET (1 .. n) /\ 0 \in 0 .. n /\ n \in 0 .. n
    OBVIOUS
  <2>2. fold[1 .. 0] = <<>>
    BY <1>8, <2>1
  <2>. QED BY <1>9, <2>1, <2>2
<1>11. ASSUME NEW k \in 0 .. n, k < n PROVE h[k + 1] = Enters(h[k], seq[k + 1])
  <2>. DEFINE s == 1 .. k + 1
  <2>1. k \in Nat /\ s \in SUBSET (1 .. k + 1) /\ s \in SUBSET (1 .. n) /\ k + 1 \in s /\ s # {}
        /\ k + 1 \in 0 .. n
    <3>1. k \in Nat /\ k + 1 <= n
      BY <1>11
    <3>2. \A i \in 1 .. k + 1 : i \in 1 .. n
      BY <3>1
    <3>3. k + 1 \in 1 .. k + 1 /\ k + 1 \in 0 .. n
      BY <3>1
    <3>. QED BY <3>1, <3>2, <3>3
  <2>2. s \ {k + 1} = 1 .. k
    BY <2>1
  <2>3. h[k] = fold[1 .. k] /\ h[k + 1] = fold[s]
    BY <1>9, <2>1
  <2>. HIDE DEF s
  <2>4. Largest(s) = k + 1
    BY <2>1, LargestIs
  <2>5. fold[s] = Enters(fold[s \ {Largest(s)}], seq[Largest(s)])
    BY <1>8, <2>1, Zenon
  <2>. QED BY <2>2, <2>3, <2>4, <2>5
<1>. QED BY <1>2, <1>10, <1>11

LEMMA AdmittedSteps ==
    ASSUME NEW n \in Nat, NEW seq \in [1 .. n -> Names], NEW l \in Looks
    PROVE  \E h : /\ h[0] = l /\ Admitted(l, seq) = h[n]
                  /\ \A k \in 0 .. n : k < n => h[k + 1] = EntryAdmitted(h[k], seq[k + 1])
<1>. DEFINE IsTheFold(f) == f = [s \in SUBSET (1 .. n) |->
                              IF s = {} THEN l ELSE EntryAdmitted(f[s \ {Largest(s)}], seq[Largest(s)])]
            step == [i \in 1 .. n |-> [v \in Looks |-> EntryAdmitted(v, seq[i])]]
            fold == CHOOSE f : IsTheFold(f)
            h == [k \in 0 .. n |-> fold[1 .. k]]
<1>1. DOMAIN seq = 1 .. n
  OBVIOUS
<1>2. Admitted(l, seq) = fold[1 .. n]
  BY <1>1 DEF Admitted, FoldLeft, MapThenFoldSet, Max, Largest
<1>3. step \in [1 .. n -> [Looks -> Looks]] /\ l \in Looks
  <2>1. ASSUME NEW v \in Looks, NEW i \in 1 .. n PROVE EntryAdmitted(v, seq[i]) \in Looks
    BY AdmittedTyped
  <2>. QED BY <2>1
<1>4. \A i \in 1 .. n : \A v \in Looks : step[i][v] = EntryAdmitted(v, seq[i])
  OBVIOUS
<1>. HIDE DEF step
<1>5. PICK g \in [SUBSET (1 .. n) -> Looks] : Folds(g, n, l, step)
  BY <1>3, FoldsExist
<1>6. IsTheFold(g)
  <2>1. ASSUME NEW s \in SUBSET (1 .. n)
        PROVE  g[s] = IF s = {} THEN l ELSE EntryAdmitted(g[s \ {Largest(s)}], seq[Largest(s)])
    <3>1. CASE s = {}
      BY <1>5, <3>1 DEF Folds
    <3>2. CASE s # {}
      <4>1. Largest(s) \in 1 .. n /\ s \ {Largest(s)} \in SUBSET (1 .. n)
        BY <3>2, LargestIn
      <4>2. g[s \ {Largest(s)}] \in Looks
        BY <1>5, <4>1
      <4>3. g[s] = step[Largest(s)][g[s \ {Largest(s)}]]
        BY <1>5, <3>2 DEF Folds
      <4>. QED BY <1>4, <3>2, <4>1, <4>2, <4>3
    <3>. QED BY <3>1, <3>2
  <2>2. [s \in SUBSET (1 .. n) |-> g[s]] =
          [s \in SUBSET (1 .. n) |-> IF s = {} THEN l ELSE EntryAdmitted(g[s \ {Largest(s)}], seq[Largest(s)])]
    BY <2>1
  <2>3. g = [s \in SUBSET (1 .. n) |-> g[s]]
    OBVIOUS
  <2>. QED BY <2>2, <2>3
<1>7. IsTheFold(fold)
  <2>. HIDE DEF IsTheFold
  <2>. QED BY <1>6
<1>. HIDE DEF fold
<1>8. \A s \in SUBSET (1 .. n) :
        fold[s] = IF s = {} THEN l ELSE EntryAdmitted(fold[s \ {Largest(s)}], seq[Largest(s)])
  BY <1>7, Zenon
<1>. HIDE DEF IsTheFold
<1>9. \A k \in 0 .. n : h[k] = fold[1 .. k]
  OBVIOUS
<1>. HIDE DEF h
<1>10. h[0] = l /\ h[n] = fold[1 .. n]
  <2>1. 1 .. 0 = {} /\ 1 .. 0 \in SUBSET (1 .. n) /\ 0 \in 0 .. n /\ n \in 0 .. n
    OBVIOUS
  <2>2. fold[1 .. 0] = l
    BY <1>8, <2>1
  <2>. QED BY <1>9, <2>1, <2>2
<1>11. ASSUME NEW k \in 0 .. n, k < n PROVE h[k + 1] = EntryAdmitted(h[k], seq[k + 1])
  <2>. DEFINE s == 1 .. k + 1
  <2>1. k \in Nat /\ s \in SUBSET (1 .. k + 1) /\ s \in SUBSET (1 .. n) /\ k + 1 \in s /\ s # {}
        /\ k + 1 \in 0 .. n
    <3>1. k \in Nat /\ k + 1 <= n
      BY <1>11
    <3>2. \A i \in 1 .. k + 1 : i \in 1 .. n
      BY <3>1
    <3>3. k + 1 \in 1 .. k + 1 /\ k + 1 \in 0 .. n
      BY <3>1
    <3>. QED BY <3>1, <3>2, <3>3
  <2>2. s \ {k + 1} = 1 .. k
    BY <2>1
  <2>3. h[k] = fold[1 .. k] /\ h[k + 1] = fold[s]
    BY <1>9, <2>1
  <2>. HIDE DEF s
  <2>4. Largest(s) = k + 1
    BY <2>1, LargestIs
  <2>5. fold[s] = EntryAdmitted(fold[s \ {Largest(s)}], seq[Largest(s)])
    BY <1>8, <2>1, Zenon
  <2>. QED BY <2>2, <2>3, <2>4, <2>5
<1>. QED BY <1>2, <1>10, <1>11

-----------------------------------------------------------------------------
(* Paths *)

LEMMA SeqIsFunction ==
    ASSUME NEW S, NEW s \in Seq(S)
    PROVE  Len(s) \in Nat /\ s \in [1 .. Len(s) -> S]
BY LenProperties

IsName(component) == component \notin {"..", ".", ""}
UpName == ".."
EmptyName == ""
Root == <<"">>

LEMMA NameIsEntered ==
    ASSUME NEW at, NEW component, IsName(component)
    PROVE  Enters(at, component) = Append(at, component)
BY Zenon DEF IsName, Enters

LEMMA OneElement ==
    ASSUME NEW S, NEW e \in S
    PROVE  <<e>> \in Seq(S) /\ Len(<<e>>) = 1 /\ <<e>>[1] = e /\ DOMAIN <<e>> = {1}
OBVIOUS

LEMMA OtherNames ==
    /\ UpName \in Components /\ EmptyName \in Components
    /\ Enters(<<>>, EmptyName) = <<>> /\ Enters(<<>>, UpName) = <<>>
    /\ \A at : at # <<>> => Enters(at, UpName) = Front(at)
    /\ Root \in Seq(Components) /\ Len(Root) = 1 /\ Root[1] = EmptyName /\ DOMAIN Root = {1}
    /\ ~IsName(EmptyName)
<1>1. UpName \in Components /\ EmptyName \in Components
  BY Zenon DEF UpName, EmptyName, Components
<1>2. Enters(<<>>, EmptyName) = <<>> /\ Enters(<<>>, UpName) = <<>>
  BY Zenon DEF UpName, EmptyName, Enters
<1>3. UpName \notin {".", ""} /\ UpName = ".."
  BY Zenon DEF UpName
<1>4. ASSUME NEW at, at # <<>> PROVE Enters(at, UpName) = Front(at)
  BY <1>3, <1>4, Zenon DEF Enters
<1>5. Root = <<EmptyName>>
  BY Zenon DEF Root, EmptyName
<1>6. Root \in Seq(Components) /\ Len(Root) = 1 /\ Root[1] = EmptyName /\ DOMAIN Root = {1}
  BY <1>1, <1>5, OneElement
<1>7. ~IsName(EmptyName)
  BY Zenon DEF IsName, EmptyName
<1>. QED BY <1>1, <1>2, <1>4, <1>6, <1>7

(* What Parses says of the components. *)
LEMMA ParsesMeans ==
    ASSUME NEW raw
    PROVE  /\ Parses(raw) => \/ raw.absolute /\ raw.components = Root
                             \/ raw.absolute /\ \A i \in DOMAIN raw.components : IsName(raw.components[i])
           /\ raw.absolute = TRUE /\ raw.components = Root => Parses(raw) /\ IsRoot(raw)
           /\ raw.absolute = TRUE /\ (\A i \in DOMAIN raw.components : IsName(raw.components[i])) => Parses(raw)
           /\ IsRoot(raw) => raw.components = Root
<1>1. IsRoot(raw) <=> raw.absolute /\ raw.components = Root
  BY Zenon DEF IsRoot, Root
<1>2. ASSUME Parses(raw), ~IsRoot(raw), NEW i \in DOMAIN raw.components PROVE IsName(raw.components[i])
  BY <1>2, Zenon DEF Parses, IsName
<1>3. Parses(raw) => raw.absolute
  BY Zenon DEF Parses
<1>4. ASSUME raw.absolute = TRUE, raw.components = Root PROVE Parses(raw) /\ IsRoot(raw)
  <2>1. IsRoot(raw) /\ raw.absolute
    BY <1>1, <1>4, Zenon
  <2>2. ASSUME NEW i \in DOMAIN raw.components PROVE raw.components[i] \notin {"..", "."}
    <3>1. raw.components[i] = EmptyName
      BY <1>4, OtherNames
    <3>2. EmptyName \notin {"..", "."}
      BY Zenon DEF EmptyName
    <3>. QED BY <3>1, <3>2, Zenon
  <2>. QED BY <2>1, <2>2, Zenon DEF Parses
<1>5. ASSUME raw.absolute = TRUE, \A i \in DOMAIN raw.components : IsName(raw.components[i]) PROVE Parses(raw)
  BY <1>5, Zenon DEF Parses, IsName
<1>. QED BY <1>1, <1>2, <1>3, <1>4, <1>5, Zenon

(* Components that are names are entered one after the other. *)
LEMMA NamesAreEntered ==
    ASSUME NEW n \in Nat, NEW seq \in [1 .. n -> Components], NEW m \in 0 .. n, NEW h, h[0] = <<>>,
           \A k \in 0 .. n : k < n => h[k + 1] = Enters(h[k], seq[k + 1]),
           \A i \in 1 .. m : IsName(seq[i])
    PROVE  h[m] \in Seq(Components) /\ Len(h[m]) = m /\ \A i \in 1 .. m : h[m][i] = seq[i]
<1>. DEFINE Reached(k) == h[k] \in Seq(Components) /\ Len(h[k]) = k /\ \A i \in 1 .. k : h[k][i] = seq[i]
            T == {k \in 0 .. m : Reached(k)}
<1>1. 0 \in T
  <2>1. Len(<<>>) = 0 /\ <<>> \in Seq(Components) /\ \A i \in 1 .. 0 : FALSE
    OBVIOUS
  <2>2. Reached(0)
    BY <2>1
  <2>. HIDE DEF Reached
  <2>. QED BY <2>2
<1>2. ASSUME NEW k \in Nat, k < m, k \in T PROVE k + 1 \in T
  <2>1. Reached(k)
    BY <1>2
  <2>2. k + 1 \in 1 .. m /\ k \in 0 .. n /\ k < n /\ k + 1 \in 1 .. n /\ k + 1 \in 0 .. m
    BY <1>2
  <2>3. seq[k + 1] \in Components /\ IsName(seq[k + 1])
    BY <2>2
  <2>4. h[k + 1] = Append(h[k], seq[k + 1])
    BY <2>2, <2>3, NameIsEntered
  <2>5. /\ Append(h[k], seq[k + 1]) \in Seq(Components) /\ Len(Append(h[k], seq[k + 1])) = k + 1
        /\ \A i \in 1 .. k : Append(h[k], seq[k + 1])[i] = h[k][i]
        /\ Append(h[k], seq[k + 1])[k + 1] = seq[k + 1]
    BY <2>1, <2>3, AppendProperties
  <2>6. \A i \in 1 .. k + 1 : i # k + 1 => i \in 1 .. k
    BY <1>2
  <2>7. \A i \in 1 .. k + 1 : h[k + 1][i] = seq[i]
    BY <2>1, <2>4, <2>5, <2>6
  <2>8. Reached(k + 1)
    BY <2>4, <2>5, <2>7
  <2>. QED BY <2>2, <2>8
<1>. HIDE DEF T
<1>3. \A k \in Nat : k < m /\ k \in T => k + 1 \in T
  BY <1>2
<1>4. m \in Nat
  OBVIOUS
<1>5. \A k \in 0 .. m : k \in T
  BY <1>1, <1>3, <1>4, StepByStep, Zenon
<1>6. m \in 0 .. m
  BY <1>4
<1>7. m \in T
  BY <1>5, <1>6
<1>. QED BY <1>7 DEF T

LEMMA NamesResolve ==
    ASSUME NEW n \in Nat, NEW seq \in [1 .. n -> Components], NEW raw, raw.components = seq,
           \A i \in 1 .. n : IsName(seq[i])
    PROVE  Resolved(raw) = seq
<1>1. PICK h : /\ h[0] = <<>> /\ Resolved(raw) = h[n]
               /\ \A k \in 0 .. n : k < n => h[k + 1] = Enters(h[k], seq[k + 1])
  BY EntersSteps
<1>2. h[n] \in Seq(Components) /\ Len(h[n]) = n /\ \A i \in 1 .. n : h[n][i] = seq[i]
  <2>1. n \in 0 .. n
    OBVIOUS
  <2>. QED BY <1>1, <2>1, NamesAreEntered
<1>3. seq \in Seq(Components) /\ Len(seq) = n
  BY FunctionIsSeq
<1>4. h[n] = seq
  BY <1>2, <1>3, SeqEqual
<1>. QED BY <1>1, <1>4

(* ... and left by "..". *)
LEMMA NamesAreLeft ==
    ASSUME NEW n \in Nat, n # 0, NEW seq \in [1 .. n -> Components], NEW raw,
           raw.components = Append(seq, UpName),
           \A i \in 1 .. n : IsName(seq[i])
    PROVE  Resolved(raw) = Front(seq)
<1>. DEFINE more == Append(seq, UpName)
<1>1. seq \in Seq(Components) /\ Len(seq) = n
  BY FunctionIsSeq
<1>2. more \in Seq(Components) /\ Len(more) = n + 1 /\ more[n + 1] = UpName /\ \A i \in 1 .. n : more[i] = seq[i]
  BY <1>1, OtherNames, AppendProperties
<1>. HIDE DEF more
<1>3. more \in [1 .. n + 1 -> Components] /\ n + 1 \in Nat
  BY <1>2, SeqIsFunction
<1>4. PICK h : /\ h[0] = <<>> /\ Resolved(raw) = h[n + 1]
               /\ \A k \in 0 .. n + 1 : k < n + 1 => h[k + 1] = Enters(h[k], more[k + 1])
  <2>1. raw.components = more
    BY DEF more
  <2>. QED BY <1>3, <2>1, EntersSteps
<1>5. h[n] \in Seq(Components) /\ Len(h[n]) = n /\ \A i \in 1 .. n : h[n][i] = more[i]
  <2>1. n \in 0 .. n + 1 /\ \A i \in 1 .. n : IsName(more[i])
    BY <1>2
  <2>. QED BY <1>3, <1>4, <2>1, NamesAreEntered
<1>6. h[n] = seq
  BY <1>1, <1>2, <1>5, SeqEqual
<1>7. h[n + 1] = Enters(seq, UpName)
  BY <1>2, <1>4, <1>6
<1>8. seq # <<>>
  BY <1>1, EmptySeq
<1>9. Enters(seq, UpName) = Front(seq)
  BY <1>8, OtherNames
<1>. QED BY <1>4, <1>7, <1>9

LEMMA SecondIsAppended ==
    ASSUME NEW S, NEW s \in Seq(S), NEW e \in S
    PROVE  Len(s) = 1 => /\ Append(s, e) \in Seq(S) /\ Len(Append(s, e)) = 2
                         /\ Append(s, e)[1] = s[1] /\ Append(s, e)[2] = e
<1>. DEFINE n == Len(s)
            more == Append(s, e)
<1>1. more \in Seq(S) /\ Len(more) = n + 1 /\ more[n + 1] = e /\ \A i \in 1 .. n : more[i] = s[i]
  BY AppendProperties
<1>. HIDE DEF more
<1>2. SUFFICES ASSUME n = 1
               PROVE  more \in Seq(S) /\ Len(more) = 2 /\ more[1] = s[1] /\ more[2] = e
  BY DEF more
<1>. HIDE DEF n
<1>3. n + 1 = 2 /\ 1 \in 1 .. n
  BY <1>2
<1>. QED BY <1>1, <1>3 DEF more

LEMMA RootsResolve ==
    ASSUME NEW raw, raw.components = Root \/ raw.components = Append(Root, UpName)
    PROVE  Resolved(raw) = <<>>
<1>. DEFINE seq == raw.components
            n == Len(seq)
<1>1. /\ Root \in Seq(Components) /\ Len(Root) = 1 /\ Root[1] = EmptyName
      /\ Append(Root, UpName) \in Seq(Components) /\ Len(Append(Root, UpName)) = 2
      /\ Append(Root, UpName)[1] = EmptyName /\ Append(Root, UpName)[2] = UpName
  <2>1. UpName \in Components /\ Root \in Seq(Components) /\ Len(Root) = 1 /\ Root[1] = EmptyName
    BY OtherNames
  <2>2. /\ Append(Root, UpName) \in Seq(Components) /\ Len(Append(Root, UpName)) = 2
        /\ Append(Root, UpName)[1] = Root[1] /\ Append(Root, UpName)[2] = UpName
    <3>. DEFINE s == Root
                e == UpName
    <3>1. s \in Seq(Components) /\ Len(s) = 1 /\ e \in Components
      BY <2>1
    <3>. HIDE DEF s, e
    <3>2. Append(s, e) \in Seq(Components) /\ Len(Append(s, e)) = 2 /\ Append(s, e)[1] = s[1] /\ Append(s, e)[2] = e
      BY <3>1, SecondIsAppended
    <3>. QED BY <3>2, Zenon DEF s, e
  <2>. QED BY <2>1, <2>2, Zenon
<1>2. /\ seq \in Seq(Components) /\ n \in {1, 2} /\ seq[1] = EmptyName /\ (n = 2 => seq[2] = UpName)
  BY <1>1
<1>3. seq \in [1 .. n -> Components] /\ n \in Nat
  BY <1>2, SeqIsFunction
<1>. HIDE DEF n
<1>4. PICK h : /\ h[0] = <<>> /\ Resolved(raw) = h[n]
               /\ \A k \in 0 .. n : k < n => h[k + 1] = Enters(h[k], seq[k + 1])
  BY <1>3, EntersSteps
<1>5. Enters(<<>>, EmptyName) = <<>> /\ Enters(<<>>, UpName) = <<>>
  BY OtherNames
<1>6. h[0 + 1] = <<>>
  <2>1. 0 \in 0 .. n /\ 0 < n /\ 0 + 1 = 1
    BY <1>2
  <2>. QED BY <1>2, <1>4, <1>5, <2>1
<1>7. n = 2 => h[1 + 1] = <<>>
  <2>1. n = 2 => 1 \in 0 .. n /\ 1 < n /\ 1 + 1 = 2
    OBVIOUS
  <2>. QED BY <1>2, <1>4, <1>5, <1>6, <2>1
<1>. QED BY <1>2, <1>4, <1>6, <1>7

(* OneSpelling, of one path. *)
Spelled(raw) ==
    /\ Resolved(raw) = IF IsRoot(raw) THEN <<>> ELSE raw.components
    /\ Parses(Parent(raw))
    /\ Resolved(Parent(raw)) = Resolved([raw EXCEPT !.components = Append(@, UpName)])

LEMMA AlwaysOneSpelling == OneSpelling
<1>0. ASSUME \A raw \in Raws : Parses(raw) => Spelled(raw) PROVE OneSpelling
  BY <1>0, Zenon DEF OneSpelling, Spelled, UpName
<1>1. SUFFICES ASSUME NEW raw \in Raws, Parses(raw) PROVE Spelled(raw)
  BY <1>0
<1>. DEFINE seq == raw.components
            n == Len(seq)
            up == [raw EXCEPT !.components = Append(@, UpName)]
            parent == Parent(raw)
<1>2. raw \in [absolute : BOOLEAN, components : SeqOf(Components, MaxComponents) \ {<<>>}] /\ raw.absolute
  BY <1>1, Zenon DEF Raws, Parses, Components
<1>3. /\ seq \in Seq(Components) /\ n \in Nat /\ n # 0 /\ DOMAIN seq = 1 .. n /\ seq \in [1 .. n -> Components]
      /\ seq # <<>> /\ raw.absolute = TRUE
  <2>1. PICK m \in 0 .. MaxComponents : seq \in [1 .. m -> Components]
    BY <1>2 DEF SeqOf
  <2>2. m \in Nat
    BY InspectionsAssumption
  <2>3. seq \in Seq(Components) /\ Len(seq) = m
    BY <2>1, <2>2, FunctionIsSeq
  <2>4. seq # <<>> /\ raw.absolute = TRUE
    BY <1>2
  <2>. QED BY <2>1, <2>2, <2>3, <2>4, EmptySeq
<1>4. up.components = Append(seq, UpName) /\ DOMAIN raw = {"absolute", "components"}
  BY <1>2
<1>. HIDE DEF up
<1>5. parent = IF n > 1 THEN [raw EXCEPT !.components = Front(@)] ELSE [raw EXCEPT !.components = Root]
  BY Zenon DEF Parent, Root
<1>6. parent.components = (IF n > 1 THEN Front(seq) ELSE Root) /\ parent.absolute = TRUE
  BY <1>2, <1>3, <1>5
<1>. HIDE DEF parent
<1>7. CASE raw.components = Root
  <2>1. n = 1 /\ IsRoot(raw)
    BY <1>3, <1>7, OtherNames, ParsesMeans
  <2>2. parent.components = Root
    BY <1>6, <2>1
  <2>3. Parses(parent)
    BY <1>6, <2>2, ParsesMeans
  <2>4. Resolved(parent) = <<>> /\ Resolved(raw) = <<>> /\ Resolved(up) = <<>>
    BY <1>4, <1>7, <2>2, RootsResolve
  <2>. QED BY <2>1, <2>3, <2>4 DEF Spelled, up, parent
<1>8. CASE raw.components # Root
  <2>1. ~IsRoot(raw) /\ \A i \in 1 .. n : IsName(seq[i])
    BY <1>1, <1>3, <1>8, ParsesMeans
  <2>2. Resolved(raw) = seq
    BY <1>3, <2>1, NamesResolve
  <2>3. Resolved(up) = Front(seq)
    BY <1>3, <1>4, <2>1, NamesAreLeft
  <2>4. Front(seq) \in Seq(Components) /\ Len(Front(seq)) = n - 1 /\ \A i \in 1 .. n - 1 : Front(seq)[i] = seq[i]
    BY <1>3, FrontIsSeq
  <2>5. CASE n > 1
    <3>1. parent.components = Front(seq)
      BY <1>6, <2>5
    <3>2. n - 1 \in Nat /\ Front(seq) \in [1 .. n - 1 -> Components]
      BY <1>3, <2>4, SeqIsFunction
    <3>3. \A i \in 1 .. n - 1 : IsName(Front(seq)[i])
      <4>1. \A i \in 1 .. n - 1 : i \in 1 .. n
        BY <1>3
      <4>. QED BY <2>1, <2>4, <4>1
    <3>4. Resolved(parent) = Front(seq)
      BY <3>1, <3>2, <3>3, NamesResolve
    <3>5. Parses(parent)
      BY <1>6, <3>1, <3>2, <3>3, ParsesMeans
    <3>. QED BY <2>1, <2>2, <2>3, <3>4, <3>5 DEF Spelled, up, parent
  <2>6. CASE ~(n > 1)
    <3>0. n = 1
      <4>. HIDE DEF n
      <4>1. n \in Nat /\ n # 0 /\ ~(n > 1)
        BY <1>3, <2>6
      <4>. HIDE <1>3, <2>6
      <4>. QED BY <4>1
    <3>1. n = 1 /\ parent.components = Root
      BY <1>6, <2>6, <3>0
    <3>2. Parses(parent)
      BY <1>6, <3>1, ParsesMeans
    <3>3. Resolved(parent) = <<>>
      BY <3>1, RootsResolve
    <3>4. Front(seq) = <<>>
      BY <2>4, <3>1, EmptySeq
    <3>. QED BY <2>1, <2>2, <2>3, <3>2, <3>3, <3>4 DEF Spelled, up, parent
  <2>. QED BY <2>5, <2>6
<1>. QED BY <1>7, <1>8

-----------------------------------------------------------------------------
(* Lists and what they are charged grow an entry at a time. *)

LEMMA ChargeGrows ==
    /\ ChargeOf(<<>>) = BaseCost
    /\ \A s \in Seq(Entries), e \in Entries : ChargeOf(Append(s, e)) = ChargeOf(s) + Cost(e)
<1>1. ChargeOf(<<>>) = BaseCost
  <2>1. <<>> \in [1 .. 0 -> Entries] /\ 0 \in Nat
    OBVIOUS
  <2>. QED BY <2>1, ChargedSteps
<1>2. ASSUME NEW s \in Seq(Entries), NEW e \in Entries
      PROVE  ChargeOf(Append(s, e)) = ChargeOf(s) + Cost(e)
  <2>. DEFINE n == Len(s)
              more == Append(s, e)
  <2>1. n \in Nat /\ s \in [1 .. n -> Entries]
    BY SeqIsFunction
  <2>2. more \in Seq(Entries) /\ Len(more) = n + 1 /\ more[n + 1] = e /\ \A i \in 1 .. n : more[i] = s[i]
    BY AppendProperties
  <2>. HIDE DEF n, more
  <2>3. more \in [1 .. n + 1 -> Entries] /\ n + 1 \in Nat
    BY <2>1, <2>2, SeqIsFunction
  <2>4. PICK h : /\ h[0] = BaseCost /\ ChargeOf(s) = h[n]
                 /\ \A k \in 0 .. n : k < n => h[k + 1] = Charged(h[k], s[k + 1])
    BY <2>1, ChargedSteps
  <2>5. PICK g : /\ g[0] = BaseCost /\ ChargeOf(more) = g[n + 1]
                 /\ \A k \in 0 .. n + 1 : k < n + 1 => g[k + 1] = Charged(g[k], more[k + 1])
    BY <2>3, ChargedSteps
  <2>. DEFINE T == {k \in 0 .. n : g[k] = h[k]}
  <2>6. 0 \in T
    BY <2>1, <2>4, <2>5
  <2>7. ASSUME NEW k \in Nat, k < n, k \in T PROVE k + 1 \in T
    <3>1. k \in 0 .. n /\ k \in 0 .. n + 1 /\ k < n + 1 /\ k + 1 \in 1 .. n /\ k + 1 \in 0 .. n
      BY <2>1, <2>7
    <3>2. g[k + 1] = Charged(g[k], more[k + 1]) /\ h[k + 1] = Charged(h[k], s[k + 1])
      BY <2>4, <2>5, <2>7, <3>1
    <3>3. g[k] = h[k] /\ more[k + 1] = s[k + 1]
      BY <2>2, <2>7, <3>1
    <3>. QED BY <3>1, <3>2, <3>3
  <2>. HIDE DEF T
  <2>8. \A k \in 0 .. n : k \in T
    <3>1. \A k \in Nat : k < n /\ k \in T => k + 1 \in T
      BY <2>7
    <3>. QED BY <2>1, <2>6, <3>1, StepByStep
  <2>9. n \in 0 .. n /\ n \in 0 .. n + 1 /\ n < n + 1
    BY <2>1
  <2>10. g[n] = h[n]
    BY <2>8, <2>9 DEF T
  <2>11. ChargeOf(more) = Charged(ChargeOf(s), e)
    BY <2>2, <2>4, <2>5, <2>9, <2>10
  <2>. QED BY <2>11 DEF Charged, more
<1>. QED BY <1>1, <1>2

LEMMA ListGrows ==
    /\ WholeList(<<>>) = <<>>
    /\ \A s \in Seq(Names), name \in Names : WholeList(Append(s, name)) = Joins(WholeList(s), name)
<1>1. WholeList(<<>>) = <<>>
  <2>1. <<>> \in [1 .. 0 -> Names] /\ 0 \in Nat
    OBVIOUS
  <2>. QED BY <2>1, JoinsSteps
<1>2. ASSUME NEW s \in Seq(Names), NEW name \in Names
      PROVE  WholeList(Append(s, name)) = Joins(WholeList(s), name)
  <2>. DEFINE n == Len(s)
              more == Append(s, name)
  <2>1. n \in Nat /\ s \in [1 .. n -> Names]
    BY SeqIsFunction
  <2>2. more \in Seq(Names) /\ Len(more) = n + 1 /\ more[n + 1] = name /\ \A i \in 1 .. n : more[i] = s[i]
    BY AppendProperties
  <2>. HIDE DEF n, more
  <2>3. more \in [1 .. n + 1 -> Names] /\ n + 1 \in Nat
    BY <2>1, <2>2, SeqIsFunction
  <2>4. PICK h : /\ h[0] = <<>> /\ WholeList(s) = h[n]
                 /\ \A k \in 0 .. n : k < n => h[k + 1] = Joins(h[k], s[k + 1])
    BY <2>1, JoinsSteps
  <2>5. PICK g : /\ g[0] = <<>> /\ WholeList(more) = g[n + 1]
                 /\ \A k \in 0 .. n + 1 : k < n + 1 => g[k + 1] = Joins(g[k], more[k + 1])
    BY <2>3, JoinsSteps
  <2>. DEFINE T == {k \in 0 .. n : g[k] = h[k]}
  <2>6. 0 \in T
    BY <2>1, <2>4, <2>5
  <2>7. ASSUME NEW k \in Nat, k < n, k \in T PROVE k + 1 \in T
    <3>1. k \in 0 .. n /\ k \in 0 .. n + 1 /\ k < n + 1 /\ k + 1 \in 1 .. n /\ k + 1 \in 0 .. n
      BY <2>1, <2>7
    <3>2. g[k + 1] = Joins(g[k], more[k + 1]) /\ h[k + 1] = Joins(h[k], s[k + 1])
      BY <2>4, <2>5, <2>7, <3>1
    <3>3. g[k] = h[k] /\ more[k + 1] = s[k + 1]
      BY <2>2, <2>7, <3>1
    <3>. QED BY <3>1, <3>2, <3>3
  <2>. HIDE DEF T
  <2>8. \A k \in 0 .. n : k \in T
    <3>1. \A k \in Nat : k < n /\ k \in T => k + 1 \in T
      BY <2>7
    <3>. QED BY <2>1, <2>6, <3>1, StepByStep
  <2>9. n \in 0 .. n /\ n \in 0 .. n + 1 /\ n < n + 1
    BY <2>1
  <2>10. g[n] = h[n]
    BY <2>8, <2>9 DEF T
  <2>11. WholeList(more) = Joins(WholeList(s), name)
    BY <2>2, <2>4, <2>5, <2>9, <2>10
  <2>. QED BY <2>11 DEF more
<1>. QED BY <1>1, <1>2

(* What the first k names of a directory are told as. *)
ListTo(names, k) == WholeList(SubSeq(names, 1, k))

LEMMA ListToGrows ==
    ASSUME NEW names \in Seq(Names)
    PROVE  /\ ListTo(names, 0) = <<>> /\ ListTo(names, Len(names)) = WholeList(names)
           /\ \A k \in 0 .. Len(names) : k < Len(names) =>
                  ListTo(names, k + 1) = Joins(ListTo(names, k), names[k + 1])
<1>. DEFINE n == Len(names)
<1>1. n \in Nat /\ names \in [1 .. n -> Names]
  BY SeqIsFunction
<1>2. SubSeq(names, 1, 0) = <<>>
  OBVIOUS
<1>3. SubSeq(names, 1, n) = names
  OBVIOUS
<1>4. ASSUME NEW k \in 0 .. n, k < n
      PROVE  /\ SubSeq(names, 1, k) \in Seq(Names) /\ names[k + 1] \in Names
             /\ SubSeq(names, 1, k + 1) = Append(SubSeq(names, 1, k), names[k + 1])
  <2>. HIDE DEF n
  <2>1. k \in Nat /\ k + 1 \in 1 .. n /\ k + 1 \in Nat
    BY <1>1, <1>4
  <2>2. names[k + 1] \in Names
    BY <1>1, <2>1
  <2>3. \A i \in 1 .. k + 1 : names[i] \in Names
    BY <1>1, <1>4
  <2>4. /\ SubSeq(names, 1, k) \in Seq(Names)
        /\ SubSeq(names, 1, k + 1) = Append(SubSeq(names, 1, k), names[k + 1])
    BY <1>1, <2>1, <2>3 DEF n
  <2>. QED BY <2>2, <2>4
<1>5. ASSUME NEW k \in 0 .. n, k < n PROVE ListTo(names, k + 1) = Joins(ListTo(names, k), names[k + 1])
  <2>. HIDE DEF n
  <2>. QED BY <1>4, <1>5, ListGrows DEF ListTo
<1>6. ListTo(names, 0) = <<>>
  BY <1>2, ListGrows DEF ListTo
<1>. QED BY <1>3, <1>5, <1>6 DEF ListTo

StartsWith(s, t) == Len(s) <= Len(t) /\ \A i \in 1 .. Len(s) : s[i] = t[i]

LEMMA BeginsIsPrefix ==
    ASSUME NEW S, NEW s \in Seq(S), NEW t \in Seq(S), StartsWith(s, t)
    PROVE  IsPrefix(s, t)
<1>. DEFINE n == Len(s)
<1>1. n \in Nat /\ Len(t) \in Nat /\ n <= Len(t)
  BY DEF StartsWith
<1>2. SubSeq(s, 1, n) = s
  OBVIOUS
<1>3. \A i \in 1 .. n : t[i] = s[i]
  BY DEF StartsWith
<1>4. \A i \in 1 .. n : t[i] \in S
  BY <1>3
<1>5. /\ SubSeq(t, 1, n) \in Seq(S) /\ Len(SubSeq(t, 1, n)) = n
      /\ \A i \in 1 .. n : SubSeq(t, 1, n)[i] = t[i]
  <2>. HIDE DEF n
  <2>1. /\ SubSeq(t, 1, n) \in Seq(S) /\ Len(SubSeq(t, 1, n)) = IF 1 <= n THEN n - 1 + 1 ELSE 0
        /\ \A i \in 1 .. n - 1 + 1 : SubSeq(t, 1, n)[i] = t[1 + i - 1]
    BY <1>1, <1>4, SubSeqProperties
  <2>2. n - 1 + 1 = n /\ (~(1 <= n) => n = 0) /\ \A i \in 1 .. n : 1 + i - 1 = i
    BY <1>1
  <2>3. Len(SubSeq(t, 1, n)) = n
    BY <2>1, <2>2
  <2>4. \A i \in 1 .. n : SubSeq(t, 1, n)[i] = t[i]
    BY <2>1, <2>2
  <2>. QED BY <2>1, <2>3, <2>4
<1>6. SubSeq(t, 1, n) = s
  BY <1>3, <1>5, SeqEqual
<1>. QED BY <1>1, <1>2, <1>6 DEF IsPrefix

LEMMA JoinsBegins ==
    ASSUME NEW s \in Seq(Entries), NEW name \in Names
    PROVE  Joins(s, name) \in Seq(Entries) /\ StartsWith(s, Joins(s, name))
<1>1. Shown(name) \in Entries
  BY ShownTyped
<1>2. /\ Append(s, Shown(name)) \in Seq(Entries) /\ Len(Append(s, Shown(name))) = Len(s) + 1 /\ Len(s) \in Nat
      /\ \A i \in 1 .. Len(s) : Append(s, Shown(name))[i] = s[i]
  BY <1>1, AppendProperties
<1>. QED BY <1>2 DEF Joins, StartsWith

(* What a directory is told as begins with what its first names are told as. *)
LEMMA ListToBegins ==
    ASSUME NEW names \in Seq(Names), NEW m \in 0 .. Len(names)
    PROVE  ListTo(names, m) \in Seq(Entries) /\ IsPrefix(ListTo(names, m), WholeList(names))
<1>. DEFINE n == Len(names)
            T == {k \in 0 .. n : ListTo(names, k) \in Seq(Entries)}
            U == {j \in 0 .. n : m + j <= n => StartsWith(ListTo(names, m), ListTo(names, m + j))}
<1>1. n \in Nat /\ m \in Nat /\ m <= n /\ names \in [1 .. n -> Names]
  BY SeqIsFunction
<1>2. ListTo(names, 0) = <<>> /\ ListTo(names, n) = WholeList(names)
  BY ListToGrows
<1>3. \A k \in 0 .. n : k < n => ListTo(names, k + 1) = Joins(ListTo(names, k), names[k + 1])
  BY ListToGrows
<1>. HIDE DEF n
<1>4. \A k \in 0 .. n : ListTo(names, k) \in Seq(Entries)
  <2>1. 0 \in T
    <3>1. <<>> \in Seq(Entries) /\ 0 \in 0 .. n
      BY <1>1
    <3>. QED BY <1>2, <3>1
  <2>2. ASSUME NEW k \in Nat, k < n, k \in T PROVE k + 1 \in T
    <3>1. k \in 0 .. n /\ k + 1 \in 0 .. n /\ names[k + 1] \in Names
      BY <1>1, <2>2
    <3>2. ListTo(names, k + 1) \in Seq(Entries)
      BY <1>3, <2>2, <3>1, JoinsBegins
    <3>. QED BY <3>1, <3>2
  <2>. HIDE DEF T
  <2>3. \A k \in Nat : k < n /\ k \in T => k + 1 \in T
    BY <2>2
  <2>4. \A k \in 0 .. n : k \in T
    BY <1>1, <2>1, <2>3, StepByStep
  <2>. QED BY <2>4 DEF T
<1>5. \A j \in 0 .. n : j \in U
  <2>1. 0 \in U
    <3>1. m + 0 = m /\ 0 \in 0 .. n /\ m \in 0 .. n
      BY <1>1
    <3>2. Len(ListTo(names, m)) \in Nat
      BY <1>4, <3>1, LenProperties
    <3>3. StartsWith(ListTo(names, m), ListTo(names, m))
      BY <3>2 DEF StartsWith
    <3>. QED BY <3>1, <3>3
  <2>2. ASSUME NEW j \in Nat, j < n, j \in U PROVE j + 1 \in U
    <3>1. j + 1 \in 0 .. n
      BY <1>1, <2>2
    <3>2. ASSUME m + (j + 1) <= n PROVE StartsWith(ListTo(names, m), ListTo(names, m + (j + 1)))
      <4>. DEFINE k == m + j
      <4>1. k \in 0 .. n /\ k < n /\ k + 1 = m + (j + 1) /\ m + j <= n /\ k + 1 \in 1 .. n /\ m \in 0 .. n
        BY <1>1, <2>2, <3>2
      <4>2. StartsWith(ListTo(names, m), ListTo(names, k))
        BY <2>2, <4>1
      <4>. HIDE DEF k
      <4>3. names[k + 1] \in Names
        BY <1>1, <4>1
      <4>4. ListTo(names, k + 1) = Joins(ListTo(names, k), names[k + 1])
        BY <1>3, <4>1
      <4>5. ListTo(names, k + 1) \in Seq(Entries) /\ StartsWith(ListTo(names, k), ListTo(names, k + 1))
        BY <1>4, <4>1, <4>3, <4>4, JoinsBegins
      <4>6. ListTo(names, m) \in Seq(Entries) /\ ListTo(names, k) \in Seq(Entries)
        BY <1>4, <4>1
      <4>7. StartsWith(ListTo(names, m), ListTo(names, k + 1))
        <5>1. Len(ListTo(names, m)) \in Nat /\ Len(ListTo(names, k)) \in Nat /\ Len(ListTo(names, k + 1)) \in Nat
          BY <4>5, <4>6, LenProperties
        <5>. QED BY <4>2, <4>5, <5>1 DEF StartsWith
      <4>. QED BY <4>1, <4>7
    <3>. QED BY <3>1, <3>2
  <2>. HIDE DEF U
  <2>3. \A j \in Nat : j < n /\ j \in U => j + 1 \in U
    BY <2>2
  <2>. QED BY <1>1, <2>1, <2>3, StepByStep
<1>6. n - m \in 0 .. n /\ m + (n - m) = n /\ m \in 0 .. n /\ n \in 0 .. n
  BY <1>1
<1>7. StartsWith(ListTo(names, m), ListTo(names, n))
  <2>. DEFINE j == n - m
  <2>1. j \in 0 .. n /\ m + j = n /\ m + j <= n
    BY <1>1, <1>6
  <2>. HIDE DEF j
  <2>2. j \in U
    BY <1>5, <2>1
  <2>. QED BY <2>1, <2>2
<1>8. ListTo(names, m) \in Seq(Entries) /\ ListTo(names, n) \in Seq(Entries)
  BY <1>4, <1>6
<1>9. IsPrefix(ListTo(names, m), ListTo(names, n))
  BY <1>7, <1>8, BeginsIsPrefix
<1>. QED BY <1>2, <1>8, <1>9

(* A call has read the first r names of its directory. *)
HasRead(l, r) ==
    /\ l \in Looks /\ r \in 0 .. Len(l.names)
    /\ IsBounded(l.entries) /\ l.charge = ChargeOf(l.entries)
    /\ l.ends = "no" => l.entries = ListTo(l.names, r)
    /\ l.ends = "truncated" => \E m \in 0 .. Len(l.names) : l.entries = ListTo(l.names, m)

LEMMA NameIsRead ==
    ASSUME NEW l, NEW r \in Nat, HasRead(l, r), r < Len(l.names)
    PROVE  /\ HasRead(EntryAdmitted(l, l.names[r + 1]), r + 1)
           /\ EntryAdmitted(l, l.names[r + 1]).names = l.names
           /\ EntryAdmitted(l, l.names[r + 1]).at = l.at
<1>. DEFINE name == l.names[r + 1]
            entry == Shown(name)
            names == l.names
            after == EntryAdmitted(l, name)
<1>1. l \in Looks /\ names \in Seq(Names) /\ Len(names) \in Nat /\ r + 1 \in 1 .. Len(names) /\ r \in 0 .. Len(names)
      /\ r + 1 \in 0 .. Len(names)
  <2>1. l \in Looks /\ names \in Seq(Names)
    BY DEF HasRead, Looks
  <2>2. Len(names) \in Nat
    BY <2>1, LenProperties
  <2>. QED BY <2>1, <2>2
<1>2. name \in Names /\ entry \in Entries /\ Cost(entry) \in Nat
      /\ (name.kind # "slash" => entry.kind \notin {"secret", "slash"})
  BY <1>1, ElementOfSeq, ShownTyped, CostTyped
<1>3. after \in Looks
  BY <1>1, <1>2, AdmittedTyped
<1>4. ListTo(names, r + 1) = Joins(ListTo(names, r), name)
  BY <1>1, ListToGrows
<1>5. /\ l.entries \in Seq(Entries) /\ Len(l.entries) \in Nat /\ l.charge \in Nat /\ l.charge = ChargeOf(l.entries)
      /\ Len(l.entries) <= MaxEntries /\ ChargeOf(l.entries) <= MaxCharge /\ IsBounded(l.entries)
      /\ \A i \in DOMAIN l.entries : l.entries[i].kind \notin {"secret", "slash"}
  <2>1. l.entries \in Seq(Entries) /\ l.charge \in Nat
    BY <1>1 DEF Looks
  <2>. QED BY <2>1, LenProperties DEF HasRead, IsBounded
<1>6. /\ l.ends = "no" => l.entries = ListTo(names, r)
      /\ l.ends = "truncated" => \E m \in 0 .. Len(names) : l.entries = ListTo(names, m)
  BY DEF HasRead
<1>. HIDE DEF name, entry, names, after
<1>7. CASE l.ends # "no"
  <2>1. after = l
    BY <1>7, Zenon DEF after, EntryAdmitted
  <2>2. HasRead(after, r + 1)
    BY <1>1, <1>5, <1>6, <1>7, <2>1 DEF HasRead, names
  <2>. QED BY <2>1, <2>2 DEF after, name, names
<1>8. CASE l.ends = "no" /\ name.kind = "dot"
  <2>1. after = l
    BY <1>8, Zenon DEF after, EntryAdmitted
  <2>2. l.entries = ListTo(names, r + 1)
    BY <1>4, <1>6, <1>8 DEF Joins
  <2>3. HasRead(after, r + 1)
    BY <1>1, <1>5, <1>6, <1>8, <2>1, <2>2 DEF HasRead, names
  <2>. QED BY <2>1, <2>3 DEF after, name, names
<1>9. CASE l.ends = "no" /\ name.kind = "slash"
  <2>1. after = [l EXCEPT !.ends = "refused"]
    BY <1>9 DEF after, EntryAdmitted
  <2>2. after.entries = l.entries /\ after.charge = l.charge /\ after.ends = "refused" /\ after.names = l.names
        /\ after.at = l.at
    BY <1>1, <2>1 DEF Looks
  <2>3. HasRead(after, r + 1)
    BY <1>1, <1>3, <1>5, <2>2 DEF HasRead, names
  <2>. QED BY <2>2, <2>3 DEF after, name, names
<1>10. CASE /\ l.ends = "no" /\ name.kind \notin {"dot", "slash"}
            /\ Len(l.entries) = MaxEntries \/ l.charge + Cost(entry) > MaxCharge
  <2>1. after = [l EXCEPT !.ends = "truncated"]
    BY <1>10 DEF after, EntryAdmitted, entry
  <2>2. after.entries = l.entries /\ after.charge = l.charge /\ after.ends = "truncated" /\ after.names = l.names
        /\ after.at = l.at
    BY <1>1, <2>1 DEF Looks
  <2>3. l.entries = ListTo(names, r)
    BY <1>6, <1>10
  <2>4. HasRead(after, r + 1)
    BY <1>1, <1>3, <1>5, <2>2, <2>3 DEF HasRead, names
  <2>. QED BY <2>2, <2>4 DEF after, name, names
<1>11. CASE /\ l.ends = "no" /\ name.kind \notin {"dot", "slash"}
            /\ Len(l.entries) # MaxEntries /\ ~(l.charge + Cost(entry) > MaxCharge)
  <2>. DEFINE more == Append(l.entries, entry)
  <2>1. after = [l EXCEPT !.entries = Append(@, entry), !.charge = @ + Cost(entry)]
    BY <1>11 DEF after, EntryAdmitted, entry
  <2>2. after.entries = more /\ after.charge = l.charge + Cost(entry) /\ after.ends = "no" /\ after.names = l.names
        /\ after.at = l.at
    BY <1>1, <1>11, <2>1 DEF Looks
  <2>3. /\ more \in Seq(Entries) /\ Len(more) = Len(l.entries) + 1 /\ more[Len(l.entries) + 1] = entry
        /\ \A i \in 1 .. Len(l.entries) : more[i] = l.entries[i]
    BY <1>2, <1>5, AppendProperties
  <2>4. ChargeOf(more) = ChargeOf(l.entries) + Cost(entry)
    BY <1>2, <1>5, ChargeGrows
  <2>5. l.entries = ListTo(names, r)
    BY <1>6, <1>11
  <2>6. more = ListTo(names, r + 1)
    BY <1>4, <1>11, <2>5 DEF Joins, entry
  <2>. HIDE DEF more
  <2>7. Len(more) <= MaxEntries /\ ChargeOf(more) <= MaxCharge
    <3>1. MaxEntries \in Nat /\ MaxCharge \in Nat
      BY InspectionsAssumption
    <3>2. Len(more) <= MaxEntries
      BY <1>5, <1>11, <2>3, <3>1
    <3>3. ChargeOf(more) <= MaxCharge
      BY <1>2, <1>5, <1>11, <2>4, <3>1
    <3>. QED BY <3>2, <3>3
  <2>8. \A i \in DOMAIN more : more[i].kind \notin {"secret", "slash"}
    <3>1. ASSUME NEW i \in 1 .. Len(l.entries) + 1 PROVE more[i].kind \notin {"secret", "slash"}
      <4>1. CASE i = Len(l.entries) + 1
        BY <1>2, <1>11, <2>3, <4>1
      <4>2. CASE i # Len(l.entries) + 1
        <5>1. i \in 1 .. Len(l.entries)
          BY <1>5, <4>2
        <5>2. i \in DOMAIN l.entries
          BY <1>5, <5>1, LenProperties
        <5>. QED BY <1>5, <2>3, <5>1, <5>2
      <4>. QED BY <4>1, <4>2
    <3>2. DOMAIN more = 1 .. Len(l.entries) + 1
      BY <2>3, LenProperties
    <3>. QED BY <3>1, <3>2
  <2>9. IsBounded(more)
    BY <2>7, <2>8 DEF IsBounded
  <2>10. HasRead(after, r + 1)
    BY <1>1, <1>3, <1>5, <2>2, <2>4, <2>6, <2>9 DEF HasRead, names
  <2>. QED BY <2>2, <2>10 DEF after, name, names
<1>. QED BY <1>7, <1>8, <1>9, <1>10, <1>11

LEMMA PacketIsRead ==
    ASSUME NEW l, NEW r \in Nat, HasRead(l, r), NEW packet \in Seq(Names), r + Len(packet) <= Len(l.names),
           \A i \in 1 .. Len(packet) : packet[i] = l.names[r + i]
    PROVE  /\ HasRead(Admitted(l, packet), r + Len(packet))
           /\ Admitted(l, packet).names = l.names /\ Admitted(l, packet).at = l.at
<1>. DEFINE n == Len(packet)
            total == Len(l.names)
<1>1. n \in Nat /\ packet \in [1 .. n -> Names]
  BY SeqIsFunction
<1>2. l \in Looks /\ total \in Nat /\ r + n <= total
  <2>1. l \in Looks /\ l.names \in Seq(Names)
    BY DEF HasRead, Looks
  <2>. QED BY <2>1, LenProperties
<1>3. \A i \in 1 .. n : packet[i] = l.names[r + i]
  OBVIOUS
<1>. HIDE DEF n, total
<1>4. PICK h : /\ h[0] = l /\ Admitted(l, packet) = h[n]
               /\ \A k \in 0 .. n : k < n => h[k + 1] = EntryAdmitted(h[k], packet[k + 1])
  BY <1>1, <1>2, AdmittedSteps
<1>. DEFINE Reached(k) == HasRead(h[k], r + k) /\ h[k].names = l.names /\ h[k].at = l.at
            T == {k \in 0 .. n : Reached(k)}
<1>5. 0 \in T
  <2>1. r + 0 = r /\ 0 \in 0 .. n
    BY <1>1
  <2>2. Reached(0)
    BY <1>4, <2>1
  <2>. QED BY <2>1, <2>2
<1>6. ASSUME NEW k \in Nat, k < n, k \in T PROVE k + 1 \in T
  <2>. DEFINE was == h[k]
              at == r + k
  <2>1. HasRead(was, at) /\ was.names = l.names /\ was.at = l.at
    BY <1>6
  <2>2. at \in Nat /\ at < total /\ k \in 0 .. n /\ k + 1 \in 1 .. n /\ k + 1 \in 0 .. n /\ at + 1 = r + (k + 1)
    BY <1>1, <1>2, <1>6
  <2>3. packet[k + 1] = was.names[at + 1]
    BY <1>3, <2>1, <2>2
  <2>4. h[k + 1] = EntryAdmitted(was, packet[k + 1])
    BY <1>4, <1>6, <2>2
  <2>. HIDE DEF was, at
  <2>5. /\ HasRead(EntryAdmitted(was, was.names[at + 1]), at + 1)
        /\ EntryAdmitted(was, was.names[at + 1]).names = was.names
        /\ EntryAdmitted(was, was.names[at + 1]).at = was.at
    BY <2>1, <2>2, NameIsRead DEF total
  <2>6. Reached(k + 1)
    BY <2>1, <2>2, <2>3, <2>4, <2>5
  <2>. QED BY <2>2, <2>6
<1>. HIDE DEF T
<1>7. \A k \in Nat : k < n /\ k \in T => k + 1 \in T
  BY <1>6
<1>8. \A k \in 0 .. n : k \in T
  BY <1>1, <1>5, <1>7, StepByStep
<1>9. n \in T
  BY <1>1, <1>8
<1>10. Reached(n)
  BY <1>9 DEF T
<1>. QED BY <1>4, <1>10 DEF n

LEMMA SameIsRead ==
    ASSUME NEW l, NEW r, HasRead(l, r), NEW m \in Looks,
           m.names = l.names, m.entries = l.entries, m.charge = l.charge, m.ends = l.ends
    PROVE  HasRead(m, r)
BY DEF HasRead

(* What a handle has not given after r names. *)
IsRest(rest, names, r) ==
    rest \in Seq(Names) /\ r + Len(rest) = Len(names) /\ \A i \in 1 .. Len(rest) : rest[i] = names[r + i]

(* A packet is the next of them, and what is left is the rest after it. *)
LEMMA PacketIsNext ==
    ASSUME NEW names, NEW r \in Nat, NEW rest, IsRest(rest, names, r), NEW count \in 0 .. Len(rest)
    PROVE  /\ SubSeq(rest, 1, count) \in Seq(Names) /\ Len(SubSeq(rest, 1, count)) = count
           /\ r + count <= Len(names) /\ count \in Nat
           /\ \A i \in 1 .. count : SubSeq(rest, 1, count)[i] = names[r + i]
           /\ IsRest(SubSeq(rest, count + 1, Len(rest)), names, r + count)
<1>. DEFINE n == Len(rest)
            left == SubSeq(rest, count + 1, n)
            packet == SubSeq(rest, 1, count)
            total == Len(names)
<1>1. rest \in Seq(Names) /\ n \in Nat /\ r + n = total /\ \A i \in 1 .. n : rest[i] = names[r + i]
  BY LenProperties DEF IsRest
<1>2. \A i \in 1 .. n : rest[i] \in Names
  BY <1>1, ElementOfSeq
<1>. HIDE DEF n, total
<1>3. count \in Nat /\ count <= n
  BY <1>1 DEF n
<1>4. (\A i \in 1 .. count : rest[i] \in Names) /\ (\A i \in count + 1 .. n : rest[i] \in Names)
  BY <1>1, <1>2, <1>3
<1>5. /\ packet \in Seq(Names) /\ Len(packet) = IF 1 <= count THEN count - 1 + 1 ELSE 0
      /\ \A i \in 1 .. count - 1 + 1 : packet[i] = rest[1 + i - 1]
  BY <1>3, <1>4, SubSeqProperties
<1>6. /\ left \in Seq(Names) /\ Len(left) = IF count + 1 <= n THEN n - (count + 1) + 1 ELSE 0
      /\ \A i \in 1 .. n - (count + 1) + 1 : left[i] = rest[count + 1 + i - 1]
  <2>1. count + 1 \in Int /\ n \in Int
    BY <1>1, <1>3
  <2>. QED BY <1>4, <2>1, SubSeqProperties
<1>. HIDE DEF left, packet
<1>7. count - 1 + 1 = count /\ (~(1 <= count) => count = 0) /\ \A i \in 1 .. count : 1 + i - 1 = i /\ i \in 1 .. n
  BY <1>1, <1>3
<1>8. /\ n - (count + 1) + 1 = n - count /\ (~(count + 1 <= n) => n - count = 0)
      /\ n - count \in Nat /\ (r + count) + (n - count) = total /\ r + count <= total
  BY <1>1, <1>3
<1>9. Len(packet) = count /\ \A i \in 1 .. count : packet[i] = names[r + i]
  <2>1. Len(packet) = count
    BY <1>5, <1>7
  <2>2. \A i \in 1 .. count : packet[i] = rest[i]
    BY <1>5, <1>7
  <2>. QED BY <1>1, <1>7, <2>1, <2>2
<1>10. Len(left) = n - count
  BY <1>6, <1>8
<1>11. ASSUME NEW i \in 1 .. n - count PROVE left[i] = names[(r + count) + i]
  <2>1. count + 1 + i - 1 = count + i /\ count + i \in 1 .. n /\ r + (count + i) = (r + count) + i
        /\ i \in 1 .. n - (count + 1) + 1
    BY <1>1, <1>3
  <2>2. left[i] = rest[count + i]
    BY <1>6, <2>1
  <2>. QED BY <1>1, <2>1, <2>2
<1>12. IsRest(left, names, r + count)
  BY <1>6, <1>8, <1>10, <1>11 DEF IsRest, total
<1>. QED BY <1>3, <1>5, <1>8, <1>9, <1>12 DEF packet, left, total, n

-----------------------------------------------------------------------------
(* The call *)

(* LookTells, of one reply. *)
LookTellsOf(result) ==
    /\ result.is = "list" =>
        /\ IsBounded(result.entries)
        /\ IF result.truncated THEN IsPrefix(result.entries, WholeList(look.names))
           ELSE result.entries = WholeList(look.names)
    /\ result.is \in {"stat", "list"} /\ ~replaced => prefix = "itself" /\ object # "link"

(* A call that has not ended has read a beginning of its directory, and was shown what
   is at the path, unless that has been replaced. *)
LookInvariant ==
    /\ look \in Looks /\ unread \in Seq(Names) /\ prefix \in {"itself", "elsewhere"}
    /\ look.at # "done" =>
        /\ look.ends = "no"
        /\ \E r \in Nat : HasRead(look, r) /\ IsRest(unread, look.names, r)
    /\ look.at \notin {"resolving", "done"} /\ ~replaced => prefix = "itself"
    /\ look.at \in {"opening", "reading"} /\ ~replaced => object # "link"
    /\ look.at # "done" => reply.is = "nothing"
    /\ LookTellsOf(reply)

LEMMA FailureTells ==
    ASSUME NEW result, result.is \notin {"list", "stat"}
    PROVE  LookTellsOf(result)
BY DEF LookTellsOf

LEMMA RefusalsAreNoLists ==
    \A cause \in {"failed", "elsewhere", "RemoteIo"} : LookTellsOf([is |-> cause])
<1>1. \A cause \in {"failed", "elsewhere", "RemoteIo"} : [is |-> cause].is \notin {"list", "stat"}
  OBVIOUS
<1>. QED BY <1>1, FailureTells

(* A list that was cut short, and one of everything. *)
LEMMA ListingTells ==
    ASSUME NEW l, IsBounded(l.entries), ~replaced => prefix = "itself" /\ object # "link"
    PROVE  /\ IsPrefix(l.entries, WholeList(look.names)) => LookTellsOf(ListingOf(l, TRUE))
           /\ l.entries = WholeList(look.names) => LookTellsOf(ListingOf(l, FALSE))
<1>1. \A b \in BOOLEAN : ListingOf(l, b).is = "list" /\ ListingOf(l, b).entries = l.entries /\ ListingOf(l, b).truncated = b
  BY DEF ListingOf
<1>2. ASSUME IsPrefix(l.entries, WholeList(look.names)) PROVE LookTellsOf(ListingOf(l, TRUE))
  BY <1>1, <1>2, Zenon DEF LookTellsOf
<1>3. ASSUME l.entries = WholeList(look.names) PROVE LookTellsOf(ListingOf(l, FALSE))
  BY <1>1, <1>3, Zenon DEF LookTellsOf
<1>. QED BY <1>2, <1>3

LEMMA AnswersKeep ==
    ASSUME LookInvariant, NEW result, Answers(result), LookTellsOf(result),
           UNCHANGED <<prefix, object, replaced>>, unread' \in Seq(Names)
    PROVE  LookInvariant'
<1>1. look' \in Looks /\ look'.at = "done" /\ look'.names = look.names
  BY DEF LookInvariant, Answers, Looks
<1>2. LookTellsOf(reply)'
  <2>1. reply' = result /\ prefix' = prefix /\ object' = object /\ replaced' = replaced
    BY DEF Answers
  <2>2. result.is = "list" =>
          /\ IsBounded(result.entries)
          /\ IF result.truncated THEN IsPrefix(result.entries, WholeList(look'.names))
             ELSE result.entries = WholeList(look'.names)
    BY <1>1, Zenon DEF LookTellsOf
  <2>3. result.is \in {"stat", "list"} /\ ~replaced' => prefix' = "itself" /\ object' # "link"
    BY <2>1 DEF LookTellsOf
  <2>. QED BY <2>1, <2>2, <2>3, Zenon DEF LookTellsOf
<1>. QED BY <1>1, <1>2 DEF LookInvariant

LEMMA LookStarts == InspectionsInit => LookInvariant
<1>1. SUFFICES ASSUME InspectionsInit PROVE LookInvariant
  OBVIOUS
<1>2. unread \in Seq(Names)
  <2>1. PICK m \in 0 .. MaxNames : unread \in [1 .. m -> Names]
    BY <1>1 DEF InspectionsInit, Directories, SeqOf
  <2>2. m \in Nat
    BY InspectionsAssumption
  <2>. QED BY <2>1, <2>2, FunctionIsSeq
<1>3. PICK list \in BOOLEAN :
        look = [at |-> "resolving", list |-> list, names |-> unread, entries |-> <<>>,
                charge |-> BaseCost, packets |-> 0, ends |-> "no"]
  BY <1>1 DEF InspectionsInit
<1>4. BaseCost \in Nat /\ BaseCost <= MaxCharge /\ MaxEntries \in Nat
  BY InspectionsAssumption
<1>5. /\ look \in Looks /\ look.at = "resolving" /\ look.names = unread /\ look.entries = <<>>
      /\ look.charge = BaseCost /\ look.ends = "no"
  <2>1. <<>> \in Seq(Entries)
    OBVIOUS
  <2>. QED BY <1>2, <1>3, <1>4, <2>1 DEF Looks
<1>6. IsBounded(<<>>) /\ ChargeOf(<<>>) = BaseCost
  <2>1. Len(<<>>) = 0 /\ DOMAIN <<>> = {}
    OBVIOUS
  <2>2. ChargeOf(<<>>) = BaseCost
    BY ChargeGrows
  <2>. QED BY <1>4, <2>1, <2>2 DEF IsBounded
<1>7. HasRead(look, 0)
  <2>1. 0 \in 0 .. Len(unread)
    BY <1>2, LenProperties
  <2>2. ListTo(unread, 0) = <<>>
    BY <1>2, ListToGrows
  <2>. QED BY <1>5, <1>6, <2>1, <2>2 DEF HasRead
<1>8. IsRest(unread, look.names, 0)
  <2>1. Len(unread) \in Nat
    BY <1>2, LenProperties
  <2>2. 0 + Len(unread) = Len(unread) /\ \A i \in 1 .. Len(unread) : 0 + i = i
    BY <2>1
  <2>. QED BY <1>2, <1>5, <2>2 DEF IsRest
<1>9. reply.is = "nothing" /\ LookTellsOf(reply)
  <2>1. reply.is = "nothing"
    BY <1>1 DEF InspectionsInit
  <2>. QED BY <2>1, FailureTells
<1>10. prefix \in {"itself", "elsewhere"}
  BY <1>1 DEF InspectionsInit
<1>. QED BY <1>2, <1>5, <1>7, <1>8, <1>9, <1>10 DEF LookInvariant

LEMMA ContinuesKeep ==
    ASSUME LookInvariant, NEW at \in {"asking", "opening", "reading"}, Continues(at), look.at # "done",
           UNCHANGED <<prefix, object, replaced, unread>>, ~replaced => prefix = "itself",
           at # "asking" /\ ~replaced => object # "link"
    PROVE  LookInvariant'
<1>1. /\ look' \in Looks /\ look'.at = at /\ look'.names = look.names /\ look'.entries = look.entries
      /\ look'.charge = look.charge /\ look'.ends = look.ends
  BY DEF LookInvariant, Continues, Looks
<1>2. PICK r \in Nat : HasRead(look, r) /\ IsRest(unread, look.names, r)
  BY DEF LookInvariant
<1>3. HasRead(look', r)
  BY <1>1, <1>2, SameIsRead
<1>4. IsRest(unread', look'.names, r)
  BY <1>1, <1>2
<1>5. look'.ends = "no" /\ reply'.is = "nothing"
  BY <1>1 DEF LookInvariant, Continues
<1>6. LookTellsOf(reply)'
  BY <1>5 DEF LookTellsOf
<1>7. /\ ~replaced' => prefix' = "itself"
      /\ look'.at \in {"opening", "reading"} /\ ~replaced' => object' # "link"
  BY <1>1
<1>8. unread' \in Seq(Names)
  BY DEF LookInvariant
<1>. QED BY <1>1, <1>3, <1>4, <1>5, <1>6, <1>7, <1>8 DEF LookInvariant

LEMMA ReadDirectoryKeeps ==
    ASSUME LookInvariant, NEW count \in 0 .. Len(unread), ReadDirectory(count)
    PROVE  LookInvariant'
<1>. DEFINE packet == SubSeq(unread, 1, count)
            left == SubSeq(unread, count + 1, Len(unread))
            read == Admitted(look, packet)
            names == look.names
<1>1. look \in Looks /\ unread \in Seq(Names) /\ look.at = "reading" /\ look.ends = "no" /\ names \in Seq(Names)
  BY DEF LookInvariant, ReadDirectory, Looks
<1>2. PICK r \in Nat : HasRead(look, r) /\ IsRest(unread, names, r)
  BY <1>1 DEF LookInvariant
<1>3. r \in 0 .. Len(names) /\ look.entries = ListTo(names, r) /\ IsBounded(look.entries)
  BY <1>1, <1>2 DEF HasRead
<1>4. (~replaced => prefix = "itself" /\ object # "link") /\ reply.is = "nothing"
  BY <1>1 DEF LookInvariant
<1>5. UNCHANGED <<prefix, object, replaced>>
  BY DEF ReadDirectory
<1>6. CASE look.packets = MaxEntries
  <2>1. Answers(ListingOf(look, TRUE)) /\ UNCHANGED unread
    BY <1>6 DEF ReadDirectory
  <2>2. IsPrefix(look.entries, WholeList(names))
    BY <1>1, <1>3, ListToBegins
  <2>3. LookTellsOf(ListingOf(look, TRUE))
    BY <1>3, <1>4, <2>2, ListingTells
  <2>4. unread' \in Seq(Names)
    BY <1>1, <2>1
  <2>. QED BY <1>5, <2>1, <2>3, <2>4, AnswersKeep
<1>7. CASE look.packets # MaxEntries /\ count = 0
  <2>1. LookRefused("RemoteIo") /\ UNCHANGED unread
    BY <1>7 DEF ReadDirectory
  <2>2. LookTellsOf([is |-> "RemoteIo"]) /\ Answers([is |-> "RemoteIo"])
    BY <2>1, RefusalsAreNoLists DEF LookRefused
  <2>3. unread' \in Seq(Names)
    BY <1>1, <2>1
  <2>. QED BY <1>5, <2>2, <2>3, AnswersKeep
<1>8. CASE look.packets # MaxEntries /\ count # 0
  <2>1. /\ unread' = left
        /\ read.ends = "refused" => LookRefused("RemoteIo")
        /\ read.ends = "truncated" => Answers(ListingOf(read, TRUE))
        /\ read.ends \notin {"refused", "truncated"} => look' = [read EXCEPT !.packets = @ + 1] /\ UNCHANGED reply
    BY <1>8 DEF ReadDirectory
  <2>2. /\ packet \in Seq(Names) /\ Len(packet) = count /\ r + count <= Len(names) /\ count \in Nat
        /\ \A i \in 1 .. count : packet[i] = names[r + i]
        /\ IsRest(left, names, r + count)
    <3>. DEFINE rest == unread
    <3>1. IsRest(rest, names, r) /\ count \in 0 .. Len(rest)
      BY <1>2
    <3>. HIDE DEF rest, names
    <3>2. /\ SubSeq(rest, 1, count) \in Seq(Names) /\ Len(SubSeq(rest, 1, count)) = count
          /\ r + count <= Len(names) /\ count \in Nat
          /\ \A i \in 1 .. count : SubSeq(rest, 1, count)[i] = names[r + i]
          /\ IsRest(SubSeq(rest, count + 1, Len(rest)), names, r + count)
      BY <3>1, PacketIsNext
    <3>. QED BY <3>2 DEF rest
  <2>. HIDE DEF packet, left
  <2>3. HasRead(read, r + count) /\ read.names = names /\ read.at = look.at
    BY <1>2, <2>2, PacketIsRead
  <2>. HIDE DEF read
  <2>4. r + count \in Nat /\ read \in Looks /\ IsBounded(read.entries) /\ left \in Seq(Names)
    BY <1>2, <2>2, <2>3 DEF HasRead, IsRest
  <2>5. CASE read.ends = "refused"
    <3>1. LookTellsOf([is |-> "RemoteIo"]) /\ Answers([is |-> "RemoteIo"])
      BY <2>1, <2>5, RefusalsAreNoLists DEF LookRefused
    <3>. QED BY <1>5, <2>1, <2>4, <3>1, AnswersKeep
  <2>6. CASE read.ends = "truncated"
    <3>1. PICK m \in 0 .. Len(names) : read.entries = ListTo(names, m)
      BY <2>3, <2>6 DEF HasRead
    <3>2. IsPrefix(read.entries, WholeList(names))
      BY <1>1, <3>1, ListToBegins
    <3>3. LookTellsOf(ListingOf(read, TRUE))
      BY <1>4, <2>4, <3>2, ListingTells
    <3>4. Answers(ListingOf(read, TRUE)) /\ unread' \in Seq(Names)
      BY <2>1, <2>4, <2>6
    <3>. QED BY <1>5, <3>3, <3>4, AnswersKeep
  <2>7. CASE read.ends \notin {"refused", "truncated"}
    <3>1. look' = [read EXCEPT !.packets = @ + 1] /\ reply' = reply
      BY <2>1, <2>7
    <3>0. read.ends = "no" /\ read.packets + 1 \in Nat /\ read.at = "reading"
      BY <1>1, <2>3, <2>4, <2>7 DEF Looks
    <3>2. /\ look' \in Looks /\ look'.at = "reading" /\ look'.names = read.names /\ look'.entries = read.entries
          /\ look'.charge = read.charge /\ look'.ends = read.ends /\ read.ends = "no"
      BY <2>4, <3>0, <3>1 DEF Looks
    <3>3. HasRead(look', r + count)
      BY <2>3, <3>2, SameIsRead
    <3>4. IsRest(unread', look'.names, r + count)
      BY <2>1, <2>2, <2>3, <3>2
    <3>5. LookTellsOf(reply)'
      BY <1>4, <3>1 DEF LookTellsOf
    <3>6. (~replaced' => prefix' = "itself" /\ object' # "link") /\ reply'.is = "nothing" /\ unread' \in Seq(Names)
      BY <1>4, <1>5, <2>1, <2>4, <3>1
    <3>7. prefix' \in {"itself", "elsewhere"}
      BY <1>5 DEF LookInvariant
    <3>. QED BY <2>4, <3>7, <3>2, <3>3, <3>4, <3>5, <3>6 DEF LookInvariant
  <2>. QED BY <2>5, <2>6, <2>7
<1>. QED BY <1>6, <1>7, <1>8

LEMMA LookContinues == LookInvariant /\ [InspectionsNext]_inspectionVars => LookInvariant'
<1>1. SUFFICES ASSUME LookInvariant, [InspectionsNext]_inspectionVars PROVE LookInvariant'
  OBVIOUS
<1>2. look \in Looks /\ unread \in Seq(Names)
  BY <1>1 DEF LookInvariant
<1>3. ASSUME NEW cause \in {"failed", "elsewhere", "RemoteIo"}, LookRefused(cause),
             UNCHANGED <<prefix, object, replaced, unread>>
      PROVE  LookInvariant'
  <2>1. Answers([is |-> cause]) /\ LookTellsOf([is |-> cause])
    BY <1>3, RefusalsAreNoLists DEF LookRefused
  <2>2. unread' \in Seq(Names)
    BY <1>2, <1>3
  <2>. QED BY <1>1, <1>3, <2>1, <2>2, AnswersKeep
<1>4. CASE ResolvePrefix
  <2>1. CASE prefix = "elsewhere"
    BY <1>3, <1>4, <2>1 DEF ResolvePrefix
  <2>2. CASE prefix # "elsewhere"
    <3>1. Continues("asking") /\ look.at # "done" /\ UNCHANGED <<prefix, object, replaced, unread>>
      BY <1>4, <2>2 DEF ResolvePrefix
    <3>2. ~replaced => prefix = "itself"
      BY <1>1, <1>4, <2>2 DEF LookInvariant, ResolvePrefix
    <3>. QED BY <1>1, <3>1, <3>2, ContinuesKeep
  <2>. QED BY <2>1, <2>2
<1>5. CASE AskLink
  <2>1. UNCHANGED <<prefix, object, replaced, unread>> /\ look.at = "asking" /\ (~replaced => prefix = "itself")
    BY <1>1, <1>5 DEF AskLink, LookInvariant
  <2>2. \/ LookRefused("failed") \/ LookRefused("elsewhere")
        \/ object # "link" /\ (Continues("opening") \/ Answers([is |-> "stat", object |-> object]))
    BY <1>5, Zenon DEF AskLink
  <2>3. CASE LookRefused("failed") \/ LookRefused("elsewhere")
    BY <1>3, <2>1, <2>3
  <2>4. CASE object # "link" /\ Continues("opening")
    BY <1>1, <2>1, <2>4, ContinuesKeep
  <2>5. CASE object # "link" /\ Answers([is |-> "stat", object |-> object])
    <3>1. LookTellsOf([is |-> "stat", object |-> object])
      BY <2>1, <2>5 DEF LookTellsOf
    <3>2. unread' \in Seq(Names)
      BY <1>2, <2>1
    <3>. QED BY <1>1, <2>1, <2>5, <3>1, <3>2, AnswersKeep
  <2>. QED BY <2>2, <2>3, <2>4, <2>5
<1>6. CASE OpenDirectory
  <2>1. UNCHANGED <<prefix, object, replaced, unread>> /\ look.at = "opening"
        /\ (~replaced => prefix = "itself" /\ object # "link")
    BY <1>1, <1>6 DEF OpenDirectory, LookInvariant
  <2>2. Continues("reading") \/ LookRefused("failed")
    BY <1>6 DEF OpenDirectory
  <2>3. CASE Continues("reading")
    BY <1>1, <2>1, <2>3, ContinuesKeep
  <2>4. CASE LookRefused("failed")
    BY <1>3, <2>1, <2>4
  <2>. QED BY <2>2, <2>3, <2>4
<1>7. CASE DirectoryEnds
  <2>1. /\ UNCHANGED <<prefix, object, replaced, unread>> /\ look.at = "reading" /\ unread = <<>>
        /\ Answers(ListingOf(look, FALSE)) /\ (~replaced => prefix = "itself" /\ object # "link")
        /\ look.ends = "no" /\ unread' \in Seq(Names)
    BY <1>1, <1>7 DEF DirectoryEnds, LookInvariant
  <2>2. PICK r \in Nat : HasRead(look, r) /\ IsRest(unread, look.names, r)
    BY <1>1, <2>1 DEF LookInvariant
  <2>3. look.names \in Seq(Names)
    BY <1>2 DEF Looks
  <2>4. r = Len(look.names)
    <3>1. Len(<<>>) = 0 /\ r + 0 = r
      OBVIOUS
    <3>. QED BY <2>1, <2>2, <3>1 DEF IsRest
  <2>5. look.entries = WholeList(look.names) /\ IsBounded(look.entries)
    BY <2>1, <2>2, <2>3, <2>4, ListToGrows DEF HasRead
  <2>6. LookTellsOf(ListingOf(look, FALSE))
    BY <2>1, <2>5, ListingTells
  <2>. QED BY <1>1, <2>1, <2>6, AnswersKeep
<1>8. CASE \E count \in 0 .. Len(unread) : ReadDirectory(count)
  BY <1>1, <1>8, ReadDirectoryKeeps
<1>9. CASE RequestFails
  BY <1>3, <1>9 DEF RequestFails
<1>10. CASE Replace
  <2>1. replaced' = TRUE /\ look.at # "done" /\ UNCHANGED <<unread, look, reply>>
    BY <1>10 DEF Replace
  <2>2. LookTellsOf(reply)'
    BY <1>1, <2>1 DEF LookInvariant, LookTellsOf
  <2>3. prefix' \in {"itself", "elsewhere"}
    BY <1>1, <1>10 DEF Replace, LookInvariant
  <2>4. look' = look /\ unread' = unread /\ reply' = reply
    BY <2>1
  <2>. QED BY <1>1, <2>1, <2>2, <2>3, <2>4 DEF LookInvariant
<1>11. CASE UNCHANGED inspectionVars
  <2>1. /\ prefix' = prefix /\ object' = object /\ replaced' = replaced /\ unread' = unread
        /\ look' = look /\ reply' = reply
    BY <1>11 DEF inspectionVars
  <2>2. LookTellsOf(reply) /\ LookTellsOf(reply)' = LookTellsOf(reply)
    BY <1>1, <2>1, Zenon DEF LookInvariant, LookTellsOf
  <2>. QED BY <1>1, <2>1, <2>2 DEF LookInvariant
<1>. QED BY <1>1, <1>4, <1>5, <1>6, <1>7, <1>8, <1>9, <1>10, <1>11 DEF InspectionsNext

(* What is told of a path is true of it, can be read back from the record, holds no name
   that looks like a secret, and is never what lies behind a link: inspect, and
   RemotePath, which leaves one spelling of it. *)
THEOREM LooksAlwaysTell == InspectionsSpec => []LookTells
<1>1. LookInvariant => LookTells
  <2>1. LookInvariant => LookTellsOf(reply)
    BY DEF LookInvariant
  <2>. QED BY <2>1, AlwaysOneSpelling, Zenon DEF LookTells, LookTellsOf
<1>. QED BY <1>1, LookStarts, LookContinues, PTL DEF InspectionsSpec

-----------------------------------------------------------------------------
(* Output *)

(* w is the end of t, which has `before` elements before it. *)
EndsIn(w, t, before) ==
    /\ before \in Nat /\ Len(t) = before + Len(w)
    /\ \A i \in 1 .. Len(w) : w[i] = t[before + i]

LEMMA LastIsEnd ==
    ASSUME NEW S, NEW t \in Seq(S), NEW n \in Nat
    PROVE  /\ LastOf(t, n) \in Seq(S)
           /\ EndsIn(LastOf(t, n), t, IF Len(t) <= n THEN 0 ELSE Len(t) - n)
<1>. DEFINE size == Len(t)
<1>1. size \in Nat /\ \A i \in 1 .. size : t[i] \in S
  BY LenProperties, ElementOfSeq
<1>2. CASE size <= n
  <2>1. LastOf(t, n) = t
    BY <1>2 DEF LastOf
  <2>2. size = 0 + size /\ \A i \in 1 .. size : 0 + i = i
    BY <1>1
  <2>3. EndsIn(t, t, 0)
    BY <2>2 DEF EndsIn
  <2>. QED BY <1>2, <2>1, <2>3
<1>3. CASE ~(size <= n)
  <2>. DEFINE w == SubSeq(t, size - n + 1, size)
              before == size - n
  <2>1. LastOf(t, n) = w
    BY <1>3 DEF LastOf
  <2>. HIDE DEF size
  <2>2. before \in Nat /\ size = before + n /\ size - n + 1 \in Int /\ size \in Int
        /\ size - (size - n + 1) + 1 = n /\ (~(size - n + 1 <= size) => n = 0)
        /\ \A i \in size - n + 1 .. size : i \in 1 .. size
    BY <1>1, <1>3
  <2>3. \A i \in size - n + 1 .. size : t[i] \in S
    BY <1>1, <2>2
  <2>4. /\ w \in Seq(S) /\ Len(w) = IF size - n + 1 <= size THEN size - (size - n + 1) + 1 ELSE 0
        /\ \A i \in 1 .. size - (size - n + 1) + 1 : w[i] = t[size - n + 1 + i - 1]
    BY <2>2, <2>3, SubSeqProperties
  <2>5. Len(w) = n
    BY <2>2, <2>4
  <2>6. \A i \in 1 .. n : size - n + 1 + i - 1 = before + i
    BY <1>1
  <2>7. \A i \in 1 .. n : w[i] = t[before + i]
    BY <2>2, <2>4, <2>6
  <2>. HIDE DEF w, before
  <2>8. EndsIn(w, t, before)
    BY <2>2, <2>5, <2>7 DEF EndsIn, size
  <2>. QED BY <1>3, <2>1, <2>4, <2>8 DEF size, before
<1>. QED BY <1>2, <1>3

LEMMA EndsTogether ==
    ASSUME NEW S, NEW s \in Seq(S), NEW w \in Seq(S), NEW d \in Seq(S), NEW before, EndsIn(w, s, before)
    PROVE  EndsIn(w \o d, s \o d, before)
<1>. DEFINE m == Len(w)
            n == Len(d)
<1>1. m \in Nat /\ n \in Nat /\ before \in Nat /\ Len(s) = before + m /\ \A i \in 1 .. m : w[i] = s[before + i]
  BY LenProperties DEF EndsIn
<1>2. /\ Len(w \o d) = m + n /\ Len(s \o d) = Len(s) + n
      /\ \A i \in 1 .. m + n : (w \o d)[i] = IF i <= m THEN w[i] ELSE d[i - m]
      /\ \A i \in 1 .. Len(s) + n : (s \o d)[i] = IF i <= Len(s) THEN s[i] ELSE d[i - Len(s)]
  BY ConcatProperties
<1>. HIDE DEF m, n
<1>3. ASSUME NEW i \in 1 .. m + n PROVE (w \o d)[i] = (s \o d)[before + i]
  <2>1. before + i \in 1 .. Len(s) + n
    BY <1>1
  <2>2. CASE i <= m
    <3>1. before + i <= Len(s) /\ i \in 1 .. m
      BY <1>1, <2>2
    <3>. QED BY <1>1, <1>2, <2>1, <2>2, <3>1
  <2>3. CASE ~(i <= m)
    <3>1. ~(before + i <= Len(s)) /\ (before + i) - Len(s) = i - m
      BY <1>1, <2>3
    <3>2. (w \o d)[i] = d[i - m]
      BY <1>2, <2>3
    <3>3. (s \o d)[before + i] = d[(before + i) - Len(s)]
      <4>. DEFINE j == before + i
      <4>1. j \in 1 .. Len(s) + n /\ ~(j <= Len(s))
        BY <2>1, <3>1
      <4>. HIDE DEF j
      <4>2. (s \o d)[j] = d[j - Len(s)]
        BY <1>2, <4>1
      <4>. QED BY <4>2 DEF j
    <3>. QED BY <3>1, <3>2, <3>3
  <2>. QED BY <2>2, <2>3
<1>4. before + m + n = before + (m + n)
  BY <1>1
<1>. QED BY <1>1, <1>2, <1>3, <1>4 DEF EndsIn

(* What is at the end of a text is in the text ... *)
LEMMA ShapesOfEnd ==
    ASSUME NEW t, NEW w \in Seq(Bytes), NEW before, EndsIn(w, t, before), SecretShape(w)
    PROVE  SecretShape(t)
<1>1. PICK shape \in Shapes, i \in 1 .. Len(w) : ShapeAt(shape, w, i)
  BY DEF SecretShape
<1>2. Len(shape) \in Nat /\ Len(w) \in Nat /\ before \in Nat /\ Len(t) = before + Len(w)
  BY OutputAssumption, LenProperties DEF EndsIn
<1>3. i + Len(shape) - 1 <= Len(w) /\ \A k \in 1 .. Len(shape) : w[i + k - 1] = shape[k]
  BY <1>1 DEF ShapeAt
<1>4. \A j \in 1 .. Len(w) : w[j] = t[before + j]
  BY DEF EndsIn
<1>. DEFINE j == before + i
            size == Len(shape)
            m == Len(w)
<1>. HIDE DEF size, m
<1>5. j \in 1 .. Len(t) /\ j + size - 1 <= Len(t)
  BY <1>2, <1>3 DEF size, m
<1>6. ASSUME NEW k \in 1 .. size PROVE t[j + k - 1] = shape[k]
  <2>1. i + k - 1 \in 1 .. m /\ before + (i + k - 1) = j + k - 1
    BY <1>2, <1>3 DEF size, m
  <2>2. w[i + k - 1] = t[j + k - 1]
    BY <1>4, <2>1 DEF m
  <2>3. w[i + k - 1] = shape[k]
    BY <1>3 DEF size
  <2>. QED BY <2>2, <2>3
<1>7. ShapeAt(shape, t, j)
  BY <1>5, <1>6 DEF ShapeAt, size
<1>. QED BY <1>5, <1>7 DEF SecretShape

(* ... and what is in the text but not in its beginning is at its end, if that holds
   the longest shape that begins in the beginning. *)
LEMMA ShapesAcross ==
    ASSUME NEW s \in Seq(Bytes), NEW d \in Seq(Bytes), NEW w \in Seq(Bytes), NEW before,
           EndsIn(w, s \o d, before), before = 0 \/ before <= Len(s) - Longest,
           SecretShape(s \o d), ~SecretShape(s)
    PROVE  SecretShape(w)
<1>. DEFINE t == s \o d
<1>1. PICK shape \in Shapes, i \in 1 .. Len(t) : ShapeAt(shape, t, i)
  BY DEF SecretShape
<1>2. /\ Len(t) = Len(s) + Len(d) /\ Len(s) \in Nat /\ Len(d) \in Nat
      /\ \A k \in 1 .. Len(s) + Len(d) : t[k] = IF k <= Len(s) THEN s[k] ELSE d[k - Len(s)]
  BY ConcatProperties, LenProperties
<1>. HIDE DEF t
<1>. DEFINE size == Len(shape)
            m == Len(w)
            n == Len(t)
            p == Len(s)
<1>3. size \in Nat /\ 1 <= size /\ size <= Longest /\ Longest \in Nat
  BY OutputAssumption
<1>4. m \in Nat /\ before \in Nat /\ n = before + m /\ \A k \in 1 .. m : w[k] = t[before + k]
  BY LenProperties DEF EndsIn, t
<1>5. i + size - 1 <= n /\ \A k \in 1 .. size : t[i + k - 1] = shape[k]
  BY <1>1 DEF ShapeAt
<1>6. p \in Nat /\ p <= n /\ \A k \in 1 .. p : t[k] = s[k]
  <2>1. p \in Nat /\ p <= n
    BY <1>2
  <2>2. \A k \in 1 .. p : k \in 1 .. Len(s) + Len(d) /\ k <= Len(s)
    BY <1>2
  <2>. QED BY <1>2, <2>1, <2>2
<1>7. i + size - 1 > p
  <2>1. SUFFICES ASSUME i + size - 1 <= p PROVE FALSE
    BY <1>3, <1>6
  <2>2. \A k \in 1 .. size : i + k - 1 \in 1 .. p
    BY <1>3, <1>6, <2>1
  <2>3. i \in 1 .. p
    BY <1>3, <1>6, <2>1
  <2>4. \A k \in 1 .. size : s[i + k - 1] = shape[k]
    BY <1>5, <1>6, <2>2
  <2>5. ShapeAt(shape, s, i)
    BY <2>1, <2>4 DEF ShapeAt
  <2>. QED BY <2>3, <2>5 DEF SecretShape
<1>. DEFINE j == i - before
<1>8. before = 0 \/ before <= p - Longest
  OBVIOUS
<1>. HIDE DEF size, m, n, p
<1>9. j \in 1 .. m /\ j + size - 1 <= m
  <2>1. i \in Nat /\ i >= 1 /\ i <= n
    BY <1>4 DEF n
  <2>. QED BY <1>3, <1>4, <1>5, <1>6, <1>7, <1>8, <2>1
<1>10. ASSUME NEW k \in 1 .. size PROVE w[j + k - 1] = shape[k]
  <2>1. j + k - 1 \in 1 .. m /\ before + (j + k - 1) = i + k - 1
    BY <1>3, <1>4, <1>9
  <2>2. w[j + k - 1] = t[before + (j + k - 1)]
    BY <1>4, <2>1
  <2>. QED BY <1>5, <2>1, <2>2
<1>11. ShapeAt(shape, w, j)
  BY <1>9, <1>10 DEF ShapeAt, size, m
<1>. QED BY <1>9, <1>11 DEF SecretShape, m


LEMMA LastOfEnd ==
    ASSUME NEW S, NEW t \in Seq(S), NEW w \in Seq(S), NEW before, EndsIn(w, t, before), NEW n \in Nat,
           before = 0 \/ n <= Len(w)
    PROVE  LastOf(w, n) = LastOf(t, n)
<1>. DEFINE m == Len(w)
            size == Len(t)
            x == LastOf(w, n)
            y == LastOf(t, n)
            inW == IF m <= n THEN 0 ELSE m - n
            inT == IF size <= n THEN 0 ELSE size - n
<1>1. x \in Seq(S) /\ EndsIn(x, w, inW) /\ y \in Seq(S) /\ EndsIn(y, t, inT)
  BY LastIsEnd
<1>2. /\ before \in Nat /\ size = before + m /\ m \in Nat /\ size \in Nat /\ (before = 0 \/ n <= m)
      /\ \A i \in 1 .. m : w[i] = t[before + i]
  BY LenProperties DEF EndsIn
<1>. HIDE DEF m, size, x, y
<1>3. before + inW = inT /\ inW \in Nat /\ inT \in Nat
  BY <1>2
<1>. HIDE DEF inW, inT
<1>4. /\ m = inW + Len(x) /\ size = inT + Len(y) /\ Len(x) \in Nat /\ Len(y) \in Nat
      /\ \A i \in 1 .. Len(x) : x[i] = w[inW + i]
      /\ \A i \in 1 .. Len(y) : y[i] = t[inT + i]
  BY <1>1, LenProperties DEF EndsIn, m, size
<1>5. Len(x) = Len(y)
  BY <1>2, <1>3, <1>4
<1>6. ASSUME NEW i \in 1 .. Len(x) PROVE x[i] = y[i]
  <2>1. inW + i \in 1 .. m /\ before + (inW + i) = inT + i
    BY <1>2, <1>3, <1>4
  <2>. QED BY <1>2, <1>4, <1>5, <2>1
<1>7. x = y
  BY <1>1, <1>5, <1>6, SeqEqual
<1>. QED BY <1>7 DEF x, y

LEMMA FirstIsBeginning ==
    ASSUME NEW S, NEW t \in Seq(S), NEW n \in Nat
    PROVE  /\ FirstOf(t, n) \in Seq(S) /\ Len(FirstOf(t, n)) = IF Len(t) <= n THEN Len(t) ELSE n
           /\ \A i \in 1 .. Len(FirstOf(t, n)) : FirstOf(t, n)[i] = t[i]
<1>. DEFINE size == Len(t)
<1>1. size \in Nat /\ \A i \in 1 .. size : t[i] \in S
  BY LenProperties, ElementOfSeq
<1>2. CASE size <= n
  BY <1>2 DEF FirstOf
<1>3. CASE ~(size <= n)
  <2>. DEFINE b == SubSeq(t, 1, n)
  <2>1. FirstOf(t, n) = b
    BY <1>3 DEF FirstOf
  <2>. HIDE DEF size
  <2>2. n - 1 + 1 = n /\ (~(1 <= n) => n = 0) /\ (\A i \in 1 .. n : i \in 1 .. size /\ 1 + i - 1 = i)
    BY <1>1, <1>3
  <2>3. \A i \in 1 .. n : t[i] \in S
    BY <1>1, <2>2
  <2>4. /\ b \in Seq(S) /\ Len(b) = IF 1 <= n THEN n - 1 + 1 ELSE 0
        /\ \A i \in 1 .. n - 1 + 1 : b[i] = t[1 + i - 1]
    BY <2>3, SubSeqProperties
  <2>. HIDE DEF b
  <2>5. Len(b) = n
    BY <2>2, <2>4
  <2>6. \A i \in 1 .. n : b[i] = t[i]
    BY <2>2, <2>4
  <2>. QED BY <1>3, <2>1, <2>4, <2>5, <2>6 DEF size
<1>. QED BY <1>2, <1>3

LEMMA FirstTogether ==
    ASSUME NEW S, NEW s \in Seq(S), NEW d \in Seq(S), NEW n \in Nat
    PROVE  FirstOf(s, n) \o FirstOf(d, n - Len(FirstOf(s, n))) = FirstOf(s \o d, n)
<1>. DEFINE a == FirstOf(s, n)
            room == n - Len(a)
            b == FirstOf(d, room)
            y == FirstOf(s \o d, n)
<1>1. /\ a \in Seq(S) /\ Len(a) = (IF Len(s) <= n THEN Len(s) ELSE n) /\ Len(s) \in Nat
      /\ \A i \in 1 .. Len(a) : a[i] = s[i]
  BY FirstIsBeginning, LenProperties
<1>2. room \in Nat /\ (room # 0 => Len(a) = Len(s)) /\ Len(a) \in Nat /\ Len(a) + room = n /\ Len(a) <= Len(s)
  BY <1>1
<1>. HIDE DEF room
<1>3. /\ b \in Seq(S) /\ Len(b) = (IF Len(d) <= room THEN Len(d) ELSE room) /\ Len(d) \in Nat
      /\ \A i \in 1 .. Len(b) : b[i] = d[i]
  BY <1>2, FirstIsBeginning, LenProperties
<1>4. /\ s \o d \in Seq(S) /\ Len(s \o d) = Len(s) + Len(d)
      /\ \A i \in 1 .. Len(s) + Len(d) : (s \o d)[i] = IF i <= Len(s) THEN s[i] ELSE d[i - Len(s)]
  BY ConcatProperties
<1>5. /\ y \in Seq(S) /\ Len(y) = (IF Len(s) + Len(d) <= n THEN Len(s) + Len(d) ELSE n)
      /\ \A i \in 1 .. Len(y) : y[i] = (s \o d)[i]
  BY <1>4, FirstIsBeginning
<1>. HIDE DEF a, b, y
<1>6. /\ a \o b \in Seq(S) /\ Len(a \o b) = Len(a) + Len(b)
      /\ \A i \in 1 .. Len(a) + Len(b) : (a \o b)[i] = IF i <= Len(a) THEN a[i] ELSE b[i - Len(a)]
  BY <1>1, <1>3, ConcatProperties
<1>7. Len(a) + Len(b) = Len(y)
  <2>. DEFINE first == Len(a)
              second == Len(b)
              both == Len(y)
              p == Len(s)
              q == Len(d)
  <2>1. first \in Nat /\ p \in Nat /\ q \in Nat /\ first = (IF p <= n THEN p ELSE n)
    BY <1>1, <1>2, <1>3
  <2>2. room \in Nat /\ first + room = n /\ second = (IF q <= room THEN q ELSE room)
    BY <1>2, <1>3
  <2>3. both = (IF p + q <= n THEN p + q ELSE n)
    BY <1>5
  <2>. HIDE DEF first, second, both, p, q
  <2>4. first + second = both
    BY <2>1, <2>2, <2>3
  <2>. QED BY <2>4 DEF first, second, both
<1>8. ASSUME NEW i \in 1 .. Len(y) PROVE (a \o b)[i] = y[i]
  <2>1. i \in 1 .. Len(s) + Len(d) /\ i \in 1 .. Len(a) + Len(b) /\ y[i] = (s \o d)[i]
    BY <1>1, <1>3, <1>5, <1>7
  <2>2. CASE i <= Len(a)
    <3>1. i \in 1 .. Len(a) /\ i <= Len(s)
      BY <1>2, <2>2
    <3>2. (a \o b)[i] = a[i] /\ (s \o d)[i] = s[i]
      BY <1>4, <1>6, <2>1, <2>2, <3>1
    <3>. QED BY <1>1, <2>1, <3>1, <3>2
  <2>3. CASE ~(i <= Len(a))
    <3>1. i - Len(a) \in 1 .. Len(b) /\ Len(b) \in Nat
      BY <1>2, <1>3, <2>1, <2>3
    <3>2. Len(a) = Len(s) /\ ~(i <= Len(s))
      BY <1>2, <1>3, <2>3, <3>1
    <3>3. (a \o b)[i] = b[i - Len(a)]
      BY <1>6, <2>1, <2>3
    <3>4. (s \o d)[i] = d[i - Len(a)]
      BY <1>4, <2>1, <3>2
    <3>. QED BY <1>3, <2>1, <3>1, <3>3, <3>4
  <2>. QED BY <2>2, <2>3
<1>9. a \o b = y
  BY <1>5, <1>6, <1>7, <1>8, SeqEqual
<1>. QED BY <1>9 DEF a, b, y, room

(* Until a secret is found, what is carried over is the end of the stream. *)
OutputInvariant ==
    /\ printed \in Seq(Bytes) /\ collected \in Keeping
    /\ collected.matched = SecretShape(printed)
    /\ collected.kept = FirstOf(printed, Limit)
    /\ collected.seen = Len(printed)
    /\ ~collected.matched => collected.carried = LastOf(printed, Longest)

LEMMA OutputStarts == CollectedInit => OutputInvariant
<1>1. SUFFICES ASSUME CollectedInit PROVE OutputInvariant
  OBVIOUS
<1>2. printed = <<>> /\ collected = [kept |-> <<>>, seen |-> 0, matched |-> FALSE, carried |-> <<>>]
  BY <1>1 DEF CollectedInit, New
<1>3. <<>> \in Seq(Bytes) /\ Len(<<>>) = 0
  OBVIOUS
<1>4. Longest \in Nat /\ Limit \in Nat
  BY OutputAssumption
<1>5. LastOf(<<>>, Longest) = <<>> /\ FirstOf(<<>>, Limit) = <<>>
  BY <1>3, <1>4 DEF LastOf, FirstOf
<1>6. SecretShape(<<>>) = FALSE
  <2>1. \A i \in 1 .. 0 : FALSE
    OBVIOUS
  <2>. QED BY <1>3, <2>1 DEF SecretShape
<1>7. collected \in Keeping /\ collected.matched = FALSE /\ collected.kept = <<>> /\ collected.seen = 0 /\ collected.carried = <<>>
  BY <1>2, <1>3 DEF Keeping
<1>. QED BY <1>2, <1>3, <1>5, <1>6, <1>7 DEF OutputInvariant


LEMMA OutputContinues == OutputInvariant /\ [CollectedNext]_collectedVars => OutputInvariant'
<1>1. SUFFICES ASSUME OutputInvariant, [CollectedNext]_collectedVars PROVE OutputInvariant'
  OBVIOUS
<1>2. CASE UNCHANGED collectedVars
  <2>1. printed' = printed /\ collected' = collected
    BY <1>2 DEF collectedVars
  <2>. QED BY <1>1, <2>1 DEF OutputInvariant
<1>3. CASE CollectedNext
  <2>1. PICK piece \in BoundedSeq(Bytes, MaxStream - Len(printed)) : Arrive(piece)
    BY <1>3 DEF CollectedNext
  <2>2. piece \in Seq(Bytes)
    <3>1. PICK m \in 0 .. MaxStream - Len(printed) : piece \in [1 .. m -> Bytes]
      BY <2>1 DEF BoundedSeq, SeqOf
    <3>2. m \in Nat
      BY <1>1, OutputAssumption, LenProperties DEF OutputInvariant
    <3>. QED BY <3>1, <3>2, SeqDef
  <2>. DEFINE window == collected.carried \o piece
              all == printed \o piece
              before == IF Len(printed) <= Longest THEN 0 ELSE Len(printed) - Longest
              found == collected.matched \/ SecretShape(window)
  <2>3. /\ printed \in Seq(Bytes) /\ Len(printed) \in Nat /\ all \in Seq(Bytes) /\ Len(all) = Len(printed) + Len(piece)
        /\ Len(piece) \in Nat /\ collected \in Keeping /\ Limit \in Nat /\ Longest \in Nat
    BY <1>1, <2>2, OutputAssumption, ConcatProperties, LenProperties DEF OutputInvariant
  <2>4. collected.carried \in Seq(Bytes) /\ collected.kept \in Seq(Bytes) /\ collected.seen \in Nat
        /\ collected.matched \in BOOLEAN /\ window \in Seq(Bytes)
    BY <2>2, <2>3 DEF Keeping
  <2>5. /\ printed' = all
        /\ collected' = [kept |-> collected.kept \o FirstOf(piece, Limit - Len(collected.kept)),
                         seen |-> collected.seen + Len(piece),
                         matched |-> found,
                         carried |-> IF collected.matched THEN collected.carried ELSE LastOf(window, Longest)]
    BY <2>1, Zenon DEF Arrive, Push
  <2>6. SecretShape(printed) => SecretShape(all)
    <3>1. SUFFICES ASSUME SecretShape(printed) PROVE SecretShape(all)
      OBVIOUS
    <3>2. PICK shape \in Shapes, i \in 1 .. Len(printed) : ShapeAt(shape, printed, i)
      BY <3>1 DEF SecretShape
    <3>3. Len(shape) \in Nat /\ i + Len(shape) - 1 <= Len(printed)
          /\ \A k \in 1 .. Len(shape) : printed[i + k - 1] = shape[k]
      BY <3>2, OutputAssumption DEF ShapeAt
    <3>4. \A k \in 1 .. Len(printed) : all[k] = printed[k]
      BY <2>2, <2>3, ConcatProperties
    <3>5. \A k \in 1 .. Len(shape) : i + k - 1 \in 1 .. Len(printed)
      BY <2>3, <3>3
    <3>6. i \in 1 .. Len(all) /\ i + Len(shape) - 1 <= Len(all)
      BY <2>3, <3>3
    <3>7. ShapeAt(shape, all, i)
      BY <3>3, <3>4, <3>5, <3>6 DEF ShapeAt
    <3>. QED BY <3>6, <3>7 DEF SecretShape
  <2>7. ASSUME ~collected.matched
        PROVE  EndsIn(window, all, before) /\ ~SecretShape(printed)
               /\ (before = 0 \/ (before <= Len(printed) - Longest /\ Longest <= Len(window)))
    <3>1. collected.carried = LastOf(printed, Longest) /\ ~SecretShape(printed)
      BY <1>1, <2>7 DEF OutputInvariant
    <3>2. EndsIn(collected.carried, printed, before)
      BY <2>3, <3>1, LastIsEnd
    <3>3. EndsIn(window, all, before)
      BY <2>2, <2>3, <2>4, <3>2, EndsTogether
    <3>4. Len(window) = Len(collected.carried) + Len(piece) /\ Len(collected.carried) \in Nat
      BY <2>2, <2>4, ConcatProperties, LenProperties
    <3>5. Len(printed) = before + Len(collected.carried)
      BY <3>2 DEF EndsIn
    <3>6. before = 0 \/ (before <= Len(printed) - Longest /\ Longest <= Len(window))
      <4>. DEFINE p == Len(printed)
                  c == Len(collected.carried)
                  q == Len(window)
      <4>1. p \in Nat /\ c \in Nat /\ q = c + Len(piece) /\ Len(piece) \in Nat /\ Longest \in Nat
        BY <2>3, <3>4
      <4>2. before = (IF p <= Longest THEN 0 ELSE p - Longest) /\ p = before + c
        BY <3>5
      <4>. HIDE DEF p, c, q, before
      <4>3. before = 0 \/ (before <= p - Longest /\ Longest <= q)
        BY <4>1, <4>2
      <4>. QED BY <4>3 DEF p, q
    <3>. QED BY <3>1, <3>3, <3>6
  <2>. HIDE DEF window, all, before
  <2>8. found <=> SecretShape(all)
    <3>1. CASE collected.matched
      <4>1. SecretShape(printed)
        BY <1>1, <3>1 DEF OutputInvariant
      <4>. QED BY <2>6, <3>1, <4>1
    <3>2. CASE ~collected.matched
      <4>1. SecretShape(window) => SecretShape(all)
        BY <2>4, <2>7, <3>2, ShapesOfEnd
      <4>2. SecretShape(all) => SecretShape(window)
        BY <2>2, <2>3, <2>4, <2>7, <3>2, ShapesAcross DEF all
      <4>. QED BY <3>2, <4>1, <4>2
    <3>. QED BY <3>1, <3>2
  <2>. HIDE DEF found
  <2>9. ~collected.matched => LastOf(window, Longest) = LastOf(all, Longest)
    BY <2>3, <2>4, <2>7, LastOfEnd
  <2>10. collected.kept \o FirstOf(piece, Limit - Len(collected.kept)) = FirstOf(all, Limit)
    BY <1>1, <2>2, <2>3, FirstTogether DEF OutputInvariant, all
  <2>11. /\ collected'.kept = FirstOf(all, Limit) /\ collected'.seen = Len(all) /\ collected'.matched = found
         /\ collected'.carried = IF collected.matched THEN collected.carried ELSE LastOf(window, Longest)
    <3>1. collected.seen = Len(printed)
      BY <1>1 DEF OutputInvariant
    <3>. QED BY <2>3, <2>5, <2>10, <3>1
  <2>12. found \in BOOLEAN /\ SecretShape(all) \in BOOLEAN
    BY Zenon DEF found, SecretShape
  <2>13. collected' \in Keeping
    <3>1. FirstOf(all, Limit) \in Seq(Bytes)
      BY <2>3, FirstIsBeginning
    <3>2. LastOf(window, Longest) \in Seq(Bytes)
      BY <2>3, <2>4, LastIsEnd
    <3>3. (IF collected.matched THEN collected.carried ELSE LastOf(window, Longest)) \in Seq(Bytes)
      BY <2>4, <3>2
    <3>4. collected.seen + Len(piece) \in Nat
      BY <2>3, <2>4
    <3>. QED BY <2>5, <2>10, <2>12, <3>1, <3>3, <3>4 DEF Keeping
  <2>14. collected'.matched = SecretShape(all)
    BY <2>8, <2>11, <2>12, Zenon
  <2>15. ~collected'.matched => collected'.carried = LastOf(all, Longest)
    <3>1. ~found => ~collected.matched
      BY DEF found
    <3>. QED BY <2>9, <2>11, <3>1
  <2>. QED BY <2>3, <2>5, <2>11, <2>13, <2>14, <2>15 DEF OutputInvariant
<1>. QED BY <1>1, <1>2, <1>3

(* However a stream is cut into pieces, a secret in it is found and nothing else is, and
   what is kept of it is its beginning: Collected::push. *)
THEOREM OutputAlwaysTells == CollectedSpec => []OutputTells
<1>1. OutputInvariant => OutputTells
  <2>1. SUFFICES ASSUME OutputInvariant PROVE OutputTells
    OBVIOUS
  <2>2. Truncated(collected) = (Len(printed) > Limit)
    <3>1. printed \in Seq(Bytes) /\ Limit \in Nat /\ Len(printed) \in Nat
      BY <2>1, OutputAssumption, LenProperties DEF OutputInvariant
    <3>2. Len(FirstOf(printed, Limit)) = IF Len(printed) <= Limit THEN Len(printed) ELSE Limit
      BY <3>1, FirstIsBeginning
    <3>3. collected.kept = FirstOf(printed, Limit) /\ collected.seen = Len(printed)
      BY <2>1 DEF OutputInvariant
    <3>. QED BY <3>1, <3>2, <3>3 DEF Truncated
  <2>. QED BY <2>1, <2>2, Zenon DEF OutputInvariant, OutputTells
<1>. QED BY <1>1, OutputStarts, OutputContinues, PTL DEF CollectedSpec

-----------------------------------------------------------------------------
(* Commands: the shell reads character by character, and arguments add up one by one. *)

Signs == Chars \cup {"backslash", "blank"}
Modes == {"between", "in a word", "quoted", "escaped", "over"}
Readings == [mode : Modes, word : Seq(Signs), words : Seq(Seq(Signs))]
Arguments == Seq(Chars)

LEMMA ReadsTyped ==
    ASSUME NEW s \in Readings, NEW char \in Signs
    PROVE  ReadsChar(s, char) \in Readings
<1>1. Append(s.word, char) \in Seq(Signs) /\ Append(s.words, s.word) \in Seq(Seq(Signs)) /\ <<>> \in Seq(Signs)
  BY DEF Readings
<1>2. \A mode \in Modes : Turns(s, mode) \in Readings
  BY DEF Readings, Turns
<1>3. /\ Gains(s, char) \in Readings
      /\ Turns(Gains(s, char), "in a word") \in Readings
  BY <1>1 DEF Readings, Turns, Gains, Modes
<1>4. [mode |-> "between", word |-> <<>>, words |-> Append(s.words, s.word)] \in Readings
  BY <1>1 DEF Readings, Modes
<1>5. Turns(s, "over") \in Readings /\ Turns(s, "in a word") \in Readings /\ Turns(s, "quoted") \in Readings
      /\ Turns(s, "escaped") \in Readings
  BY <1>2 DEF Modes
<1>. QED BY <1>3, <1>4, <1>5 DEF ReadsChar

LEMMA ReadsSteps ==
    ASSUME NEW n \in Nat, NEW seq \in [1 .. n -> Signs], NEW base \in Readings
    PROVE  \E h : /\ h[0] = base /\ FoldLeft(ReadsChar, base, seq) = h[n]
                  /\ \A k \in 0 .. n : k < n => h[k + 1] = ReadsChar(h[k], seq[k + 1])
<1>. DEFINE IsTheFold(f) == f = [s \in SUBSET (1 .. n) |->
                              IF s = {} THEN base ELSE ReadsChar(f[s \ {Largest(s)}], seq[Largest(s)])]
            step == [i \in 1 .. n |-> [v \in Readings |-> ReadsChar(v, seq[i])]]
            fold == CHOOSE f : IsTheFold(f)
            h == [k \in 0 .. n |-> fold[1 .. k]]
<1>1. DOMAIN seq = 1 .. n
  OBVIOUS
<1>2. FoldLeft(ReadsChar, base, seq) = fold[1 .. n]
  BY <1>1 DEF FoldLeft, MapThenFoldSet, Max, Largest
<1>3. step \in [1 .. n -> [Readings -> Readings]] /\ base \in Readings
  <2>1. ASSUME NEW v \in Readings, NEW i \in 1 .. n PROVE ReadsChar(v, seq[i]) \in Readings
    <3>1. seq[i] \in Signs
      OBVIOUS
    <3>. QED BY <3>1, ReadsTyped
  <2>. QED BY <2>1
<1>4. \A i \in 1 .. n : \A v \in Readings : step[i][v] = ReadsChar(v, seq[i])
  OBVIOUS
<1>. HIDE DEF step
<1>5. PICK g \in [SUBSET (1 .. n) -> Readings] : Folds(g, n, base, step)
  BY <1>3, FoldsExist
<1>6. IsTheFold(g)
  <2>1. ASSUME NEW s \in SUBSET (1 .. n)
        PROVE  g[s] = IF s = {} THEN base ELSE ReadsChar(g[s \ {Largest(s)}], seq[Largest(s)])
    <3>1. CASE s = {}
      BY <1>5, <3>1 DEF Folds
    <3>2. CASE s # {}
      <4>1. Largest(s) \in 1 .. n /\ s \ {Largest(s)} \in SUBSET (1 .. n)
        BY <3>2, LargestIn
      <4>2. g[s \ {Largest(s)}] \in Readings
        BY <1>5, <4>1
      <4>3. g[s] = step[Largest(s)][g[s \ {Largest(s)}]]
        BY <1>5, <3>2 DEF Folds
      <4>. QED BY <1>4, <3>2, <4>1, <4>2, <4>3
    <3>. QED BY <3>1, <3>2
  <2>2. [s \in SUBSET (1 .. n) |-> g[s]] =
          [s \in SUBSET (1 .. n) |-> IF s = {} THEN base ELSE ReadsChar(g[s \ {Largest(s)}], seq[Largest(s)])]
    BY <2>1
  <2>3. g = [s \in SUBSET (1 .. n) |-> g[s]]
    OBVIOUS
  <2>. QED BY <2>2, <2>3
<1>7. IsTheFold(fold)
  <2>. HIDE DEF IsTheFold
  <2>. QED BY <1>6
<1>. HIDE DEF fold
<1>8. \A s \in SUBSET (1 .. n) :
        fold[s] = IF s = {} THEN base ELSE ReadsChar(fold[s \ {Largest(s)}], seq[Largest(s)])
  BY <1>7, Zenon
<1>. HIDE DEF IsTheFold
<1>9. \A k \in 0 .. n : h[k] = fold[1 .. k]
  OBVIOUS
<1>. HIDE DEF h
<1>10. h[0] = base /\ h[n] = fold[1 .. n]
  <2>1. 1 .. 0 = {} /\ 1 .. 0 \in SUBSET (1 .. n) /\ 0 \in 0 .. n /\ n \in 0 .. n
    OBVIOUS
  <2>2. fold[1 .. 0] = base
    BY <1>8, <2>1
  <2>. QED BY <1>9, <2>1, <2>2
<1>11. ASSUME NEW k \in 0 .. n, k < n PROVE h[k + 1] = ReadsChar(h[k], seq[k + 1])
  <2>. DEFINE s == 1 .. k + 1
  <2>1. k \in Nat /\ s \in SUBSET (1 .. k + 1) /\ s \in SUBSET (1 .. n) /\ k + 1 \in s /\ s # {}
        /\ k + 1 \in 0 .. n
    <3>1. k \in Nat /\ k + 1 <= n
      BY <1>11
    <3>2. \A i \in 1 .. k + 1 : i \in 1 .. n
      BY <3>1
    <3>3. k + 1 \in 1 .. k + 1 /\ k + 1 \in 0 .. n
      BY <3>1
    <3>. QED BY <3>1, <3>2, <3>3
  <2>2. s \ {k + 1} = 1 .. k
    BY <2>1
  <2>3. h[k] = fold[1 .. k] /\ h[k + 1] = fold[s]
    BY <1>9, <2>1
  <2>. HIDE DEF s
  <2>4. Largest(s) = k + 1
    BY <2>1, LargestIs
  <2>5. fold[s] = ReadsChar(fold[s \ {Largest(s)}], seq[Largest(s)])
    BY <1>8, <2>1, Zenon
  <2>. QED BY <2>2, <2>3, <2>4, <2>5
<1>. QED BY <1>2, <1>10, <1>11

LEMMA AddsUpSteps ==
    ASSUME NEW n \in Nat, NEW seq \in [1 .. n -> Arguments]
    PROVE  \E h : /\ h[0] = 0 /\ Total(seq) = h[n]
                  /\ \A k \in 0 .. n : k < n => h[k + 1] = AddsUp(h[k], seq[k + 1])
<1>. DEFINE IsTheFold(f) == f = [s \in SUBSET (1 .. n) |->
                              IF s = {} THEN 0 ELSE AddsUp(f[s \ {Largest(s)}], seq[Largest(s)])]
            step == [i \in 1 .. n |-> [v \in Nat |-> AddsUp(v, seq[i])]]
            fold == CHOOSE f : IsTheFold(f)
            h == [k \in 0 .. n |-> fold[1 .. k]]
<1>1. DOMAIN seq = 1 .. n
  OBVIOUS
<1>2. Total(seq) = fold[1 .. n]
  BY <1>1 DEF Total, FoldLeft, MapThenFoldSet, Max, Largest
<1>3. step \in [1 .. n -> [Nat -> Nat]] /\ 0 \in Nat
  <2>1. ASSUME NEW v \in Nat, NEW i \in 1 .. n PROVE AddsUp(v, seq[i]) \in Nat
    <3>1. Len(seq[i]) \in Nat
      BY LenProperties DEF Arguments
    <3>. QED BY <3>1 DEF AddsUp
  <2>. QED BY <2>1
<1>4. \A i \in 1 .. n : \A v \in Nat : step[i][v] = AddsUp(v, seq[i])
  OBVIOUS
<1>. HIDE DEF step
<1>5. PICK g \in [SUBSET (1 .. n) -> Nat] : Folds(g, n, 0, step)
  BY <1>3, FoldsExist
<1>6. IsTheFold(g)
  <2>1. ASSUME NEW s \in SUBSET (1 .. n)
        PROVE  g[s] = IF s = {} THEN 0 ELSE AddsUp(g[s \ {Largest(s)}], seq[Largest(s)])
    <3>1. CASE s = {}
      BY <1>5, <3>1 DEF Folds
    <3>2. CASE s # {}
      <4>1. Largest(s) \in 1 .. n /\ s \ {Largest(s)} \in SUBSET (1 .. n)
        BY <3>2, LargestIn
      <4>2. g[s \ {Largest(s)}] \in Nat
        BY <1>5, <4>1
      <4>3. g[s] = step[Largest(s)][g[s \ {Largest(s)}]]
        BY <1>5, <3>2 DEF Folds
      <4>. QED BY <1>4, <3>2, <4>1, <4>2, <4>3
    <3>. QED BY <3>1, <3>2
  <2>2. [s \in SUBSET (1 .. n) |-> g[s]] =
          [s \in SUBSET (1 .. n) |-> IF s = {} THEN 0 ELSE AddsUp(g[s \ {Largest(s)}], seq[Largest(s)])]
    BY <2>1
  <2>3. g = [s \in SUBSET (1 .. n) |-> g[s]]
    OBVIOUS
  <2>. QED BY <2>2, <2>3
<1>7. IsTheFold(fold)
  <2>. HIDE DEF IsTheFold
  <2>. QED BY <1>6
<1>. HIDE DEF fold
<1>8. \A s \in SUBSET (1 .. n) :
        fold[s] = IF s = {} THEN 0 ELSE AddsUp(fold[s \ {Largest(s)}], seq[Largest(s)])
  BY <1>7, Zenon
<1>. HIDE DEF IsTheFold
<1>9. \A k \in 0 .. n : h[k] = fold[1 .. k]
  OBVIOUS
<1>. HIDE DEF h
<1>10. h[0] = 0 /\ h[n] = fold[1 .. n]
  <2>1. 1 .. 0 = {} /\ 1 .. 0 \in SUBSET (1 .. n) /\ 0 \in 0 .. n /\ n \in 0 .. n
    OBVIOUS
  <2>2. fold[1 .. 0] = 0
    BY <1>8, <2>1
  <2>. QED BY <1>9, <2>1, <2>2
<1>11. ASSUME NEW k \in 0 .. n, k < n PROVE h[k + 1] = AddsUp(h[k], seq[k + 1])
  <2>. DEFINE s == 1 .. k + 1
  <2>1. k \in Nat /\ s \in SUBSET (1 .. k + 1) /\ s \in SUBSET (1 .. n) /\ k + 1 \in s /\ s # {}
        /\ k + 1 \in 0 .. n
    <3>1. k \in Nat /\ k + 1 <= n
      BY <1>11
    <3>2. \A i \in 1 .. k + 1 : i \in 1 .. n
      BY <3>1
    <3>3. k + 1 \in 1 .. k + 1 /\ k + 1 \in 0 .. n
      BY <3>1
    <3>. QED BY <3>1, <3>2, <3>3
  <2>2. s \ {k + 1} = 1 .. k
    BY <2>1
  <2>3. h[k] = fold[1 .. k] /\ h[k + 1] = fold[s]
    BY <1>9, <2>1
  <2>. HIDE DEF s
  <2>4. Largest(s) = k + 1
    BY <2>1, LargestIs
  <2>5. fold[s] = AddsUp(fold[s \ {Largest(s)}], seq[Largest(s)])
    BY <1>8, <2>1, Zenon
  <2>. QED BY <2>2, <2>3, <2>4, <2>5
<1>. QED BY <1>2, <1>10, <1>11

LEMMA ReadsOne ==
    ASSUME NEW s \in Readings, NEW a \in Signs
    PROVE  FoldLeft(ReadsChar, s, <<a>>) = ReadsChar(s, a)
<1>. DEFINE seq == <<a>>
<1>1. seq \in [1 .. 1 -> Signs] /\ seq[1] = a /\ 1 \in Nat
  OBVIOUS
<1>. HIDE DEF seq
<1>2. PICK h : /\ h[0] = s /\ FoldLeft(ReadsChar, s, seq) = h[1]
               /\ \A k \in 0 .. 1 : k < 1 => h[k + 1] = ReadsChar(h[k], seq[k + 1])
  BY <1>1, ReadsSteps
<1>3. h[1] = ReadsChar(h[0], seq[1])
  <2>1. h[0 + 1] = ReadsChar(h[0], seq[0 + 1]) /\ 0 + 1 = 1
    BY <1>2
  <2>. QED BY <2>1
<1>. QED BY <1>1, <1>2, <1>3 DEF seq

LEMMA ReadsTwo ==
    ASSUME NEW s \in Readings, NEW a \in Signs, NEW b \in Signs
    PROVE  FoldLeft(ReadsChar, s, <<a, b>>) = ReadsChar(ReadsChar(s, a), b)
<1>. DEFINE seq == <<a, b>>
<1>1. seq \in [1 .. 2 -> Signs] /\ seq[1] = a /\ seq[2] = b /\ 2 \in Nat
  OBVIOUS
<1>. HIDE DEF seq
<1>2. PICK h : /\ h[0] = s /\ FoldLeft(ReadsChar, s, seq) = h[2]
               /\ \A k \in 0 .. 2 : k < 2 => h[k + 1] = ReadsChar(h[k], seq[k + 1])
  BY <1>1, ReadsSteps
<1>3. h[1] = ReadsChar(h[0], seq[1]) /\ h[2] = ReadsChar(h[1], seq[2])
  <2>1. h[0 + 1] = ReadsChar(h[0], seq[0 + 1]) /\ h[1 + 1] = ReadsChar(h[1], seq[1 + 1])
    BY <1>2
  <2>2. 0 + 1 = 1 /\ 1 + 1 = 2
    OBVIOUS
  <2>. QED BY <2>1, <2>2
<1>. QED BY <1>1, <1>2, <1>3 DEF seq

(* The four characters that stand for a quote. *)
LEMMA ReadsFour ==
    ASSUME NEW s \in Readings, NEW a \in Signs, NEW b \in Signs, NEW c \in Signs, NEW d \in Signs
    PROVE  FoldLeft(ReadsChar, s, <<a, b, c, d>>) = ReadsChar(ReadsChar(ReadsChar(ReadsChar(s, a), b), c), d)
<1>. DEFINE seq == <<a, b, c, d>>
<1>1. seq \in [1 .. 4 -> Signs] /\ seq[1] = a /\ seq[2] = b /\ seq[3] = c /\ seq[4] = d /\ 4 \in Nat
  OBVIOUS
<1>. HIDE DEF seq
<1>2. PICK h : /\ h[0] = s /\ FoldLeft(ReadsChar, s, seq) = h[4]
               /\ \A k \in 0 .. 4 : k < 4 => h[k + 1] = ReadsChar(h[k], seq[k + 1])
  BY <1>1, ReadsSteps
<1>3. /\ h[1] = ReadsChar(h[0], seq[1]) /\ h[2] = ReadsChar(h[1], seq[2])
      /\ h[3] = ReadsChar(h[2], seq[3]) /\ h[4] = ReadsChar(h[3], seq[4])
  <2>1. /\ h[0 + 1] = ReadsChar(h[0], seq[0 + 1]) /\ h[1 + 1] = ReadsChar(h[1], seq[1 + 1])
        /\ h[2 + 1] = ReadsChar(h[2], seq[2 + 1]) /\ h[3 + 1] = ReadsChar(h[3], seq[3 + 1])
    BY <1>2
  <2>2. 0 + 1 = 1 /\ 1 + 1 = 2 /\ 2 + 1 = 3 /\ 3 + 1 = 4
    OBVIOUS
  <2>. QED BY <2>1, <2>2
<1>. QED BY <1>1, <1>2, <1>3 DEF seq

LEMMA TotalGrows ==
    /\ Total(<<>>) = 0
    /\ \A s \in Seq(Arguments), e \in Arguments : Total(Append(s, e)) = Total(s) + Len(e)
<1>1. Total(<<>>) = 0
  <2>1. <<>> \in [1 .. 0 -> Arguments] /\ 0 \in Nat
    OBVIOUS
  <2>. QED BY <2>1, AddsUpSteps
<1>2. ASSUME NEW s \in Seq(Arguments), NEW e \in Arguments
      PROVE  Total(Append(s, e)) = Total(s) + Len(e)
  <2>. DEFINE n == Len(s)
              more == Append(s, e)
  <2>1. n \in Nat /\ s \in [1 .. n -> Arguments]
    BY SeqIsFunction
  <2>2. more \in Seq(Arguments) /\ Len(more) = n + 1 /\ more[n + 1] = e /\ \A i \in 1 .. n : more[i] = s[i]
    BY AppendProperties
  <2>. HIDE DEF n, more
  <2>3. more \in [1 .. n + 1 -> Arguments] /\ n + 1 \in Nat
    BY <2>1, <2>2, SeqIsFunction
  <2>4. PICK h : /\ h[0] = 0 /\ Total(s) = h[n]
                 /\ \A k \in 0 .. n : k < n => h[k + 1] = AddsUp(h[k], s[k + 1])
    BY <2>1, AddsUpSteps
  <2>5. PICK g : /\ g[0] = 0 /\ Total(more) = g[n + 1]
                 /\ \A k \in 0 .. n + 1 : k < n + 1 => g[k + 1] = AddsUp(g[k], more[k + 1])
    BY <2>3, AddsUpSteps
  <2>. DEFINE T == {k \in 0 .. n : g[k] = h[k]}
  <2>6. 0 \in T
    BY <2>1, <2>4, <2>5
  <2>7. ASSUME NEW k \in Nat, k < n, k \in T PROVE k + 1 \in T
    <3>1. k \in 0 .. n /\ k \in 0 .. n + 1 /\ k < n + 1 /\ k + 1 \in 1 .. n /\ k + 1 \in 0 .. n
      BY <2>1, <2>7
    <3>2. g[k + 1] = AddsUp(g[k], more[k + 1]) /\ h[k + 1] = AddsUp(h[k], s[k + 1])
      BY <2>4, <2>5, <2>7, <3>1
    <3>3. g[k] = h[k] /\ more[k + 1] = s[k + 1]
      BY <2>2, <2>7, <3>1
    <3>. QED BY <3>1, <3>2, <3>3
  <2>. HIDE DEF T
  <2>8. \A k \in 0 .. n : k \in T
    <3>1. \A k \in Nat : k < n /\ k \in T => k + 1 \in T
      BY <2>7
    <3>. QED BY <2>1, <2>6, <3>1, StepByStep
  <2>9. n \in 0 .. n /\ n \in 0 .. n + 1 /\ n < n + 1
    BY <2>1
  <2>10. g[n] = h[n]
    BY <2>8, <2>9 DEF T
  <2>11. Total(more) = AddsUp(Total(s), e)
    BY <2>2, <2>4, <2>5, <2>9, <2>10
  <2>. QED BY <2>11 DEF AddsUp, more
<1>. QED BY <1>1, <1>2

(* What the first k arguments add up to. *)
TotalTo(args, k) == Total(SubSeq(args, 1, k))

LEMMA TotalToGrows ==
    ASSUME NEW args \in Seq(Arguments)
    PROVE  /\ TotalTo(args, 0) = 0 /\ TotalTo(args, Len(args)) = Total(args)
           /\ \A k \in 0 .. Len(args) : k < Len(args) =>
                  TotalTo(args, k + 1) = TotalTo(args, k) + Len(args[k + 1])
<1>. DEFINE n == Len(args)
<1>1. n \in Nat /\ args \in [1 .. n -> Arguments]
  BY SeqIsFunction
<1>2. SubSeq(args, 1, 0) = <<>>
  OBVIOUS
<1>3. SubSeq(args, 1, n) = args
  OBVIOUS
<1>4. ASSUME NEW k \in 0 .. n, k < n
      PROVE  /\ SubSeq(args, 1, k) \in Seq(Arguments) /\ args[k + 1] \in Arguments
             /\ SubSeq(args, 1, k + 1) = Append(SubSeq(args, 1, k), args[k + 1])
  <2>. HIDE DEF n
  <2>1. k \in Nat /\ k + 1 \in 1 .. n /\ k + 1 \in Nat
    BY <1>1, <1>4
  <2>2. args[k + 1] \in Arguments
    BY <1>1, <2>1
  <2>3. \A i \in 1 .. k + 1 : args[i] \in Arguments
    BY <1>1, <1>4
  <2>4. /\ SubSeq(args, 1, k) \in Seq(Arguments)
        /\ SubSeq(args, 1, k + 1) = Append(SubSeq(args, 1, k), args[k + 1])
    BY <1>1, <2>1, <2>3 DEF n
  <2>. QED BY <2>2, <2>4
<1>5. ASSUME NEW k \in 0 .. n, k < n PROVE TotalTo(args, k + 1) = TotalTo(args, k) + Len(args[k + 1])
  <2>. HIDE DEF n
  <2>. QED BY <1>4, <1>5, TotalGrows DEF TotalTo
<1>6. TotalTo(args, 0) = 0
  BY <1>2, TotalGrows DEF TotalTo
<1>. QED BY <1>3, <1>5, <1>6 DEF TotalTo

(* The beginning of a sequence grows by one. *)
LEMMA FirstGrows ==
    ASSUME NEW S, NEW s \in Seq(S)
    PROVE  /\ SubSeq(s, 1, 0) = <<>> /\ SubSeq(s, 1, Len(s)) = s
           /\ \A k \in 0 .. Len(s) : k < Len(s) =>
                /\ s[k + 1] \in S /\ SubSeq(s, 1, k) \in Seq(S)
                /\ SubSeq(s, 1, k + 1) = Append(SubSeq(s, 1, k), s[k + 1])
<1>. DEFINE n == Len(s)
<1>1. n \in Nat /\ s \in [1 .. n -> S]
  BY SeqIsFunction
<1>2. SubSeq(s, 1, 0) = <<>> /\ SubSeq(s, 1, n) = s
  OBVIOUS
<1>3. ASSUME NEW k \in 0 .. n, k < n
      PROVE  /\ s[k + 1] \in S /\ SubSeq(s, 1, k) \in Seq(S)
             /\ SubSeq(s, 1, k + 1) = Append(SubSeq(s, 1, k), s[k + 1])
  <2>. HIDE DEF n
  <2>1. k \in Nat /\ k + 1 \in 1 .. n /\ k + 1 \in Nat
    BY <1>1, <1>3
  <2>2. s[k + 1] \in S /\ \A i \in 1 .. k + 1 : s[i] \in S
    BY <1>1, <1>3, <2>1
  <2>3. /\ SubSeq(s, 1, k) \in Seq(S)
        /\ SubSeq(s, 1, k + 1) = Append(SubSeq(s, 1, k), s[k + 1])
    BY <1>1, <2>1, <2>2 DEF n
  <2>. QED BY <2>2, <2>3
<1>. QED BY <1>2, <1>3

(* Where the shell is when it has read k arguments, and when it has read, besides, c
   characters of the next. *)
Reading(mode, word, words) == [mode |-> mode, word |-> word, words |-> words]
ShellHasRead(s, args, k) ==
    s = IF k = 0 THEN Reading("between", <<>>, <<>>)
        ELSE Reading("in a word", args[k], SubSeq(args, 1, k - 1))
ReadsOn(s, args, k, c) == s = Reading("quoted", SubSeq(args[k + 1], 1, c), SubSeq(args, 1, k))

(* What the shell does on each of the characters that to_wire writes. *)
LEMMA OneChar ==
    ASSUME NEW word, NEW words
    PROVE  /\ ReadsChar(Reading("between", word, words), "quote") = Reading("quoted", word, words)
           /\ ReadsChar(Reading("in a word", word, words), "quote") = Reading("quoted", word, words)
           /\ ReadsChar(Reading("in a word", word, words), "blank") = Reading("between", <<>>, Append(words, word))
           /\ ReadsChar(Reading("in a word", word, words), "backslash") = Reading("escaped", word, words)
           /\ ReadsChar(Reading("quoted", word, words), "quote") = Reading("in a word", word, words)
           /\ ReadsChar(Reading("escaped", word, words), "quote") = Reading("in a word", Append(word, "quote"), words)
<1>1. /\ ReadsChar(Reading("between", word, words), "quote") = Reading("quoted", word, words)
      /\ ReadsChar(Reading("in a word", word, words), "quote") = Reading("quoted", word, words)
      /\ ReadsChar(Reading("in a word", word, words), "backslash") = Reading("escaped", word, words)
      /\ ReadsChar(Reading("quoted", word, words), "quote") = Reading("in a word", word, words)
  BY DEF ReadsChar, Reading, Turns, Gains
<1>2. ReadsChar(Reading("in a word", word, words), "blank") = Reading("between", <<>>, Append(words, word))
  BY DEF ReadsChar, Reading, Turns, Gains
<1>3. ReadsChar(Reading("escaped", word, words), "quote") = Reading("in a word", Append(word, "quote"), words)
  BY DEF ReadsChar, Reading, Turns, Gains
<1>. QED BY <1>1, <1>2, <1>3

LEMMA OrdinaryChar ==
    ASSUME NEW word, NEW words, NEW char, char \notin {"quote", "NUL"}
    PROVE  ReadsChar(Reading("quoted", word, words), char) = Reading("quoted", Append(word, char), words)
BY DEF ReadsChar, Reading, Turns, Gains

LEMMA ReadingTyped ==
    ASSUME NEW word \in Seq(Signs), NEW words \in Seq(Seq(Signs)), NEW mode \in Modes
    PROVE  Reading(mode, word, words) \in Readings
BY DEF Reading, Readings

LEMMA Narrower ==
    /\ Chars \subseteq Signs /\ {"quote", "backslash", "blank"} \subseteq Signs
    /\ Arguments \subseteq Seq(Signs) /\ Seq(Arguments) \subseteq Seq(Seq(Signs))
<1>1. Chars \subseteq Signs /\ {"quote", "backslash", "blank"} \subseteq Signs
  BY DEF Chars, Signs
<1>2. ASSUME NEW S, NEW T, S \subseteq T PROVE Seq(S) \subseteq Seq(T)
  BY <1>2
<1>3. Arguments \subseteq Seq(Signs)
  BY <1>1, <1>2 DEF Arguments
<1>4. Seq(Arguments) \subseteq Seq(Seq(Signs))
  BY <1>2, <1>3
<1>. QED BY <1>1, <1>3, <1>4

LEMMA OpeningIsRead ==
    ASSUME NEW args \in Seq(Arguments), NEW k \in 0 .. Len(args), k < Len(args), NEW s, ShellHasRead(s, args, k)
    PROVE  /\ s \in Readings
           /\ LET read == FoldLeft(ReadsChar, s, IF k + 1 = 1 THEN <<"quote">> ELSE <<"blank", "quote">>)
              IN read \in Readings /\ ReadsOn(read, args, k, 0)
<1>1. k \in Nat /\ args[k + 1] \in Arguments /\ SubSeq(args, 1, k) \in Seq(Arguments)
      /\ SubSeq(args[k + 1], 1, 0) = <<>>
  <2>1. k \in Nat /\ args[k + 1] \in Arguments /\ SubSeq(args, 1, k) \in Seq(Arguments)
    BY FirstGrows
  <2>2. SubSeq(args[k + 1], 1, 0) = <<>>
    BY <2>1, FirstGrows DEF Arguments
  <2>. QED BY <2>1, <2>2
<1>. DEFINE first == SubSeq(args, 1, k)
            after == Reading("quoted", <<>>, first)
<1>2. <<>> \in Seq(Signs) /\ first \in Seq(Seq(Signs))
  BY <1>1, Narrower
<1>3. after \in Readings
  BY <1>2, ReadingTyped DEF Modes
<1>4. \A read : read = after => ReadsOn(read, args, k, 0)
  BY <1>1 DEF ReadsOn
<1>5. CASE k = 0
  <2>1. first = <<>>
    BY <1>5, FirstGrows
  <2>2. s = Reading("between", <<>>, first)
    BY <1>5, <2>1 DEF ShellHasRead
  <2>. HIDE DEF first, after
  <2>3. s \in Readings
    BY <1>2, <2>2, ReadingTyped DEF Modes
  <2>4. FoldLeft(ReadsChar, s, <<"quote">>) = after
    BY <2>2, <2>3, OneChar, ReadsOne, Narrower DEF after
  <2>5. k + 1 = 1
    BY <1>5
  <2>. QED BY <1>3, <1>4, <2>3, <2>4, <2>5
<1>6. CASE k # 0
  <2>. DEFINE before == SubSeq(args, 1, k - 1)
  <2>1. k - 1 \in 0 .. Len(args) /\ k - 1 < Len(args) /\ (k - 1) + 1 = k /\ k + 1 # 1
    BY <1>1, <1>6
  <2>2. /\ args[(k - 1) + 1] \in Arguments /\ before \in Seq(Arguments)
        /\ SubSeq(args, 1, (k - 1) + 1) = Append(before, args[(k - 1) + 1])
    BY <2>1, FirstGrows
  <2>3. args[k] \in Seq(Signs) /\ before \in Seq(Seq(Signs)) /\ first = Append(before, args[k])
    BY <2>1, <2>2, Narrower
  <2>4. s = Reading("in a word", args[k], before)
    BY <1>6 DEF ShellHasRead
  <2>. HIDE DEF first, after, before
  <2>5. s \in Readings
    BY <2>3, <2>4, ReadingTyped DEF Modes
  <2>6. FoldLeft(ReadsChar, s, <<"blank", "quote">>) = ReadsChar(ReadsChar(s, "blank"), "quote")
    BY <2>5, ReadsTwo, Narrower
  <2>7. ReadsChar(s, "blank") = Reading("between", <<>>, first)
    BY <2>3, <2>4, OneChar
  <2>8. FoldLeft(ReadsChar, s, <<"blank", "quote">>) = after
    <3>1. ReadsChar(Reading("between", <<>>, first), "quote") = Reading("quoted", <<>>, first)
      BY OneChar
    <3>. QED BY <2>6, <2>7, <3>1 DEF after
  <2>. QED BY <1>3, <1>4, <2>1, <2>5, <2>8
<1>. QED BY <1>5, <1>6

LEMMA CharIsRead ==
    ASSUME NEW args \in Seq(Arguments), NEW k \in 0 .. Len(args), k < Len(args),
           NEW c \in 0 .. Len(args[k + 1]), c < Len(args[k + 1]), args[k + 1][c + 1] # "NUL",
           NEW s, ReadsOn(s, args, k, c)
    PROVE  /\ s \in Readings
           /\ LET read == FoldLeft(ReadsChar, s, Quoted(args[k + 1][c + 1]))
              IN read \in Readings /\ ReadsOn(read, args, k, c + 1)
<1>. DEFINE arg == args[k + 1]
            char == arg[c + 1]
            first == SubSeq(args, 1, k)
            part == SubSeq(arg, 1, c)
            more == SubSeq(arg, 1, c + 1)
<1>1. arg \in Seq(Chars) /\ first \in Seq(Arguments)
  BY FirstGrows DEF Arguments
<1>2. s = Reading("quoted", part, first)
  BY DEF ReadsOn
<1>3. char # "NUL"
  OBVIOUS
<1>4. \A read : read = Reading("quoted", more, first) => ReadsOn(read, args, k, c + 1)
  BY DEF ReadsOn
<1>5. char \in Chars /\ part \in Arguments /\ more = Append(part, char)
  <2>1. c \in 0 .. Len(arg) /\ c < Len(arg)
    OBVIOUS
  <2>. HIDE DEF arg
  <2>. QED BY <1>1, <2>1, FirstGrows DEF Arguments
<1>. HIDE DEF arg, char, first, part, more
<1>6. char \in Signs /\ part \in Seq(Signs) /\ first \in Seq(Seq(Signs)) /\ Append(part, char) \in Seq(Signs)
  <2>1. char \in Signs /\ part \in Seq(Signs) /\ first \in Seq(Seq(Signs))
    BY <1>1, <1>5, Narrower
  <2>. QED BY <2>1, AppendProperties
<1>7. s \in Readings /\ Reading("quoted", Append(part, char), first) \in Readings
  BY <1>2, <1>6, ReadingTyped DEF Modes
<1>8. FoldLeft(ReadsChar, s, Quoted(char)) = Reading("quoted", Append(part, char), first)
  <2>1. CASE char = "quote"
    <3>1. FoldLeft(ReadsChar, s, <<"quote", "backslash", "quote", "quote">>)
            = ReadsChar(ReadsChar(ReadsChar(ReadsChar(s, "quote"), "backslash"), "quote"), "quote")
      <4>1. "quote" \in Signs /\ "backslash" \in Signs
        BY Narrower
      <4>. QED BY <1>7, <4>1, ReadsFour
    <3>2. ReadsChar(s, "quote") = Reading("in a word", part, first)
      BY <1>2, OneChar
    <3>3. ReadsChar(Reading("in a word", part, first), "backslash") = Reading("escaped", part, first)
      BY OneChar
    <3>4. ReadsChar(Reading("escaped", part, first), "quote") = Reading("in a word", Append(part, "quote"), first)
      BY OneChar
    <3>5. ReadsChar(Reading("in a word", Append(part, "quote"), first), "quote")
            = Reading("quoted", Append(part, "quote"), first)
      BY OneChar
    <3>6. Quoted(char) = <<"quote", "backslash", "quote", "quote">>
      BY <2>1 DEF Quoted
    <3>. QED BY <2>1, <3>1, <3>2, <3>3, <3>4, <3>5, <3>6
  <2>2. CASE char # "quote"
    <3>1. FoldLeft(ReadsChar, s, <<char>>) = ReadsChar(s, char)
      BY <1>6, <1>7, ReadsOne
    <3>2. ReadsChar(s, char) = Reading("quoted", Append(part, char), first)
      <4>1. char \notin {"quote", "NUL"}
        BY <1>3, <2>2
      <4>2. ReadsChar(Reading("quoted", part, first), char) = Reading("quoted", Append(part, char), first)
        BY <4>1, OrdinaryChar
      <4>. QED BY <1>2, <4>2
    <3>3. Quoted(char) = <<char>>
      BY <2>2 DEF Quoted
    <3>. QED BY <3>1, <3>2, <3>3
  <2>. QED BY <2>1, <2>2
<1>9. FoldLeft(ReadsChar, s, Quoted(char)) \in Readings
      /\ ReadsOn(FoldLeft(ReadsChar, s, Quoted(char)), args, k, c + 1)
  BY <1>4, <1>5, <1>7, <1>8
<1>. QED BY <1>7, <1>9 DEF char, arg

LEMMA ClosingIsRead ==
    ASSUME NEW args \in Seq(Arguments), NEW k \in 0 .. Len(args), k < Len(args),
           NEW s, ReadsOn(s, args, k, Len(args[k + 1]))
    PROVE  /\ s \in Readings
           /\ LET read == FoldLeft(ReadsChar, s, <<"quote">>)
              IN read \in Readings /\ ShellHasRead(read, args, k + 1)
<1>. DEFINE arg == args[k + 1]
            first == SubSeq(args, 1, k)
<1>1. arg \in Seq(Chars) /\ first \in Seq(Arguments)
  BY FirstGrows DEF Arguments
<1>2. SubSeq(arg, 1, Len(arg)) = arg
  BY <1>1, FirstGrows
<1>3. s = Reading("quoted", arg, first)
  BY <1>2 DEF ReadsOn
<1>4. \A read : read = Reading("in a word", arg, first) => ShellHasRead(read, args, k + 1)
  <2>1. k + 1 # 0 /\ (k + 1) - 1 = k
    OBVIOUS
  <2>. QED BY <2>1 DEF ShellHasRead
<1>. HIDE DEF arg, first
<1>5. arg \in Seq(Signs) /\ first \in Seq(Seq(Signs))
  BY <1>1, Narrower DEF Arguments
<1>6. s \in Readings /\ Reading("in a word", arg, first) \in Readings
  BY <1>3, <1>5, ReadingTyped DEF Modes
<1>7. FoldLeft(ReadsChar, s, <<"quote">>) = Reading("in a word", arg, first)
  BY <1>3, <1>6, ReadsOne, OneChar, Narrower
<1>. QED BY <1>4, <1>6, <1>7

LEMMA TotalToTyped ==
    ASSUME NEW args \in Seq(Arguments), NEW k \in 0 .. Len(args)
    PROVE  TotalTo(args, k) \in Nat
<1>. DEFINE n == Len(args)
            T == {i \in 0 .. n : TotalTo(args, i) \in Nat}
<1>1. n \in Nat /\ k \in 0 .. n
  BY LenProperties
<1>2. 0 \in T
  BY <1>1, TotalToGrows
<1>3. ASSUME NEW i \in Nat, i < n, i \in T PROVE i + 1 \in T
  <2>1. i \in 0 .. Len(args) /\ i < Len(args) /\ i + 1 \in 0 .. n
    BY <1>1, <1>3
  <2>2. args[i + 1] \in Arguments /\ TotalTo(args, i + 1) = TotalTo(args, i) + Len(args[i + 1])
    BY <2>1, FirstGrows, TotalToGrows
  <2>3. Len(args[i + 1]) \in Nat
    BY <2>2, LenProperties DEF Arguments
  <2>. QED BY <1>3, <2>1, <2>2, <2>3
<1>. HIDE DEF T
<1>4. \A i \in 0 .. n : i \in T
  <2>. HIDE DEF n
  <2>1. \A i \in Nat : i < n /\ i \in T => i + 1 \in T
    BY <1>3
  <2>. QED BY <1>1, <1>2, <2>1, StepByStep
<1>. QED BY <1>1, <1>4 DEF T

(* What is written of k arguments and of c characters of the next, and a few more. *)
Fits(k, c, more) == Len(rendered) <= 4 * (TotalTo(argv, k) + c) + 3 * k + more

Places == [at : {"new", "refused", "between", "inside", "sent"}, arg : Nat, char : Nat]

(* k arguments are written; TotalTo(argv, k) > 0 is needed because to_wire is given
   nothing when there is no room for anything. *)
Wrote(k) == ShellHasRead(shell, argv, k) /\ Fits(k, 0, 0) /\ (k > 0 => TotalTo(argv, k) > 0)

Writes(k, c) == ReadsOn(shell, argv, k, c) /\ Fits(k, c, 2) /\ (k > 0 => TotalTo(argv, k) > 0)

(* How the shell has read, at each place of to_wire, the arguments that were
   authorized, and how little it was given to read. *)
CommandsInvariant ==
    /\ argv \in Seq(Arguments) /\ rendered \in Seq(Signs) /\ place \in Places
    /\ place.at = "new" => rendered = <<>> /\ shell = Between /\ place.arg = 1 /\ place.char = 0
    /\ place.at \in {"between", "inside"} => Accepted(argv) /\ place.arg \in 1 .. Len(argv)
    /\ place.at = "between" => place.char = 0 /\ Wrote(place.arg - 1)
    /\ place.at = "inside" => place.char \in 0 .. Len(argv[place.arg]) /\ Writes(place.arg - 1, place.char)
    /\ place.at = "sent" => Accepted(argv) /\ Wrote(Len(argv))

LEMMA CommandsStart == CommandsInit => CommandsInvariant
<1>1. SUFFICES ASSUME CommandsInit PROVE CommandsInvariant
  OBVIOUS
<1>2. argv \in Seq(Arguments)
  <2>1. PICK n \in 0 .. MaxArgs + 1 : argv \in [1 .. n -> BoundedSeq(Chars, Longer)]
    BY <1>1 DEF CommandsInit, Argvs
  <2>2. BoundedSeq(Chars, Longer) \subseteq Arguments
    <3>1. ASSUME NEW s \in BoundedSeq(Chars, Longer) PROVE s \in Seq(Chars)
      <4>1. PICK m \in 0 .. Longer : s \in [1 .. m -> Chars]
        BY DEF BoundedSeq, SeqOf
      <4>2. m \in Nat
        BY CommandsAssumption
      <4>. QED BY <4>1, <4>2, FunctionIsSeq
    <3>. QED BY <3>1 DEF Arguments
  <2>3. argv \in [1 .. n -> Arguments] /\ n \in Nat
    BY <2>1, <2>2, CommandsAssumption
  <2>. QED BY <2>3, FunctionIsSeq
<1>3. rendered = <<>> /\ shell = Between /\ place = [at |-> "new", arg |-> 1, char |-> 0]
  BY <1>1 DEF CommandsInit
<1>4. rendered \in Seq(Signs) /\ place \in Places
  BY <1>3 DEF Places
<1>. QED BY <1>2, <1>3, <1>4 DEF CommandsInvariant

LEMMA EmitsTyped ==
    ASSUME rendered \in Seq(Signs), NEW chars \in Seq(Signs), Emits(chars)
    PROVE  /\ argv' = argv /\ rendered' \in Seq(Signs) /\ Len(rendered') = Len(rendered) + Len(chars)
           /\ Len(rendered) \in Nat /\ Len(chars) \in Nat /\ shell' = FoldLeft(ReadsChar, shell, chars)
BY ConcatProperties, LenProperties DEF Emits

LEMMA NewCommandKeeps == CommandsInvariant /\ NewCommand => CommandsInvariant'
<1>1. SUFFICES ASSUME CommandsInvariant, NewCommand PROVE CommandsInvariant'
  OBVIOUS
<1>2. argv' = argv /\ rendered' = rendered /\ shell' = shell
  BY <1>1 DEF NewCommand
<1>3. argv \in Seq(Arguments) /\ rendered = <<>> /\ shell = Between /\ place \in Places
      /\ place.at = "new" /\ place.arg = 1 /\ place.char = 0
  BY <1>1 DEF CommandsInvariant, NewCommand
<1>4. CASE Accepted(argv)
  <2>1. place' = [place EXCEPT !.at = "between"]
    BY <1>1, <1>4 DEF NewCommand
  <2>2. place' \in Places /\ place'.at = "between" /\ place'.arg = 1 /\ place'.char = 0
    BY <1>3, <2>1 DEF Places
  <2>3. place'.arg \in 1 .. Len(argv)
    <3>1. argv # <<>>
      BY <1>4 DEF Accepted
    <3>2. Len(argv) \in Nat /\ Len(argv) # 0
      BY <1>3, <3>1, EmptySeq, LenProperties
    <3>. QED BY <2>2, <3>2
  <2>4. Wrote(place.arg - 1)
    <3>1. place.arg - 1 = 0 /\ Len(rendered) = 0 /\ TotalTo(argv, 0) = 0
      BY <1>3, TotalToGrows
    <3>2. ShellHasRead(shell, argv, 0)
      BY <1>3 DEF ShellHasRead, Between, Reading
    <3>3. Fits(0, 0, 0)
      BY <3>1 DEF Fits
    <3>. QED BY <3>1, <3>2, <3>3 DEF Wrote
  <2>5. Wrote(place.arg - 1)' /\ Accepted(argv)'
    BY <1>2, <1>3, <1>4, <2>2, <2>4 DEF Wrote, Fits
  <2>. QED BY <1>2, <1>3, <2>2, <2>3, <2>5 DEF CommandsInvariant
<1>5. CASE ~Accepted(argv)
  <2>1. place' = [place EXCEPT !.at = "refused"]
    BY <1>1, <1>5 DEF NewCommand
  <2>2. place' \in Places /\ place'.at = "refused"
    BY <1>3, <2>1 DEF Places
  <2>. QED BY <1>2, <1>3, <2>2 DEF CommandsInvariant
<1>. QED BY <1>4, <1>5

LEMMA OpenQuotesKeeps == CommandsInvariant /\ OpenQuotes => CommandsInvariant'
<1>1. SUFFICES ASSUME CommandsInvariant, OpenQuotes PROVE CommandsInvariant'
  OBVIOUS
<1>. DEFINE k == place.arg - 1
            chars == IF place.arg = 1 THEN <<"quote">> ELSE <<"blank", "quote">>
<1>2. /\ argv \in Seq(Arguments) /\ rendered \in Seq(Signs) /\ place \in Places
      /\ Accepted(argv) /\ place.arg \in 1 .. Len(argv) /\ place.char = 0 /\ Wrote(k)
  BY <1>1 DEF CommandsInvariant, OpenQuotes
<1>3. place' = [place EXCEPT !.at = "inside"] /\ Emits(chars)
  BY <1>1 DEF OpenQuotes
<1>4. place' \in Places /\ place'.at = "inside" /\ place'.arg = place.arg /\ place'.char = 0
  BY <1>2, <1>3 DEF Places
<1>5. Len(argv) \in Nat /\ k \in 0 .. Len(argv) /\ k < Len(argv) /\ k + 1 = place.arg
  BY <1>2, LenProperties
<1>6. chars \in Seq(Signs) /\ Len(chars) <= 2 /\ Len(chars) \in Nat
  <2>1. "quote" \in Signs /\ "blank" \in Signs
    BY Narrower
  <2>. QED BY <2>1
<1>. HIDE DEF k
<1>7. chars = IF k + 1 = 1 THEN <<"quote">> ELSE <<"blank", "quote">>
  BY <1>5
<1>. HIDE DEF chars
<1>8. /\ argv' = argv /\ rendered' \in Seq(Signs) /\ Len(rendered') = Len(rendered) + Len(chars)
      /\ Len(rendered) \in Nat /\ shell' = FoldLeft(ReadsChar, shell, chars)
  BY <1>2, <1>3, <1>6, EmitsTyped
<1>9. ReadsOn(shell', argv, k, 0)
  <2>1. ShellHasRead(shell, argv, k)
    BY <1>2 DEF Wrote
  <2>. QED BY <1>2, <1>5, <1>7, <1>8, <2>1, OpeningIsRead
<1>10. Len(rendered') <= 4 * (TotalTo(argv, k) + 0) + 3 * k + 2
  <2>1. Len(rendered) <= 4 * (TotalTo(argv, k) + 0) + 3 * k + 0 /\ TotalTo(argv, k) \in Nat /\ k \in Nat
    BY <1>2, <1>5, TotalToTyped DEF Wrote, Fits
  <2>. QED BY <1>6, <1>8, <2>1
<1>11. (k > 0 => TotalTo(argv, k) > 0)
  BY <1>2 DEF Wrote
<1>12. /\ argv' = argv /\ place'.char = 0
  BY <1>4, <1>8
<1>13. place'.arg - 1 = k
  BY <1>4 DEF k
<1>14. 0 \in 0 .. Len(argv[place.arg])
  <2>1. Len(argv[place.arg]) \in Nat
    BY <1>2, LenProperties DEF Arguments
  <2>. QED BY <2>1
<1>15. Writes(place.arg - 1, place.char)'
  BY <1>9, <1>10, <1>11, <1>12, <1>13 DEF Writes, Fits
<1>16. place'.char \in 0 .. Len(argv'[place'.arg])
  BY <1>4, <1>8, <1>14
<1>. QED BY <1>2, <1>4, <1>8, <1>15, <1>16 DEF CommandsInvariant, Accepted

LEMMA RenderCharKeeps == CommandsInvariant /\ RenderChar => CommandsInvariant'
<1>1. SUFFICES ASSUME CommandsInvariant, RenderChar PROVE CommandsInvariant'
  OBVIOUS
<1>. DEFINE k == place.arg - 1
            c == place.char
            char == argv[place.arg][place.char + 1]
<1>2. /\ argv \in Seq(Arguments) /\ rendered \in Seq(Signs) /\ place \in Places
      /\ Accepted(argv) /\ place.arg \in 1 .. Len(argv) /\ c \in 0 .. Len(argv[place.arg])
      /\ Writes(k, c) /\ c < Len(argv[place.arg])
  BY <1>1 DEF CommandsInvariant, RenderChar
<1>3. place' = [place EXCEPT !.char = @ + 1] /\ Emits(Quoted(char)) /\ place.at = "inside"
  BY <1>1 DEF RenderChar
<1>4. place' \in Places /\ place'.at = "inside" /\ place'.arg = place.arg /\ place'.char = c + 1
  BY <1>2, <1>3 DEF Places
<1>5. Len(argv) \in Nat /\ k \in 0 .. Len(argv) /\ k < Len(argv) /\ k + 1 = place.arg
      /\ argv[place.arg] \in Seq(Chars) /\ Len(argv[place.arg]) \in Nat
  BY <1>2, LenProperties DEF Arguments
<1>6. c + 1 \in 1 .. Len(argv[place.arg]) /\ c + 1 \in 0 .. Len(argv[place.arg]) /\ c \in Nat
  BY <1>2, <1>5
<1>7. char \in Chars /\ char # "NUL"
  <2>1. char \in Chars
    BY <1>5, <1>6, ElementOfSeq
  <2>2. DOMAIN argv = 1 .. Len(argv) /\ DOMAIN argv[place.arg] = 1 .. Len(argv[place.arg])
    BY <1>2, <1>5, LenProperties
  <2>3. "NUL" \notin Range(argv[place.arg])
    BY <1>2, <2>2 DEF Accepted
  <2>4. char \in Range(argv[place.arg])
    BY <1>6, <2>2 DEF Range
  <2>. QED BY <2>1, <2>3, <2>4
<1>. HIDE DEF k, c
<1>8. char = argv[k + 1][c + 1] /\ c \in 0 .. Len(argv[k + 1]) /\ c < Len(argv[k + 1])
  BY <1>2, <1>5 DEF c
<1>. HIDE DEF char
<1>9. Quoted(char) \in Seq(Signs) /\ Len(Quoted(char)) <= 4
  <2>1. char \in Signs /\ "quote" \in Signs /\ "backslash" \in Signs
    BY <1>7, Narrower
  <2>. QED BY <2>1 DEF Quoted
<1>10. /\ argv' = argv /\ rendered' \in Seq(Signs) /\ Len(rendered') = Len(rendered) + Len(Quoted(char))
       /\ Len(rendered) \in Nat /\ Len(Quoted(char)) \in Nat /\ shell' = FoldLeft(ReadsChar, shell, Quoted(char))
  BY <1>2, <1>3, <1>9, EmitsTyped
<1>11. ReadsOn(shell', argv, k, c + 1)
  <2>1. ReadsOn(shell, argv, k, c) /\ argv[k + 1][c + 1] # "NUL"
    BY <1>2, <1>7, <1>8 DEF Writes
  <2>. QED BY <1>2, <1>5, <1>8, <1>10, <2>1, CharIsRead
<1>12. Len(rendered') <= 4 * (TotalTo(argv, k) + (c + 1)) + 3 * k + 2
  <2>1. Len(rendered) <= 4 * (TotalTo(argv, k) + c) + 3 * k + 2 /\ TotalTo(argv, k) \in Nat /\ k \in Nat
    BY <1>2, <1>5, TotalToTyped DEF Writes, Fits
  <2>. QED BY <1>6, <1>9, <1>10, <2>1
<1>13. (k > 0 => TotalTo(argv, k) > 0)
  BY <1>2 DEF Writes
<1>14. place'.arg - 1 = k
  BY <1>4 DEF k
<1>15. Writes(place.arg - 1, place.char)'
  BY <1>4, <1>10, <1>11, <1>12, <1>13, <1>14 DEF Writes, Fits
<1>16. place'.char \in 0 .. Len(argv'[place'.arg])
  BY <1>4, <1>6, <1>10
<1>. QED BY <1>2, <1>4, <1>10, <1>15, <1>16 DEF CommandsInvariant, Accepted

LEMMA CloseQuotesKeeps == CommandsInvariant /\ CloseQuotes => CommandsInvariant'
<1>1. SUFFICES ASSUME CommandsInvariant, CloseQuotes PROVE CommandsInvariant'
  OBVIOUS
<1>. DEFINE k == place.arg - 1
            size == Len(argv[place.arg])
<1>2. /\ argv \in Seq(Arguments) /\ rendered \in Seq(Signs) /\ place \in Places
      /\ Accepted(argv) /\ place.arg \in 1 .. Len(argv) /\ Writes(k, size)
  BY <1>1 DEF CommandsInvariant, CloseQuotes
<1>3. Emits(<<"quote">>)
      /\ place' = IF place.arg = Len(argv) THEN [place EXCEPT !.at = "sent"]
                  ELSE [at |-> "between", arg |-> place.arg + 1, char |-> 0]
  BY <1>1 DEF CloseQuotes
<1>4. Len(argv) \in Nat /\ k \in 0 .. Len(argv) /\ k < Len(argv) /\ k + 1 = place.arg /\ k \in Nat
      /\ argv[place.arg] \in Arguments
  BY <1>2, LenProperties
<1>5. size \in Nat
  BY <1>4, LenProperties DEF Arguments
<1>. HIDE DEF k, size
<1>6. size = Len(argv[k + 1])
  BY <1>4 DEF size
<1>7. <<"quote">> \in Seq(Signs) /\ Len(<<"quote">>) = 1
  <2>1. "quote" \in Signs
    BY Narrower
  <2>. QED BY <2>1
<1>8. /\ argv' = argv /\ rendered' \in Seq(Signs) /\ Len(rendered') = Len(rendered) + 1
      /\ Len(rendered) \in Nat /\ shell' = FoldLeft(ReadsChar, shell, <<"quote">>)
  BY <1>2, <1>3, <1>7, EmitsTyped
<1>9. ShellHasRead(shell', argv, k + 1)
  <2>1. ReadsOn(shell, argv, k, Len(argv[k + 1]))
    BY <1>2, <1>6 DEF Writes
  <2>. QED BY <1>2, <1>4, <1>8, <2>1, ClosingIsRead
<1>10. TotalTo(argv, k) \in Nat /\ TotalTo(argv, k + 1) = TotalTo(argv, k) + size
  BY <1>2, <1>4, <1>6, TotalToTyped, TotalToGrows
<1>11. Len(rendered') <= 4 * (TotalTo(argv, k + 1) + 0) + 3 * (k + 1) + 0
  <2>1. Len(rendered) <= 4 * (TotalTo(argv, k) + size) + 3 * k + 2
    BY <1>2 DEF Writes, Fits
  <2>. QED BY <1>4, <1>5, <1>8, <1>10, <2>1
<1>12. TotalTo(argv, k + 1) > 0
  <2>1. CASE k > 0
    <3>1. TotalTo(argv, k) > 0
      BY <1>2, <2>1 DEF Writes
    <3>. QED BY <1>5, <1>10, <3>1
  <2>2. CASE k = 0
    <3>1. argv[k + 1] # <<>>
      BY <1>2, <2>2 DEF Accepted
    <3>2. size # 0
      BY <1>4, <1>6, <3>1, EmptySeq DEF Arguments
    <3>. QED BY <1>5, <1>10, <3>2
  <2>. QED BY <1>4, <2>1, <2>2
<1>13. CASE place.arg = Len(argv)
  <2>1. place' = [place EXCEPT !.at = "sent"]
    BY <1>3, <1>13
  <2>2. place' \in Places /\ place'.at = "sent"
    BY <1>2, <2>1 DEF Places
  <2>3. Len(argv) = k + 1
    BY <1>4, <1>13
  <2>4. Wrote(Len(argv))'
    BY <1>8, <1>9, <1>11, <1>12, <2>3 DEF Wrote, Fits
  <2>. QED BY <1>2, <1>8, <2>2, <2>4 DEF CommandsInvariant, Accepted
<1>14. CASE place.arg # Len(argv)
  <2>1. place' = [at |-> "between", arg |-> place.arg + 1, char |-> 0]
    BY <1>3, <1>14
  <2>2. place.arg \in Nat
    BY <1>2 DEF Places
  <2>3. place' \in Places /\ place'.at = "between" /\ place'.arg = place.arg + 1 /\ place'.char = 0
    BY <2>1, <2>2 DEF Places
  <2>4. place'.arg \in 1 .. Len(argv)
    BY <1>2, <1>4, <1>14, <2>3
  <2>5. place'.arg - 1 = k + 1
    BY <1>4, <2>2, <2>3
  <2>6. Wrote(place.arg - 1)'
    BY <1>8, <1>9, <1>11, <1>12, <2>5 DEF Wrote, Fits
  <2>. QED BY <1>2, <1>8, <2>3, <2>4, <2>6 DEF CommandsInvariant, Accepted
<1>. QED BY <1>13, <1>14

LEMMA CommandsContinue == CommandsInvariant /\ [CommandsNext]_commandVars => CommandsInvariant'
<1>1. CASE UNCHANGED commandVars
  BY <1>1 DEF commandVars, CommandsInvariant, Wrote, Writes, Fits, Accepted
<1>2. CASE CommandsNext
  BY <1>2, NewCommandKeeps, OpenQuotesKeeps, RenderCharKeeps, CloseQuotesKeeps DEF CommandsNext
<1>. QED BY <1>1, <1>2

LEMMA WroteTells ==
    ASSUME CommandsInvariant, place.at = "sent"
    PROVE  WordsOf(shell) = argv /\ Len(rendered) <= MaxWire
<1>. DEFINE n == Len(argv)
<1>1. argv \in Seq(Arguments) /\ rendered \in Seq(Signs) /\ Accepted(argv) /\ Wrote(n)
  BY DEF CommandsInvariant
<1>2. n \in Nat /\ n # 0
  <2>1. argv # <<>>
    BY <1>1 DEF Accepted
  <2>. QED BY <1>1, <2>1, EmptySeq, LenProperties
<1>3. WordsOf(shell) = argv
  <2>. DEFINE before == SubSeq(argv, 1, n - 1)
  <2>1. n - 1 \in 0 .. n /\ n - 1 < n /\ (n - 1) + 1 = n
    BY <1>2
  <2>2. SubSeq(argv, 1, (n - 1) + 1) = Append(before, argv[(n - 1) + 1]) /\ SubSeq(argv, 1, n) = argv
    BY <1>1, <2>1, FirstGrows
  <2>3. argv = Append(before, argv[n])
    BY <2>1, <2>2
  <2>4. shell = Reading("in a word", argv[n], before)
    BY <1>1, <1>2 DEF Wrote, ShellHasRead
  <2>. HIDE DEF before, n
  <2>5. WordsOf(shell) = Append(before, argv[n])
    BY <2>4 DEF WordsOf, Reading
  <2>. QED BY <2>3, <2>5
<1>4. Len(rendered) <= MaxWire
  <2>1. TotalTo(argv, n) = Total(argv) /\ TotalTo(argv, n) \in Nat
    <3>1. n \in 0 .. n
      BY <1>2
    <3>. QED BY <1>1, <3>1, TotalToGrows, TotalToTyped
  <2>2. Total(argv) <= MaxBytesOfArgs /\ n <= MaxArgs
    BY <1>1 DEF Accepted
  <2>3. Len(rendered) <= 4 * (TotalTo(argv, n) + 0) + 3 * n + 0 /\ (n > 0 => TotalTo(argv, n) > 0)
    BY <1>1 DEF Wrote, Fits
  <2>4. Len(rendered) \in Nat
    BY <1>1, LenProperties
  <2>. DEFINE room == MaxWire \div 4
  <2>5. room \in Nat /\ 4 * room <= MaxWire /\ MaxArgs \in Nat /\ MaxWire \in Nat
    BY CommandsAssumption
  <2>. HIDE DEF room, n
  <2>6. room > MaxArgs * 3 /\ Total(argv) <= room - MaxArgs * 3
    <3>1. MaxBytesOfArgs = IF room > MaxArgs * 3 THEN room - MaxArgs * 3 ELSE 0
      BY DEF MaxBytesOfArgs, room
    <3>2. Total(argv) > 0 /\ Total(argv) \in Nat
      BY <1>2, <2>1, <2>3
    <3>. QED BY <2>2, <2>5, <3>1, <3>2
  <2>. QED BY <1>2, <2>1, <2>2, <2>3, <2>4, <2>5, <2>6
<1>. QED BY <1>3, <1>4

(* Whatever vector of arguments is accepted, of whatever characters, the shell of the
   target reads it back as it was authorized, and what is sent is no longer than a
   target executes: command.rs, Command::new, to_wire and shell_quote. *)
THEOREM AuthorizedCommandAlwaysArrives == CommandsSpec => []AuthorizedCommandArrives
<1>1. CommandsInvariant => AuthorizedCommandArrives
  BY WroteTells DEF AuthorizedCommandArrives
<1>. QED BY <1>1, CommandsStart, CommandsContinue, PTL DEF CommandsSpec
=============================================================================
