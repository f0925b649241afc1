----------------------------- MODULE Downloads -----------------------------
(***************************************************************************)
(* Reading a file of a target (ssh-core/files/download.rs: Reader) for one *)
(* of its two uses: a download into reserved storage (ssh-server/disk.rs:  *)
(* receive) and a checksum (files/info.rs: ChecksumSink).                  *)
(*                                                                         *)
(* Several reads are on the wire at once and are answered in any order,    *)
(* each with as much as the target likes.  The file may grow meanwhile; a  *)
(* byte is written as its position.                                        *)
(***************************************************************************)
EXTENDS Naturals, Sequences, SequencesExt

CONSTANTS
    ChunkBytes,  \* CHUNK_BYTES
    ReadAhead,   \* the requests of a DownloadWindow
    MaxBytes,    \* max_bytes of a download, the limit of a checksum
    MaxFile      \* bound: the size of the file

ASSUME DownloadsAssumption ==
    /\ ChunkBytes \in Nat \ {0} /\ ReadAhead \in Nat \ {0}
    /\ MaxBytes \in Nat /\ MaxFile \in Nat

VARIABLES
    size,    \* of the file on the target
    opened,  \* its size when it was opened
    reader,  \* Reader
    taken,   \* what the sink has taken
    outcome  \* what the call returned, or how far it is

downloadVars == <<size, opened, reader, taken, outcome>>

(* u64::MAX: no file is as long. *)
Unlimited == MaxFile + ChunkBytes * (ReadAhead + 1)

(* A request with the state of its future, read_chunk: a read is on the wire or
   its answer has arrived and nobody has looked; or the future has returned. *)
RequestChunk(offset, bytes) ==
    [offset |-> offset, size |-> bytes, bytes |-> <<>>, future |-> "asked"]

-----------------------------------------------------------------------------
(* Helpers *)

AtMost(a, b) == IF a < b THEN a ELSE b

Positions(offset, count) == [i \in 1 .. count |-> offset + i]

(* The window of poll_read: requests for what follows, within the limit. *)
Scheduled(r) ==
    LET room == ReadAhead - Len(r.requests)
        left == r.limit - r.next
        count == AtMost(room, (left + r.chunk - 1) \div r.chunk)
    IN [i \in 1 .. count |->
          LET offset == r.next + (i - 1) * r.chunk
          IN RequestChunk(offset, AtMost(r.chunk, r.limit - offset))]

(* read_chunk, woken: what has arrived is kept, and the rest asked for: an answer
   may be shorter than its request. *)
Polled(request) ==
    CASE request.future = "eof" -> [request EXCEPT !.future = "done"]
      [] request.future = "data" ->
            [request EXCEPT !.future = IF Len(request.bytes) = request.size THEN "done" ELSE "asked"]
      [] OTHER -> request

-----------------------------------------------------------------------------
(* The target *)

(* SSH_FXP_READ: some of what there is, the end of the file, or a failure, which an
   answer of a wrong length and a lost connection come to as well. *)
Answer(i) ==
    LET request == reader.requests[i]
        at == request.offset + Len(request.bytes)
        Settle(future, count) ==
            reader' = [reader EXCEPT !.requests[i].future = future,
                                     !.requests[i].bytes = @ \o Positions(at, count)]
    IN /\ request.future = "asked"
       /\ \/ at >= size /\ Settle("eof", 0)
          \/ \E count \in 1 .. request.size - Len(request.bytes) :
                at + count <= size /\ Settle("data", count)
          \/ Settle("failed", 0)
       /\ UNCHANGED <<size, opened, taken, outcome>>

(* Something on the target appends to the file. *)
Grow ==
    /\ size < MaxFile
    /\ size' = size + 1
    /\ UNCHANGED <<opened, reader, taken, outcome>>

-----------------------------------------------------------------------------
(* The call: download_bounded *)

Ends(result) == outcome' = result

Closed == [next |-> 0, limit |-> 0, chunk |-> 0, requests |-> <<>>, current |-> <<>>, eof |-> TRUE]

(* The path is refused, or the session, or the limits of the peer leave no room
   for a byte. *)
OpenRefused ==
    /\ outcome = "opening"
    /\ Ends("RemoteIo")
    /\ UNCHANGED <<size, opened, reader, taken>>

(* inspect: one byte more than the limit tells an exact fit from a longer file. *)
ReadLimit(use) == IF use = "checksum" THEN MaxBytes + 1 ELSE Unlimited

OpenFile(use, chunk) ==
    /\ outcome = "opening"
    /\ Ends("reading")
    /\ opened' = size
    /\ reader' = [Closed EXCEPT !.limit = ReadLimit(use), !.chunk = chunk, !.eof = FALSE]
    /\ UNCHANGED <<size, taken>>

(* poll_read, with nothing left of the chunk before.  Every request is polled; the
   oldest is the one that is delivered.  Mutant: the first that is answered is. *)
Delivers_Answered(requests) ==
    IF \E i \in DOMAIN requests : requests[i].future \in {"done", "failed"}
    THEN SelectInSeq(requests, LAMBDA request : request.future \in {"done", "failed"})
    ELSE 0

Delivers(requests) == IF requests # <<>> /\ requests[1].future \in {"done", "failed"} THEN 1 ELSE 0

Advance ==
    LET requests == [i \in DOMAIN reader.requests |-> Polled(reader.requests[i])] \o Scheduled(reader)
        scheduled == [reader EXCEPT !.requests = requests,
                                    !.next = AtMost(@ + Len(Scheduled(reader)) * reader.chunk, reader.limit)]
        i == Delivers(requests)
    IN /\ outcome = "reading"
       /\ reader.current = <<>> /\ ~reader.eof
       /\ UNCHANGED <<size, opened, taken>>
       /\ IF requests = <<>>
          THEN reader' = [scheduled EXCEPT !.eof = TRUE] /\ UNCHANGED outcome
          ELSE IF i = 0
          THEN reader' = scheduled /\ UNCHANGED outcome
          ELSE IF requests[i].future = "failed"
          THEN reader' = Closed /\ Ends("RemoteIo")
          ELSE /\ reader' = IF Len(requests[i].bytes) < requests[i].size
                            THEN [Closed EXCEPT !.current = requests[i].bytes]
                            ELSE [scheduled EXCEPT !.requests = RemoveAt(requests, i),
                                                   !.current = requests[i].bytes]
               /\ UNCHANGED outcome

(* disk::receive and ChecksumSink: as much as the buffer has room for, counted
   against the limit. *)
Take(count) ==
    /\ outcome = "reading"
    /\ count \in 1 .. Len(reader.current)
    /\ IF Len(taken) + count > MaxBytes
       THEN Ends("TooLarge") /\ UNCHANGED taken
       ELSE taken' = taken \o SubSeq(reader.current, 1, count) /\ UNCHANGED outcome
    /\ reader' = [reader EXCEPT !.current = SubSeq(@, count + 1, Len(@))]
    /\ UNCHANGED <<size, opened>>

(* A read of nothing ends the loop. *)
Finish ==
    /\ outcome = "reading"
    /\ reader.current = <<>> /\ reader.eof
    /\ Ends("whole")
    /\ UNCHANGED <<size, opened, reader, taken>>

(* supervise_transfer drops the work; another call may come. *)
Stop ==
    /\ outcome = "reading"
    /\ Ends("stopped")
    /\ UNCHANGED <<size, opened, reader, taken>>

BeginDownload ==
    /\ outcome \notin {"opening", "reading"}
    /\ Ends("opening")
    /\ reader' = Closed /\ taken' = <<>>
    /\ UNCHANGED <<size, opened>>

-----------------------------------------------------------------------------
(* Specification *)

DownloadsInit ==
    /\ size \in 0 .. MaxFile
    /\ opened = 0
    /\ reader = Closed
    /\ taken = <<>>
    /\ outcome = "opening"

DownloadsNext ==
    \/ \E i \in DOMAIN reader.requests : Answer(i)
    \/ Grow
    \/ OpenRefused
    \/ \E use \in {"download", "checksum"}, chunk \in 1 .. ChunkBytes : OpenFile(use, chunk)
    \/ Advance
    \/ \E count \in 1 .. ChunkBytes : Take(count)
    \/ Finish \/ Stop \/ BeginDownload

DownloadsSpec == DownloadsInit /\ [][DownloadsNext]_downloadVars

-----------------------------------------------------------------------------
(* Properties *)

(* Success means the whole file: every byte of it, in order, up to an end it had
   while it was read; and it is refused as too large only when it is.  Both uses
   take the digest of what they were given for the digest of the file:
   download.rs, "Delivery still consumes only the oldest offset"; info.rs, "One
   extra byte distinguishes an exact fit from an oversized file". *)
OutcomeTellsFile ==
    /\ taken = Positions(0, Len(taken))
    /\ outcome = "whole" => Len(taken) \in opened .. size
    /\ outcome = "TooLarge" => size > MaxBytes
=============================================================================
