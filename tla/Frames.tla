------------------------------- MODULE Frames -------------------------------
(***************************************************************************)
(* The stream below the SFTP decoder (ssh-core/files.rs:                   *)
(* BoundedSftpStream), which looks at the length of each frame before the  *)
(* decoder sees it: the decoder allocates what a header declares.          *)
(*                                                                         *)
(* A wire is a sequence of units, each an octet of a header or of a body;  *)
(* the target may cut it anywhere, and what it sends arrives in pieces.    *)
(***************************************************************************)
EXTENDS Naturals, Sequences, SequencesExt

CONSTANTS
    HeaderBytes,   \* 4
    MaxFrame,      \* MAX_SFTP_FRAME_BYTES
    PieceBytes,    \* the 32 KiB a body is read in
    BufferBytes,   \* bound: room of the decoder's buffer
    MaxFrames      \* bound: frames the target sends

ASSUME FramesAssumption ==
    /\ HeaderBytes \in Nat \ {0} /\ PieceBytes \in Nat \ {0}
    /\ MaxFrame \in Nat /\ BufferBytes \in Nat /\ MaxFrames \in Nat

VARIABLES
    wire,     \* what the target sends, from the first unit on
    stream,   \* BoundedSftpStream: header, header_exposed, body_remaining, rejected
    fetched,  \* how much of the wire was read
    exposed   \* what the decoder was given

frameVars == <<wire, stream, fetched, exposed>>

Frame(size) ==
    [i \in 1 .. HeaderBytes |-> [part |-> "header", size |-> size, last |-> i = HeaderBytes]]
    \o [i \in 1 .. size |-> [part |-> "body"]]

Wholes ==
    {FlattenSeq([i \in DOMAIN sizes |-> Frame(sizes[i])]) : sizes \in SeqOf(0 .. MaxFrame + 1, MaxFrames)}
Wires == UNION {{SubSeq(whole, 1, n) : n \in 0 .. Len(whole)} : whole \in Wholes}

(* What the octets of a header declare; those of something else could be anything. *)
Declared(header) ==
    IF \A i \in DOMAIN header : header[i].part = "header" THEN {header[1].size}
    ELSE 0 .. MaxFrame + 1

Least(a, b) == IF a < b THEN a ELSE b
Unread(count) == SubSeq(wire, fetched + 1, fetched + count)

FreshFrame == [header |-> <<>>, shown |-> 0, body |-> 0, rejected |-> FALSE]

-----------------------------------------------------------------------------
(* poll_read with room for `room` octets.  The stream below has `ready` of them, or
   pends, fails or is over after them. *)

(* A frame that is over makes room for the next header.
   Mutant: one whose header was given is over. *)
Turned_HeaderEnds(s) == IF s.shown = HeaderBytes THEN FreshFrame ELSE s

Turned(s) == IF s.shown = HeaderBytes /\ s.body = 0 THEN FreshFrame ELSE s

(* The header is kept private until all of it has arrived; then as much of it is
   given as there is room for. *)
PollHeader(room, ready) ==
    LET s == Turned(stream)
        missing == HeaderBytes - Len(s.header)
        header == s.header \o Unread(ready)
        given == Least(room, HeaderBytes - s.shown)
    IN /\ ~stream.rejected
       /\ s.shown < HeaderBytes
       /\ ready \in 0 .. Least(missing, Len(wire) - fetched)
       /\ fetched' = fetched + ready
       /\ IF ready < missing
          THEN /\ stream' = [s EXCEPT !.header = header]
               /\ UNCHANGED exposed
          ELSE \E declared \in IF s.shown = 0 THEN Declared(header) ELSE {s.body} :
               IF s.shown = 0 /\ declared > MaxFrame
               THEN /\ stream' = [s EXCEPT !.header = header, !.rejected = TRUE]
                    /\ UNCHANGED exposed
               ELSE /\ stream' = [s EXCEPT !.header = header, !.body = declared, !.shown = @ + given]
                    /\ exposed' = exposed \o SubSeq(header, s.shown + 1, s.shown + given)
       /\ UNCHANGED wire

PollBody(room, ready) ==
    LET s == Turned(stream)
    IN /\ ~stream.rejected
       /\ s.shown = HeaderBytes
       /\ ready \in 1 .. Least(Least(room, Least(s.body, PieceBytes)), Len(wire) - fetched)
       /\ fetched' = fetched + ready
       /\ exposed' = exposed \o Unread(ready)
       /\ stream' = [s EXCEPT !.body = @ - ready]
       /\ UNCHANGED wire

FramesInit ==
    /\ wire \in Wires
    /\ stream = FreshFrame
    /\ fetched = 0
    /\ exposed = <<>>

FramesNext ==
    \E room \in 1 .. BufferBytes :
        \/ \E ready \in 0 .. HeaderBytes : PollHeader(room, ready)
        \/ \E ready \in 1 .. PieceBytes : PollBody(room, ready)

FramesSpec == FramesInit /\ [][FramesNext]_frameVars

-----------------------------------------------------------------------------
(* Properties *)

(* The decoder sees the octets the target sent, in order, in frames it may allocate,
   each header only when it was there whole; and the stream is refused only for a
   frame that is too long, where all before it was given: "Keeping the header private
   until it is complete matters". *)
FramesAreBounded ==
    LET next == Len(exposed) + 1
    IN /\ IsPrefix(exposed, wire)
       /\ \A i \in DOMAIN exposed : exposed[i].part = "header" =>
            /\ exposed[i].size <= MaxFrame
            /\ \E j \in i .. fetched : wire[j].part = "header" /\ wire[j].last
       /\ stream.rejected =>
            /\ next \in DOMAIN wire
            /\ wire[next].part = "header" /\ wire[next].size > MaxFrame
=============================================================================
