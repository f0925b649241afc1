---------------------------- MODULE Inspections ----------------------------
(***************************************************************************)
(* Looking at a path of a target (ssh-core/files/info.rs: inspect, stat    *)
(* and list; the checksum is in module Downloads) and what makes a path    *)
(* one (ssh-core/files.rs: RemotePath).                                    *)
(*                                                                         *)
(* The path is what policy decided about.  Each request to the target is   *)
(* answered by what is there by then, or fails; what is there may be       *)
(* replaced once meanwhile.                                                *)
(***************************************************************************)
EXTENDS Naturals, Sequences, SequencesExt, FiniteSetsExt

CONSTANTS
    MaxEntries,   \* MAX_DIRECTORY_ENTRIES, of entries and of packets
    MaxCharge,    \* MAX_DIRECTORY_BYTES
    BaseCost, EntryCost, LetterCost,  \* 128, 256 and 6
    MaxNames,     \* bound: names in a directory
    MaxComponents \* bound: components of a path

ASSUME InspectionsAssumption ==
    /\ MaxEntries \in Nat \ {0} /\ MaxCharge \in Nat
    /\ BaseCost \in 0 .. MaxCharge /\ EntryCost \in Nat /\ LetterCost \in Nat
    /\ MaxNames \in Nat /\ MaxComponents \in Nat

VARIABLES
    prefix,   \* whether the directory of the path is reached by its own name
    object,   \* what is at the path
    replaced, \* whether that has changed since the call
    unread,   \* what a handle of the directory has not given yet
    look,     \* the call: where it is and its locals
    reply     \* FileInfo or a failure

inspectionVars == <<prefix, object, replaced, unread, look, reply>>

-----------------------------------------------------------------------------
(* Paths.  One is absolute or not and is split at its slashes. *)

Raws ==
    [absolute : BOOLEAN,
     components : SeqOf({"a", "b", "..", ".", ""}, MaxComponents) \ {<<>>}]

IsRoot(raw) == raw.absolute /\ raw.components = <<"">>

(* RemotePath::parse; its limit on length and on NUL are left out. *)
Parses(raw) ==
    /\ raw.absolute
    /\ \A i \in DOMAIN raw.components :
        /\ raw.components[i] \notin {"..", "."}
        /\ raw.components[i] = "" => IsRoot(raw)

(* RemotePath::parent. *)
Parent(raw) ==
    IF Len(raw.components) > 1 THEN [raw EXCEPT !.components = Front(@)]
    ELSE [raw EXCEPT !.components = <<"">>]

(* What a target makes of an absolute path where nothing is a link. *)
Enters(at, component) ==
    IF component \in {".", ""} \/ (component = ".." /\ at = <<>>) THEN at
    ELSE IF component = ".." THEN Front(at)
    ELSE Append(at, component)
Resolved(raw) == FoldLeft(Enters, <<>>, raw.components)

-----------------------------------------------------------------------------
(* Names.  One is as long as it is, looks like a secret or not, or is no name. *)

Names ==
    [kind : {"plain"}, length : {1, 2}] \cup [kind : {"secret", "slash", "dot"}, length : {1}]

Shown(name) == IF name.kind = "secret" THEN [kind |-> "withheld", length |-> 0] ELSE name
Cost(entry) == EntryCost + LetterCost * entry.length
Charged(sum, entry) == sum + Cost(entry)
ChargeOf(entries) == FoldLeft(Charged, BaseCost, entries)

(* FileInfo::is_bounded, which a record that is read back must pass. *)
IsBounded(entries) ==
    /\ Len(entries) <= MaxEntries
    /\ \A i \in DOMAIN entries : entries[i].kind \notin {"secret", "slash"}
    /\ ChargeOf(entries) <= MaxCharge

-----------------------------------------------------------------------------
(* The call *)

Continues(at) == look' = [look EXCEPT !.at = at] /\ UNCHANGED reply
Answers(result) == reply' = result /\ look' = [look EXCEPT !.at = "done"]
LookRefused(cause) == Answers([is |-> cause])

(* Any request may fail: failed. *)
RequestFails ==
    /\ look.at # "done"
    /\ LookRefused("failed")
    /\ UNCHANGED <<prefix, object, replaced, unread>>

(* realpath of the parent. *)
ResolvePrefix ==
    /\ look.at = "resolving"
    /\ IF prefix = "elsewhere" THEN LookRefused("elsewhere") ELSE Continues("asking")
    /\ UNCHANGED <<prefix, object, replaced, unread>>

(* lstat does not follow a link. *)
AskLink ==
    /\ look.at = "asking"
    /\ CASE object = "missing" -> LookRefused("failed")
         [] object = "link" -> LookRefused("elsewhere")
         [] OTHER -> IF look.list THEN Continues("opening")
                     ELSE Answers([is |-> "stat", object |-> object])
    /\ UNCHANGED <<prefix, object, replaced, unread>>

(* opendir does. *)
OpenDirectory ==
    /\ look.at = "opening"
    /\ IF object \in {"directory", "link"} THEN Continues("reading") ELSE LookRefused("failed")
    /\ UNCHANGED <<prefix, object, replaced, unread>>

(* One name of a packet, with the limits it meets. *)
EntryAdmitted(l, name) ==
    LET entry == Shown(name)
    IN IF l.ends # "no" \/ name.kind = "dot" THEN l
       ELSE IF name.kind = "slash" THEN [l EXCEPT !.ends = "refused"]
       ELSE IF Len(l.entries) = MaxEntries \/ l.charge + Cost(entry) > MaxCharge
       THEN [l EXCEPT !.ends = "truncated"]
       ELSE [l EXCEPT !.entries = Append(@, entry), !.charge = @ + Cost(entry)]

Admitted(l, packet) == FoldLeft(EntryAdmitted, l, packet)

ListingOf(l, truncated) == [is |-> "list", entries |-> l.entries, truncated |-> truncated]

(* readdir, unless as many packets were read as there may be.  A packet is the next
   names of the directory; one without names is refused.
   Mutant: it takes an empty packet for the end. *)
ReadDirectory_EmptyEnds(count) ==
    LET packet == SubSeq(unread, 1, count)
        read == Admitted(look, packet)
    IN /\ look.at = "reading"
       /\ UNCHANGED <<prefix, object, replaced>>
       /\ IF look.packets = MaxEntries
          THEN Answers(ListingOf(look, TRUE)) /\ UNCHANGED unread
          ELSE IF count = 0
          THEN Answers(ListingOf(look, FALSE)) /\ UNCHANGED unread
          ELSE /\ unread' = SubSeq(unread, count + 1, Len(unread))
               /\ CASE read.ends = "refused" -> LookRefused("RemoteIo")
                    [] read.ends = "truncated" -> Answers(ListingOf(read, TRUE))
                    [] OTHER -> look' = [read EXCEPT !.packets = @ + 1] /\ UNCHANGED reply

ReadDirectory(count) ==
    LET packet == SubSeq(unread, 1, count)
        read == Admitted(look, packet)
    IN /\ look.at = "reading"
       /\ UNCHANGED <<prefix, object, replaced>>
       /\ IF look.packets = MaxEntries
          THEN Answers(ListingOf(look, TRUE)) /\ UNCHANGED unread
          ELSE IF count = 0
          THEN LookRefused("RemoteIo") /\ UNCHANGED unread
          ELSE /\ unread' = SubSeq(unread, count + 1, Len(unread))
               /\ CASE read.ends = "refused" -> LookRefused("RemoteIo")
                    [] read.ends = "truncated" -> Answers(ListingOf(read, TRUE))
                    [] OTHER -> look' = [read EXCEPT !.packets = @ + 1] /\ UNCHANGED reply

(* The target says there is nothing more. *)
DirectoryEnds ==
    /\ look.at = "reading"
    /\ look.packets < MaxEntries
    /\ unread = <<>>
    /\ Answers(ListingOf(look, FALSE))
    /\ UNCHANGED <<prefix, object, replaced, unread>>

(* Somebody on the target changes what is at the path, or on the way to it. *)
Replace ==
    /\ ~replaced /\ look.at # "done"
    /\ replaced' = TRUE
    /\ \/ object' \in {"file", "directory", "link", "missing"} \ {object} /\ UNCHANGED prefix
       \/ prefix' \in {"itself", "elsewhere"} \ {prefix} /\ UNCHANGED object
    /\ UNCHANGED <<unread, look, reply>>

-----------------------------------------------------------------------------
Directories == SeqOf(Names, MaxNames)

InspectionsInit ==
    /\ prefix \in {"itself", "elsewhere"}
    /\ object \in {"file", "directory", "link", "missing"}
    /\ replaced = FALSE
    /\ unread \in Directories
    /\ \E list \in BOOLEAN :
        look = [at |-> "resolving", list |-> list, names |-> unread, entries |-> <<>>,
                charge |-> BaseCost, packets |-> 0, ends |-> "no"]
    /\ reply = [is |-> "nothing"]

InspectionsNext ==
    \/ ResolvePrefix \/ AskLink \/ OpenDirectory \/ DirectoryEnds
    \/ \E count \in 0 .. Len(unread) : ReadDirectory(count)
    \/ RequestFails \/ Replace

InspectionsSpec == InspectionsInit /\ [][InspectionsNext]_inspectionVars

-----------------------------------------------------------------------------
(* Properties *)

(* The directory as it may be told: without the names of itself and of its parent. *)
Joins(list, name) == IF name.kind = "dot" THEN list ELSE Append(list, Shown(name))
WholeList(names) == FoldLeft(Joins, <<>>, names)

(* RemotePath: a path that is taken is spelled as the target would spell what it
   resolves to, and its parent is where the target would look for it, so no two
   paths name one object. *)
OneSpelling ==
    \A raw \in Raws : Parses(raw) =>
        LET spelling == IF IsRoot(raw) THEN <<>> ELSE raw.components
        IN /\ Resolved(raw) = spelling
           /\ Parses(Parent(raw))
           /\ Resolved(Parent(raw)) = Resolved([raw EXCEPT !.components = Append(@, "..")])

(* What is told of a path is true of it, and can be read back from the record: a
   list that is not called truncated is the whole directory, a truncated one its
   beginning; none holds a name that looks like a secret; and what is a link all
   along, or lies behind one, is never looked at ("a path that resolves elsewhere
   than it reads is a decision about one file and an operation on another").  And
   that way of reading it is the only one: OneSpelling. *)
LookTells ==
    /\ reply.is = "list" =>
        /\ IsBounded(reply.entries)
        /\ IF reply.truncated THEN IsPrefix(reply.entries, WholeList(look.names))
           ELSE reply.entries = WholeList(look.names)
    /\ reply.is \in {"stat", "list"} /\ ~replaced => prefix = "itself" /\ object # "link"
    /\ look.at # "resolving" => OneSpelling
=============================================================================
