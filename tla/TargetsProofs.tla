---------------------------- MODULE TargetsProofs ----------------------------
(***************************************************************************)
(* Proofs about what the program does on a target and says of it: the      *)
(* command of Executions, for every number of pieces of output, every limit *)
(* and every set of exit statuses; the file of Downloads, for every size   *)
(* of a file, of a piece, of the window and of the limit; and the frames   *)
(* below both, for every limit and whatever the target sends.              *)
(***************************************************************************)
EXTENDS Executions, Downloads, Frames, SequenceTheorems, WellFoundedInduction, TLAPS

-----------------------------------------------------------------------------
(* The command: the inductive invariant *)

Messages == [kind : {"success", "failure", "signal", "closed"}]
            \cup [kind : {"data"}, stream : Streams, piece : Pieces]
            \cup [kind : {"status"}, code : Codes]
Stream == [kept : Seq(Pieces), seen : Nat, matched : BOOLEAN]
Record == [state : {"running", "exited", "ended", "refused", "indeterminate"}, code : Codes \cup {Nothing},
           cancellation : {"not_requested", "requested", "signal_sent", "signal_failed"},
           stdout : Stream, stderr : Stream]
Follower == [at : {"sending", "reading", "done"}, began : BOOLEAN, code : Codes \cup {Nothing}]

ExecutionTypes ==
    /\ command \in {"unasked", "asked", "refused", "begun", "over"}
    /\ output \in [Streams -> Seq(Pieces)]
    /\ channel \in Seq(Messages)
    /\ link \in {"up", "closed", "lost"}
    /\ follower \in Follower
    /\ record \in Record

(* What was kept of a stream is the beginning of it. *)
Kept(s) ==
    LET held == record[s]
    IN /\ Len(held.kept) = IF held.seen < OutputBytes THEN held.seen ELSE OutputBytes
       /\ \A i \in 1 .. Len(held.kept) :
             /\ i <= Len(output[s]) /\ held.kept[i] = output[s][i]
             /\ held.kept[i] = "marked" => held.matched

(* What is on its way of a stream is what follows in it, one piece after the other:
   at[i] pieces of it are read once message i is; and it is all of the rest unless the
   connection was lost. *)
Data(s, i) == channel[i].kind = "data" /\ channel[i].stream = s

Arrives(s) ==
    \E at \in [0 .. Len(channel) -> Nat] :
        /\ at[0] = record[s].seen /\ at[0] <= Len(output[s])
        /\ \A i \in 1 .. Len(channel) :
              IF Data(s, i)
              THEN at[i] = at[i - 1] + 1 /\ at[i] <= Len(output[s]) /\ output[s][at[i]] = channel[i].piece
              ELSE at[i] = at[i - 1]
        /\ link # "lost" => at[Len(channel)] = Len(output[s])

(* What the messages of the target say of the command. *)
Begun == {"begun", "over"}
Shown == \E i \in 1 .. Len(channel) : channel[i].kind = "data"

Says(i) ==
    /\ channel[i].kind \in {"success", "signal", "data", "status"} => command \in Begun
    /\ channel[i].kind = "status" => command = "over" /\ channel[i].code = exited
    /\ channel[i].kind = "failure" =>
          command = "refused" \/ follower.began \/ \E j \in 1 .. i - 1 : channel[j].kind = "data"
    /\ channel[i].kind = "closed" => i = Len(channel) /\ link # "up"

(* What the task of the run has made of them. *)
Followed ==
    /\ follower.at = "sending" => command = "unasked"
    /\ command = "unasked" => channel = <<>> /\ ~follower.began
    /\ follower.began => command \in Begun
    /\ follower.code # Nothing => command = "over" /\ follower.code = exited /\ follower.began
    /\ \A s \in Streams : link = "up" /\ output[s] # <<>> => follower.began \/ Shown
    /\ record.state = "running" <=> follower.at # "done"
    /\ record.state = "refused" => command = "refused"
    /\ record.state \in {"exited", "ended"} => follower.began /\ channel = <<>> /\ link # "up"
    /\ record.code = Nothing \/ (record.code = follower.code /\ record.state = "exited")

ExecutionInv ==
    /\ ExecutionTypes
    /\ \A i \in 1 .. Len(channel) : Says(i)
    /\ Followed
    /\ \A s \in Streams : Kept(s) /\ Arrives(s)

-----------------------------------------------------------------------------
(* What a step does to a stream *)

(* A stream of the record is set. *)
LEMMA StreamSet ==
    ASSUME record \in Record, NEW s \in Streams, NEW x \in Stream, record' = [record EXCEPT ![s] = x]
    PROVE  /\ record' \in Record /\ record'[s] = x /\ \A t \in Streams \ {s} : record'[t] = record[t]
           /\ record'.state = record.state /\ record'.code = record.code /\ record'.cancellation = record.cancellation
<1>1. CASE s = "stdout"
  BY <1>1 DEF Record, Streams
<1>2. CASE s = "stderr"
  BY <1>2 DEF Record, Streams
<1>. QED BY <1>1, <1>2 DEF Streams

LEMMA StreamsOf ==
    ASSUME NEW r \in Record, NEW s \in Streams
    PROVE  r[s] \in Stream
<1>1. r["stdout"] \in Stream /\ r["stderr"] \in Stream
  BY DEF Record
<1>. QED BY <1>1 DEF Streams

LEMMA KeptStays ==
    ASSUME NEW s \in Streams, Kept(s), record'[s] = record[s],
           output \in [Streams -> Seq(Pieces)], output' \in [Streams -> Seq(Pieces)],
           Len(output[s]) <= Len(output'[s]), \A i \in 1 .. Len(output[s]) : output'[s][i] = output[s][i],
           record[s] \in Stream
    PROVE  Kept(s)'
BY DEF Kept, Stream

LEMMA ArrivesStays ==
    ASSUME NEW s \in Streams, Arrives(s), record'[s].seen = record[s].seen, UNCHANGED <<output, channel, link>>
    PROVE  Arrives(s)'
BY DEF Arrives, Data

(* The target sends something else than a piece of the stream. *)
LEMMA ArrivesSends ==
    ASSUME ExecutionTypes, NEW s \in Streams, Arrives(s), NEW message \in Messages,
           message.kind = "data" => message.stream # s,
           channel' = Append(channel, message), record'[s].seen = record[s].seen, output'[s] = output[s],
           link = "up"
    PROVE  Arrives(s)'
<1>1. PICK at \in [0 .. Len(channel) -> Nat] :
        /\ at[0] = record[s].seen /\ at[0] <= Len(output[s])
        /\ \A i \in 1 .. Len(channel) :
              IF Data(s, i)
              THEN at[i] = at[i - 1] + 1 /\ at[i] <= Len(output[s]) /\ output[s][at[i]] = channel[i].piece
              ELSE at[i] = at[i - 1]
        /\ link # "lost" => at[Len(channel)] = Len(output[s])
  BY DEF Arrives
<1>2. /\ Len(channel) \in Nat /\ Len(channel') = Len(channel) + 1
      /\ \A i \in 1 .. Len(channel) : channel'[i] = channel[i]
      /\ channel'[Len(channel) + 1] = message
  BY DEF ExecutionTypes
<1>. DEFINE next == [i \in 0 .. Len(channel') |-> IF i <= Len(channel) THEN at[i] ELSE at[Len(channel)]]
<1>3. next \in [0 .. Len(channel') -> Nat]
  BY <1>1, <1>2
<1>4. \A i \in 0 .. Len(channel) : next[i] = at[i]
  BY <1>2
<1>5. next[Len(channel) + 1] = at[Len(channel)]
  BY <1>2
<1>. HIDE DEF next
<1>6. \A i \in 1 .. Len(channel) : Data(s, i)' <=> Data(s, i)
  BY <1>2 DEF Data
<1>7. \A i \in Nat : i = Len(channel) + 1 => ~Data(s, i)'
  BY <1>2 DEF Data
<1>8. ASSUME NEW i \in 1 .. Len(channel')
      PROVE  IF Data(s, i)'
             THEN next[i] = next[i - 1] + 1 /\ next[i] <= Len(output'[s]) /\ output'[s][next[i]] = channel'[i].piece
             ELSE next[i] = next[i - 1]
  <2>1. CASE i \in 1 .. Len(channel)
    <3>1. next[i] = at[i] /\ next[i - 1] = at[i - 1] /\ channel'[i] = channel[i]
      BY <1>2, <1>4, <2>1
    <3>. QED BY <1>1, <1>6, <2>1, <3>1
  <2>2. CASE i = Len(channel) + 1
    <3>1. next[i] = at[Len(channel)] /\ next[i - 1] = at[Len(channel)]
      BY <1>2, <1>4, <1>5, <2>2
    <3>. QED BY <1>2, <1>7, <2>2, <3>1
  <2>. QED BY <1>2, <2>1, <2>2
<1>9. next[0] = record'[s].seen /\ next[0] <= Len(output'[s]) /\ next[Len(channel')] = Len(output'[s])
  BY <1>1, <1>2, <1>4, <1>5
<1>. QED BY <1>3, <1>8, <1>9 DEF Arrives

(* The command writes to the stream. *)
LEMMA ArrivesWrites ==
    ASSUME ExecutionTypes, NEW s \in Streams, Arrives(s), NEW piece \in Pieces,
           channel' = Append(channel, [kind |-> "data", stream |-> s, piece |-> piece]),
           record'[s].seen = record[s].seen, output'[s] = Append(output[s], piece), link = "up"
    PROVE  Arrives(s)'
<1>1. PICK at \in [0 .. Len(channel) -> Nat] :
        /\ at[0] = record[s].seen /\ at[0] <= Len(output[s])
        /\ \A i \in 1 .. Len(channel) :
              IF Data(s, i)
              THEN at[i] = at[i - 1] + 1 /\ at[i] <= Len(output[s]) /\ output[s][at[i]] = channel[i].piece
              ELSE at[i] = at[i - 1]
        /\ link # "lost" => at[Len(channel)] = Len(output[s])
  BY DEF Arrives
<1>. DEFINE message == [kind |-> "data", stream |-> s, piece |-> piece]
<1>2. message \in Messages /\ message.kind = "data" /\ message.stream = s /\ message.piece = piece
  BY DEF Messages
<1>. HIDE DEF message
<1>3. /\ Len(channel) \in Nat /\ Len(channel') = Len(channel) + 1
      /\ \A i \in 1 .. Len(channel) : channel'[i] = channel[i]
      /\ channel'[Len(channel) + 1] = message
  BY <1>2 DEF ExecutionTypes, message
<1>4. /\ Len(output[s]) \in Nat /\ Len(output'[s]) = Len(output[s]) + 1
      /\ \A i \in 1 .. Len(output[s]) : output'[s][i] = output[s][i]
      /\ output'[s][Len(output[s]) + 1] = piece
  BY DEF ExecutionTypes
<1>. DEFINE next == [i \in 0 .. Len(channel') |-> IF i <= Len(channel) THEN at[i] ELSE at[Len(channel)] + 1]
<1>5. next \in [0 .. Len(channel') -> Nat]
  BY <1>1, <1>3
<1>6. \A i \in 0 .. Len(channel) : next[i] = at[i]
  BY <1>3
<1>7. next[Len(channel) + 1] = at[Len(channel)] + 1 /\ at[Len(channel)] = Len(output[s])
  BY <1>1, <1>3
<1>. HIDE DEF next
<1>8. \A i \in 1 .. Len(channel) : Data(s, i)' <=> Data(s, i)
  BY <1>3 DEF Data
<1>9. ASSUME NEW i \in 1 .. Len(channel')
      PROVE  IF Data(s, i)'
             THEN next[i] = next[i - 1] + 1 /\ next[i] <= Len(output'[s]) /\ output'[s][next[i]] = channel'[i].piece
             ELSE next[i] = next[i - 1]
  <2>1. CASE i \in 1 .. Len(channel)
    <3>1. next[i] = at[i] /\ next[i - 1] = at[i - 1] /\ channel'[i] = channel[i] /\ at[i] \in Nat /\ at[i - 1] \in Nat
      BY <1>1, <1>3, <1>6, <2>1
    <3>2. Data(s, i) => at[i] = at[i - 1] + 1 /\ at[i] <= Len(output[s]) /\ output[s][at[i]] = channel[i].piece
      BY <1>1, <2>1
    <3>3. Data(s, i) => at[i] \in 1 .. Len(output[s])
      BY <1>4, <3>1, <3>2
    <3>4. ~Data(s, i) => at[i] = at[i - 1]
      BY <1>1, <2>1
    <3>. QED BY <1>4, <1>8, <2>1, <3>1, <3>2, <3>3, <3>4
  <2>2. CASE i = Len(channel) + 1
    <3>1. next[i] = at[Len(channel)] + 1 /\ next[i - 1] = at[Len(channel)]
      BY <1>3, <1>6, <1>7, <2>2
    <3>2. Data(s, i)'
      BY <1>2, <1>3, <2>2 DEF Data
    <3>3. next[i] = Len(output[s]) + 1 /\ next[i] = next[i - 1] + 1
      BY <1>7, <3>1
    <3>4. channel'[i].piece = piece /\ output'[s][next[i]] = piece /\ next[i] <= Len(output'[s])
      BY <1>2, <1>3, <1>4, <2>2, <3>3
    <3>. QED BY <3>2, <3>3, <3>4
  <2>3. i \in 1 .. Len(channel) \/ i = Len(channel) + 1
    BY <1>3
  <2>. QED BY <2>1, <2>2, <2>3
<1>10. next[0] = record'[s].seen /\ next[0] <= Len(output'[s]) /\ next[Len(channel')] = Len(output'[s])
  <2>1. record[s].seen \in Nat
    BY StreamsOf DEF ExecutionTypes, Stream
  <2>. QED BY <1>1, <1>3, <1>4, <1>6, <1>7, <2>1
<1>. QED BY <1>5, <1>9, <1>10 DEF Arrives

(* The connection is lost with what had not arrived. *)
LEMMA ArrivesLost ==
    ASSUME ExecutionTypes, NEW s \in Streams, Arrives(s), NEW n \in 0 .. Len(channel), NEW message \in Messages,
           message.kind = "closed", channel' = Append(SubSeq(channel, 1, n), message),
           UNCHANGED <<record, output>>, link' = "lost"
    PROVE  Arrives(s)'
<1>1. PICK at \in [0 .. Len(channel) -> Nat] :
        /\ at[0] = record[s].seen /\ at[0] <= Len(output[s])
        /\ \A i \in 1 .. Len(channel) :
              IF Data(s, i)
              THEN at[i] = at[i - 1] + 1 /\ at[i] <= Len(output[s]) /\ output[s][at[i]] = channel[i].piece
              ELSE at[i] = at[i - 1]
  BY DEF Arrives
<1>2. /\ n \in Nat /\ n <= Len(channel) /\ Len(channel) \in Nat /\ Len(channel') = n + 1
      /\ \A i \in 1 .. n : channel'[i] = channel[i]
      /\ channel'[n + 1] = message
  BY DEF ExecutionTypes
<1>. DEFINE next == [i \in 0 .. Len(channel') |-> IF i <= n THEN at[i] ELSE at[n]]
<1>3. next \in [0 .. Len(channel') -> Nat]
  <2>1. at \in [0 .. Len(channel) -> Nat]
    BY <1>1
  <2>2. n \in 0 .. Len(channel) /\ \A i \in 0 .. Len(channel') : i <= n => i \in 0 .. Len(channel)
    BY <1>2
  <2>3. at[n] \in Nat /\ \A i \in 0 .. Len(channel') : i <= n => at[i] \in Nat
    BY <2>1, <2>2
  <2>. QED BY <2>3
<1>4. \A i \in 0 .. n : next[i] = at[i]
  BY <1>2
<1>5. next[n + 1] = at[n]
  BY <1>2
<1>. HIDE DEF next
<1>6. \A i \in 1 .. n : Data(s, i)' <=> Data(s, i)
  BY <1>2 DEF Data
<1>7. ~Data(s, n + 1)'
  BY <1>2 DEF Data
<1>8. ASSUME NEW i \in 1 .. Len(channel')
      PROVE  IF Data(s, i)'
             THEN next[i] = next[i - 1] + 1 /\ next[i] <= Len(output'[s]) /\ output'[s][next[i]] = channel'[i].piece
             ELSE next[i] = next[i - 1]
  <2>1. CASE i \in 1 .. n
    <3>1. i \in 0 .. n /\ i - 1 \in 0 .. n /\ i \in 1 .. Len(channel)
      BY <1>2, <2>1
    <3>2. next[i] = at[i] /\ next[i - 1] = at[i - 1] /\ channel'[i] = channel[i]
      BY <1>2, <1>4, <2>1, <3>1
    <3>3. IF Data(s, i)
          THEN at[i] = at[i - 1] + 1 /\ at[i] <= Len(output[s]) /\ output[s][at[i]] = channel[i].piece
          ELSE at[i] = at[i - 1]
      BY <1>1, <3>1
    <3>. QED BY <1>6, <2>1, <3>2, <3>3
  <2>2. CASE i = n + 1
    <3>1. next[i] = at[n] /\ next[i - 1] = at[n]
      BY <1>2, <1>4, <1>5, <2>2
    <3>. QED BY <1>7, <2>2, <3>1
  <2>. QED BY <1>2, <2>1, <2>2
<1>9. next[0] = record'[s].seen /\ next[0] <= Len(output'[s])
  BY <1>1, <1>2, <1>4
<1>. QED BY <1>3, <1>8, <1>9 DEF Arrives

(* The next message is read: a piece of the stream, or something else. *)
LEMMA ArrivesReads ==
    ASSUME ExecutionTypes, NEW s \in Streams, Arrives(s), channel # <<>>, channel' = Tail(channel),
           UNCHANGED <<output, link>>,
           record'[s].seen = record[s].seen + IF Data(s, 1) THEN 1 ELSE 0
    PROVE  /\ Arrives(s)'
           /\ Data(s, 1) => /\ record[s].seen + 1 <= Len(output[s])
                            /\ output[s][record[s].seen + 1] = channel[1].piece
<1>1. PICK at \in [0 .. Len(channel) -> Nat] :
        /\ at[0] = record[s].seen /\ at[0] <= Len(output[s])
        /\ \A i \in 1 .. Len(channel) :
              IF Data(s, i)
              THEN at[i] = at[i - 1] + 1 /\ at[i] <= Len(output[s]) /\ output[s][at[i]] = channel[i].piece
              ELSE at[i] = at[i - 1]
        /\ link # "lost" => at[Len(channel)] = Len(output[s])
  BY DEF Arrives
<1>2. /\ Len(channel) \in Nat \ {0} /\ Len(channel') = Len(channel) - 1
      /\ \A i \in 1 .. Len(channel') : channel'[i] = channel[i + 1]
  BY DEF ExecutionTypes
<1>. DEFINE next == [i \in 0 .. Len(channel') |-> at[i + 1]]
<1>3. next \in [0 .. Len(channel') -> Nat] /\ \A i \in 0 .. Len(channel') : next[i] = at[i + 1]
  BY <1>1, <1>2
<1>. HIDE DEF next
<1>4. \A i \in 1 .. Len(channel') : Data(s, i)' <=> Data(s, i + 1)
  BY <1>2 DEF Data
<1>5. 1 \in 1 .. Len(channel) /\ 0 \in 0 .. Len(channel) /\ record[s].seen \in Nat
  BY <1>2, StreamsOf DEF ExecutionTypes, Stream
<1>6. at[1] = at[0] + (IF Data(s, 1) THEN 1 ELSE 0) /\ at[1] <= Len(output[s])
      /\ (Data(s, 1) => output[s][at[1]] = channel[1].piece)
  BY <1>1, <1>5
<1>7. ASSUME NEW i \in 1 .. Len(channel')
      PROVE  IF Data(s, i)'
             THEN next[i] = next[i - 1] + 1 /\ next[i] <= Len(output'[s]) /\ output'[s][next[i]] = channel'[i].piece
             ELSE next[i] = next[i - 1]
  <2>1. next[i] = at[i + 1] /\ next[i - 1] = at[i] /\ channel'[i] = channel[i + 1] /\ i + 1 \in 1 .. Len(channel)
        /\ (i + 1) - 1 = i
    <3>1. /\ i + 1 \in 1 .. Len(channel) /\ (i + 1) - 1 = i
          /\ i \in 0 .. Len(channel') /\ i - 1 \in 0 .. Len(channel') /\ (i - 1) + 1 = i
      BY <1>2
    <3>2. next[i] = at[i + 1] /\ next[i - 1] = at[(i - 1) + 1]
      BY <1>3, <3>1
    <3>. QED BY <1>2, <3>1, <3>2
  <2>. QED BY <1>1, <1>4, <2>1
<1>8. next[0] = record'[s].seen /\ next[0] <= Len(output'[s])
      /\ (link' # "lost" => next[Len(channel')] = Len(output'[s]))
  BY <1>1, <1>2, <1>3, <1>5, <1>6
<1>9. Arrives(s)'
  BY <1>3, <1>7, <1>8 DEF Arrives
<1>. QED BY <1>1, <1>5, <1>6, <1>9
-----------------------------------------------------------------------------
(* What a step does to all of it *)

(* Neither the target nor the task undoes what was said. *)
Onward ==
    /\ command \in Begun => command' \in Begun
    /\ command = "over" => command' = "over" /\ exited' = exited
    /\ command = "refused" => command' = "refused"
    /\ follower.began => follower'.began

LEMMA SaysSends ==
    ASSUME ExecutionTypes, \A i \in 1 .. Len(channel) : Says(i), NEW message \in Messages,
           channel' = Append(channel, message), link = "up", Onward,
           message.kind \in {"success", "signal", "data", "status"} => command' \in Begun,
           message.kind = "status" => command' = "over" /\ message.code = exited',
           message.kind = "failure" => command' = "refused" \/ follower'.began \/ Shown,
           message.kind = "closed" => link' # "up"
    PROVE  /\ \A i \in 1 .. Len(channel') : Says(i)'
           /\ Shown => Shown'
<1>1. /\ Len(channel) \in Nat /\ Len(channel') = Len(channel) + 1
      /\ \A i \in 1 .. Len(channel) : channel'[i] = channel[i]
      /\ channel'[Len(channel) + 1] = message
  BY DEF ExecutionTypes
<1>2. ASSUME NEW i \in 1 .. Len(channel) PROVE Says(i)'
  <2>1. Says(i) /\ channel'[i] = channel[i] /\ i \in Nat
    BY <1>1
  <2>2. channel[i].kind # "closed"
    BY <2>1 DEF Says
  <2>3. \A j \in 1 .. i - 1 : channel'[j] = channel[j]
    BY <1>1
  <2>. QED BY <2>1, <2>2, <2>3 DEF Says, Onward
<1>3. ASSUME NEW i \in Nat, i = Len(channel) + 1 PROVE Says(i)'
  <2>1. channel'[i] = message
    BY <1>1, <1>3
  <2>2. Shown => \E j \in 1 .. i - 1 : channel'[j].kind = "data"
    BY <1>1, <1>3 DEF Shown
  <2>3. message.kind = "closed" => i = Len(channel')
    BY <1>1, <1>3
  <2>. QED BY <2>1, <2>2, <2>3 DEF Says
<1>4. Shown => Shown'
  BY <1>1 DEF Shown
<1>5. \A i \in 1 .. Len(channel') : i \in 1 .. Len(channel) \/ (i \in Nat /\ i = Len(channel) + 1)
  BY <1>1
<1>. QED BY <1>2, <1>3, <1>4, <1>5

(* The target sends something else than output. *)
LEMMA SendingKeeps ==
    ASSUME ExecutionInv, NEW message \in Messages, message.kind # "data",
           channel' = Append(channel, message), link = "up", link' \in {"up", "closed"},
           UNCHANGED <<output, follower, record>>, Onward,
           command # "unasked", command' \in {"asked", "refused", "begun", "over"},
           message.kind \in {"success", "signal", "status"} => command' \in Begun,
           message.kind = "status" => command' = "over" /\ message.code = exited',
           message.kind = "failure" => command' = "refused" \/ follower.began \/ Shown,
           message.kind = "closed" => link' # "up"
    PROVE  ExecutionInv'
<1>1. ExecutionTypes /\ Followed /\ (\A i \in 1 .. Len(channel) : Says(i)) /\ \A s \in Streams : Kept(s) /\ Arrives(s)
  BY DEF ExecutionInv
<1>2. ExecutionTypes'
  BY <1>1 DEF ExecutionTypes
<1>3. (\A i \in 1 .. Len(channel') : Says(i)') /\ (Shown => Shown')
  BY <1>1, SaysSends
<1>4. Followed'
  BY <1>1, <1>3 DEF Followed, Onward
<1>5. ASSUME NEW s \in Streams PROVE Kept(s)' /\ Arrives(s)'
  <2>1. Kept(s)'
    BY <1>1 DEF Kept
  <2>2. Arrives(s)'
    BY <1>1, ArrivesSends
  <2>. QED BY <2>1, <2>2
<1>. QED BY <1>2, <1>3, <1>4, <1>5 DEF ExecutionInv

(* The channel and what was read of it stay as they are. *)
LEMMA WaitingKeeps ==
    ASSUME ExecutionInv, UNCHANGED <<output, exited, channel, link>>, Onward,
           command' \in {"unasked", "asked", "refused", "begun", "over"}, follower' \in Follower, record' \in Record,
           \A s \in Streams : record'[s] = record[s], Followed'
    PROVE  ExecutionInv'
<1>1. ExecutionTypes /\ Followed /\ (\A i \in 1 .. Len(channel) : Says(i)) /\ \A s \in Streams : Kept(s) /\ Arrives(s)
  BY DEF ExecutionInv
<1>2. ExecutionTypes'
  BY <1>1 DEF ExecutionTypes
<1>3. \A i \in 1 .. Len(channel') : Says(i)'
  BY <1>1 DEF Says, Onward
<1>4. ASSUME NEW s \in Streams PROVE Kept(s)' /\ Arrives(s)'
  <2>1. Kept(s)'
    BY <1>1 DEF Kept
  <2>2. Arrives(s)'
    BY <1>1, ArrivesStays
  <2>. QED BY <2>1, <2>2
<1>. QED BY <1>2, <1>3, <1>4 DEF ExecutionInv

(* One message is read. *)
LEMMA ReadingKeeps ==
    ASSUME ExecutionInv, Reads, follower' \in Follower, record' \in Record,
           follower.began => follower'.began, channel[1].kind = "data" => follower'.began,
           \A s \in Streams : record'[s] = IF Data(s, 1) THEN Pushed(record[s], channel[1].piece) ELSE record[s],
           Followed'
    PROVE  ExecutionInv'
<1>1. ExecutionTypes /\ Followed /\ (\A i \in 1 .. Len(channel) : Says(i)) /\ \A s \in Streams : Kept(s) /\ Arrives(s)
  BY DEF ExecutionInv
<1>2. channel # <<>> /\ channel' = Tail(channel) /\ UNCHANGED <<command, output, exited, link>>
  BY DEF Reads
<1>3. /\ Len(channel) \in Nat \ {0} /\ Len(channel') = Len(channel) - 1 /\ channel' \in Seq(Messages)
      /\ \A i \in 1 .. Len(channel') : channel'[i] = channel[i + 1]
      /\ channel[1] \in Messages
  BY <1>1, <1>2 DEF ExecutionTypes
<1>4. ExecutionTypes'
  BY <1>1, <1>2, <1>3 DEF ExecutionTypes
<1>5. ASSUME NEW i \in 1 .. Len(channel') PROVE Says(i)'
  <2>1. i + 1 \in 1 .. Len(channel) /\ channel'[i] = channel[i + 1] /\ i \in Nat
    BY <1>3
  <2>2. Says(i + 1)
    BY <1>1, <2>1
  <2>3. ASSUME NEW j \in 1 .. (i + 1) - 1, channel[j].kind = "data"
        PROVE  follower'.began \/ \E k \in 1 .. i - 1 : channel'[k].kind = "data"
    <3>1. CASE j = 1
      BY <2>3, <3>1
    <3>2. CASE j # 1
      <4>1. j - 1 \in 1 .. i - 1 /\ j - 1 \in 1 .. Len(channel') /\ (j - 1) + 1 = j
        BY <1>3, <2>1, <3>2
      <4>. QED BY <1>3, <2>3, <4>1
    <3>. QED BY <3>1, <3>2
  <2>4. i + 1 = Len(channel) => i = Len(channel')
    BY <1>3
  <2>. QED BY <1>2, <2>1, <2>2, <2>3, <2>4 DEF Says
<1>6. ASSUME NEW s \in Streams PROVE Kept(s)' /\ Arrives(s)'
  <2>1. record[s] \in Stream /\ record'[s] \in Stream
    BY <1>1, StreamsOf DEF ExecutionTypes
  <2>. DEFINE held == record[s]
  <2>2. record'[s].seen = held.seen + IF Data(s, 1) THEN 1 ELSE 0
    <3>1. Pushed(record[s], channel[1].piece).seen = record[s].seen + 1 /\ record[s].seen \in Nat
      BY <2>1 DEF Pushed, Stream
    <3>2. record'[s] = IF Data(s, 1) THEN Pushed(record[s], channel[1].piece) ELSE record[s]
      OBVIOUS
    <3>. HIDE DEF Pushed
    <3>3. CASE Data(s, 1)
      BY <3>1, <3>2, <3>3
    <3>4. CASE ~Data(s, 1)
      BY <3>1, <3>2, <3>4
    <3>. QED BY <3>3, <3>4
  <2>3. Arrives(s)' /\ (Data(s, 1) => held.seen + 1 <= Len(output[s]) /\ output[s][held.seen + 1] = channel[1].piece)
    BY <1>1, <1>2, <2>2, ArrivesReads
  <2>4. Kept(s)'
    <3>1. CASE ~Data(s, 1)
      BY <1>1, <1>2, <3>1 DEF Kept
    <3>2. CASE Data(s, 1)
      <4>. DEFINE piece == channel[1].piece
                  pushed == Pushed(held, piece)
      <4>1. held.kept \in Seq(Pieces) /\ held.seen \in Nat /\ OutputBytes \in Nat /\ record'[s] = pushed
            /\ output[s] \in Seq(Pieces)
        BY <1>1, <2>1, <3>2, ExecutionsAssumption DEF Stream, ExecutionTypes
      <4>2. piece \in Pieces
        <5>1. output[s][held.seen + 1] \in Pieces
          BY <2>3, <3>2, <4>1
        <5>. QED BY <2>3, <3>2, <5>1
      <4>3. /\ pushed.kept = IF Len(held.kept) < OutputBytes THEN Append(held.kept, piece) ELSE held.kept
            /\ pushed.seen = held.seen + 1 /\ pushed.matched = (held.matched \/ piece = "marked")
        BY DEF Pushed
      <4>4. /\ Len(held.kept) = IF held.seen < OutputBytes THEN held.seen ELSE OutputBytes
            /\ \A i \in 1 .. Len(held.kept) :
                  /\ i <= Len(output[s]) /\ held.kept[i] = output[s][i]
                  /\ held.kept[i] = "marked" => held.matched
        BY <1>1 DEF Kept
      <4>. HIDE DEF held, piece, pushed
      <4>5. CASE Len(held.kept) < OutputBytes
        <5>1. Len(held.kept) = held.seen /\ held.seen < OutputBytes
          BY <4>1, <4>4, <4>5
        <5>2. /\ Len(pushed.kept) = held.seen + 1
              /\ \A i \in 1 .. held.seen : pushed.kept[i] = held.kept[i]
              /\ pushed.kept[held.seen + 1] = piece
          BY <4>1, <4>2, <4>3, <4>5, <5>1
        <5>3. ASSUME NEW i \in 1 .. Len(pushed.kept)
              PROVE  /\ i <= Len(output[s]) /\ pushed.kept[i] = output[s][i]
                     /\ pushed.kept[i] = "marked" => pushed.matched
          <6>1. CASE i \in 1 .. held.seen
            BY <4>3, <4>4, <5>1, <5>2, <6>1
          <6>2. CASE i = held.seen + 1
            BY <2>3, <3>2, <4>3, <5>2, <6>2 DEF held, piece
          <6>3. i \in 1 .. held.seen \/ i = held.seen + 1
            BY <4>1, <5>2
          <6>. QED BY <6>1, <6>2, <6>3
        <5>4. Len(pushed.kept) = IF pushed.seen < OutputBytes THEN pushed.seen ELSE OutputBytes
          BY <4>1, <4>3, <5>1, <5>2
        <5>. QED BY <1>2, <4>1, <5>3, <5>4 DEF Kept
      <4>6. CASE ~(Len(held.kept) < OutputBytes)
        <5>1. held.seen >= OutputBytes /\ Len(held.kept) = OutputBytes
          BY <4>1, <4>4, <4>6
        <5>2. Len(pushed.kept) = IF pushed.seen < OutputBytes THEN pushed.seen ELSE OutputBytes
          BY <4>1, <4>3, <4>6, <5>1
        <5>3. \A i \in 1 .. Len(pushed.kept) :
                  /\ i <= Len(output[s]) /\ pushed.kept[i] = output[s][i]
                  /\ pushed.kept[i] = "marked" => pushed.matched
          BY <4>3, <4>4, <4>6
        <5>. QED BY <1>2, <4>1, <5>2, <5>3 DEF Kept
      <4>. QED BY <4>5, <4>6
    <3>. QED BY <3>1, <3>2
  <2>. QED BY <2>3, <2>4
<1>. QED BY <1>4, <1>5, <1>6 DEF ExecutionInv
-----------------------------------------------------------------------------
(* The steps of a command *)

LEMMA BeginningKeeps ==
    ASSUME ExecutionInv, Begins \/ Declines
    PROVE  ExecutionInv'
<1>1. ExecutionTypes /\ Followed
  BY DEF ExecutionInv
<1>2. /\ command = "asked" /\ link = "up" /\ ~follower.began /\ UNCHANGED <<output, exited, link, follower, record>>
      /\ command' \in {"begun", "refused"}
  BY <1>1 DEF Begins, Declines, Followed, Begun
<1>3. Onward
  BY <1>2 DEF Onward, Begun
<1>4. CASE command' = "begun" /\ Sends([kind |-> "success"])
  <2>1. [kind |-> "success"] \in Messages /\ [kind |-> "success"].kind = "success"
    BY DEF Messages
  <2>. QED BY <1>2, <1>3, <1>4, <2>1, SendingKeeps DEF Sends, Begun
<1>5. CASE command' = "refused" /\ Sends([kind |-> "failure"])
  <2>1. [kind |-> "failure"] \in Messages /\ [kind |-> "failure"].kind = "failure"
    BY DEF Messages
  <2>. QED BY <1>2, <1>3, <1>5, <2>1, SendingKeeps DEF Sends, Begun
<1>6. CASE command' = "begun" /\ UNCHANGED channel
  <2>1. Followed'
    BY <1>1, <1>2, <1>6 DEF Followed, Begun, Shown
  <2>. QED BY <1>1, <1>2, <1>3, <1>6, <2>1, WaitingKeeps DEF ExecutionTypes
<1>. QED BY <1>4, <1>5, <1>6 DEF Begins, Declines

LEMMA TalkingKeeps ==
    ASSUME ExecutionInv, Contradicts \/ IsKilled \/ Closes \/ \E c \in Codes : Exits(c)
    PROVE  ExecutionInv'
<1>1. ExecutionTypes /\ Followed /\ Talking
  BY DEF ExecutionInv, Contradicts, IsKilled, Closes, Exits
<1>2. link = "up" /\ command # "unasked" /\ UNCHANGED <<output, follower, record>>
  BY <1>1 DEF Talking, Contradicts, IsKilled, Closes, Exits
<1>3. CASE Contradicts
  <2>1. [kind |-> "failure"] \in Messages /\ [kind |-> "failure"].kind = "failure"
    BY DEF Messages
  <2>2. follower.began \/ Shown
    <3>1. output["stdout"] # <<>> \/ output["stderr"] # <<>>
      <4>1. SUFFICES ASSUME output["stdout"] = <<>>, output["stderr"] = <<>> PROVE FALSE
        OBVIOUS
      <4>2. output["stdout"] \o output["stderr"] = <<>>
        BY <4>1
      <4>. QED BY <1>3, <4>2 DEF Contradicts
    <3>. QED BY <1>1, <1>2, <3>1 DEF Followed, Streams
  <2>3. Onward /\ command = "begun" /\ command' = command /\ link' = link /\ channel' = Append(channel, [kind |-> "failure"])
    BY <1>3 DEF Contradicts, Sends, Onward
  <2>. QED BY <1>2, <2>1, <2>2, <2>3, SendingKeeps
<1>4. CASE IsKilled
  <2>1. [kind |-> "signal"] \in Messages /\ [kind |-> "signal"].kind = "signal"
    BY DEF Messages
  <2>2. Onward /\ command' = "over" /\ link' = link /\ channel' = Append(channel, [kind |-> "signal"])
    BY <1>4 DEF IsKilled, Sends, Onward, Begun
  <2>. QED BY <1>2, <2>1, <2>2, SendingKeeps DEF Begun
<1>5. CASE Closes
  <2>1. [kind |-> "closed"] \in Messages /\ [kind |-> "closed"].kind = "closed"
    BY DEF Messages
  <2>2. Onward /\ command' = command /\ link' = "closed" /\ channel' = Append(channel, [kind |-> "closed"])
    BY <1>5 DEF Closes, Sends, Onward
  <2>3. command \in {"asked", "refused", "begun", "over"}
    BY <1>1 DEF Talking
  <2>. QED BY <1>2, <2>1, <2>2, <2>3, SendingKeeps
<1>6. ASSUME NEW c \in Codes, Exits(c) PROVE ExecutionInv'
  <2>. DEFINE message == [kind |-> "status", code |-> c]
  <2>1. message \in Messages /\ message.kind = "status" /\ message.code = c
    BY DEF Messages
  <2>2. Onward /\ command' = "over" /\ exited' = c /\ link' = link /\ channel' = Append(channel, message)
    BY <1>6 DEF Exits, Sends, Onward, Begun
  <2>. HIDE DEF message
  <2>. QED BY <1>2, <2>1, <2>2, SendingKeeps DEF Begun
<1>. QED BY <1>3, <1>4, <1>5, <1>6

LEMMA WritingKeeps ==
    ASSUME ExecutionInv, NEW s \in Streams, NEW piece \in Pieces, Writes(s, piece)
    PROVE  ExecutionInv'
<1>. DEFINE message == [kind |-> "data", stream |-> s, piece |-> piece]
<1>1. ExecutionTypes /\ Followed /\ (\A i \in 1 .. Len(channel) : Says(i)) /\ \A t \in Streams : Kept(t) /\ Arrives(t)
  BY DEF ExecutionInv
<1>2. /\ command \in Begun /\ link = "up" /\ output' = [output EXCEPT ![s] = Append(@, piece)]
      /\ channel' = Append(channel, message) /\ UNCHANGED <<command, exited, link, follower, record>>
  BY <1>1 DEF Writes, Talking, Sends, Begun, ExecutionTypes
<1>3. message \in Messages /\ message.kind = "data" /\ message.stream = s
  BY DEF Messages
<1>. HIDE DEF message
<1>4. /\ output' \in [Streams -> Seq(Pieces)] /\ output'[s] = Append(output[s], piece)
      /\ \A t \in Streams \ {s} : output'[t] = output[t]
      /\ Len(output'[s]) = Len(output[s]) + 1 /\ \A i \in 1 .. Len(output[s]) : output'[s][i] = output[s][i]
      /\ Len(output[s]) \in Nat
  BY <1>1, <1>2 DEF ExecutionTypes
<1>5. ExecutionTypes'
  BY <1>1, <1>2, <1>3, <1>4 DEF ExecutionTypes
<1>6. Onward
  BY <1>2 DEF Onward
<1>7. \A i \in 1 .. Len(channel') : Says(i)'
  BY <1>1, <1>2, <1>3, <1>6, SaysSends
<1>8. Shown'
  <2>1. Len(channel) + 1 \in 1 .. Len(channel') /\ channel'[Len(channel) + 1] = message
    BY <1>1, <1>2, <1>3 DEF ExecutionTypes
  <2>. QED BY <1>3, <2>1 DEF Shown
<1>9. Followed'
  BY <1>1, <1>2, <1>8 DEF Followed, Begun
<1>10. ASSUME NEW t \in Streams PROVE Kept(t)' /\ Arrives(t)'
  <2>1. record[t] \in Stream
    BY <1>1, StreamsOf DEF ExecutionTypes
  <2>2. Len(output[t]) <= Len(output'[t]) /\ \A i \in 1 .. Len(output[t]) : output'[t][i] = output[t][i]
    <3>1. CASE t = s
      BY <1>4, <3>1
    <3>2. CASE t # s
      <4>1. output'[t] = output[t] /\ Len(output[t]) \in Nat
        BY <1>1, <1>4, <3>2 DEF ExecutionTypes
      <4>. QED BY <4>1
    <3>. QED BY <3>1, <3>2
  <2>3. Kept(t)'
    BY <1>1, <1>2, <1>4, <2>1, <2>2, KeptStays DEF ExecutionTypes
  <2>4. Arrives(t)'
    <3>1. CASE t = s
      BY <1>1, <1>2, <1>4, <3>1, ArrivesWrites DEF message
    <3>2. CASE t # s
      BY <1>1, <1>2, <1>3, <1>4, <3>2, ArrivesSends
    <3>. QED BY <3>1, <3>2
  <2>. QED BY <2>3, <2>4
<1>. QED BY <1>5, <1>7, <1>9, <1>10 DEF ExecutionInv

LEMMA LosingKeeps ==
    ASSUME ExecutionInv, IsLost
    PROVE  ExecutionInv'
<1>. DEFINE message == [kind |-> "closed"]
<1>1. ExecutionTypes /\ Followed /\ (\A i \in 1 .. Len(channel) : Says(i)) /\ \A t \in Streams : Kept(t) /\ Arrives(t)
  BY DEF ExecutionInv
<1>2. PICK n \in 0 .. Len(channel) : channel' = Append(SubSeq(channel, 1, n), message)
  BY DEF IsLost
<1>3. command # "unasked" /\ link = "up" /\ link' = "lost" /\ UNCHANGED <<command, output, exited, follower, record>>
  BY DEF IsLost
<1>4. message \in Messages /\ message.kind = "closed"
  BY DEF Messages
<1>. HIDE DEF message
<1>5. /\ n \in Nat /\ n <= Len(channel) /\ Len(channel) \in Nat /\ channel' \in Seq(Messages) /\ Len(channel') = n + 1
      /\ \A i \in 1 .. n : channel'[i] = channel[i]
      /\ channel'[n + 1] = message
  BY <1>1, <1>2, <1>4 DEF ExecutionTypes
<1>6. ExecutionTypes'
  BY <1>1, <1>3, <1>5 DEF ExecutionTypes
<1>7. ASSUME NEW i \in 1 .. Len(channel') PROVE Says(i)'
  <2>1. CASE i \in 1 .. n
    <3>1. Says(i) /\ channel'[i] = channel[i] /\ \A j \in 1 .. i - 1 : channel'[j] = channel[j]
      BY <1>1, <1>5, <2>1
    <3>2. channel[i].kind # "closed"
      BY <1>3, <3>1 DEF Says
    <3>. QED BY <1>3, <3>1, <3>2 DEF Says
  <2>2. CASE i = n + 1
    BY <1>3, <1>4, <1>5, <2>2 DEF Says
  <2>3. i \in 1 .. n \/ i = n + 1
    BY <1>5
  <2>. QED BY <2>1, <2>2, <2>3
<1>8. Followed'
  BY <1>1, <1>3 DEF Followed, Begun
<1>9. ASSUME NEW t \in Streams PROVE Kept(t)' /\ Arrives(t)'
  <2>1. Kept(t)'
    BY <1>1, <1>3 DEF Kept
  <2>2. Arrives(t)'
    BY <1>1, <1>2, <1>3, <1>4, ArrivesLost
  <2>. QED BY <2>1, <2>2
<1>. QED BY <1>6, <1>7, <1>8, <1>9 DEF ExecutionInv

(* The task sends the command, or a cancellation is asked for or made. *)
LEMMA SteeringKeeps ==
    ASSUME ExecutionInv, Sent \/ SendFails \/ CancelRun \/ Signals
    PROVE  ExecutionInv'
<1>1. ExecutionTypes /\ Followed
  BY DEF ExecutionInv
<1>2. UNCHANGED <<output, exited, channel, link>>
  BY DEF Sent, SendFails, CancelRun, Signals
<1>3. CASE Sent
  <2>1. /\ command = "unasked" /\ command' = "asked" /\ UNCHANGED record /\ channel = <<>> /\ ~follower.began
        /\ follower.at = "sending"
    BY <1>1, <1>3 DEF Sent, Followed
  <2>2. follower' \in Follower /\ follower'.at = "reading" /\ follower'.began = follower.began /\ follower'.code = follower.code
    BY <1>1, <1>3 DEF Sent, Follower, ExecutionTypes
  <2>3. Followed'
    BY <1>1, <1>2, <2>1, <2>2 DEF Followed, Shown
  <2>4. Onward
    BY <2>1 DEF Onward, Begun
  <2>. QED BY <1>1, <1>2, <2>1, <2>2, <2>3, <2>4, WaitingKeeps DEF ExecutionTypes
<1>4. CASE SendFails
  <2>1. command = "unasked" /\ command' \in {"unasked", "asked"} /\ channel = <<>> /\ ~follower.began /\ follower.at = "sending"
    BY <1>1, <1>4 DEF SendFails, Followed
  <2>2. follower' \in Follower /\ follower'.at = "done" /\ follower'.began = follower.began /\ follower'.code = follower.code
    BY <1>1, <1>4 DEF SendFails, Settles, Follower, ExecutionTypes
  <2>3. /\ record' \in Record /\ record'.state = "indeterminate" /\ record'.code = record.code
        /\ record'["stdout"] = record["stdout"] /\ record'["stderr"] = record["stderr"]
    BY <1>1, <1>4 DEF SendFails, Settles, Record, ExecutionTypes
  <2>4. record.state = "running"
    BY <1>1, <2>1 DEF Followed
  <2>5. Followed'
    BY <1>1, <1>2, <2>1, <2>2, <2>3, <2>4 DEF Followed, Shown, Begun
  <2>6. Onward
    BY <2>1 DEF Onward, Begun
  <2>. QED BY <1>2, <2>1, <2>2, <2>3, <2>5, <2>6, WaitingKeeps DEF Streams
<1>5. CASE CancelRun \/ Signals
  <2>1. UNCHANGED <<command, follower>>
    BY <1>5 DEF CancelRun, Signals
  <2>2. PICK c \in {"requested", "signal_sent", "signal_failed"} : record' = [record EXCEPT !.cancellation = c]
    BY <1>5 DEF CancelRun, Signals
  <2>3. /\ record' \in Record /\ record'.state = record.state /\ record'.code = record.code
        /\ record'["stdout"] = record["stdout"] /\ record'["stderr"] = record["stderr"]
    BY <1>1, <2>2 DEF Record, ExecutionTypes
  <2>4. Followed'
    BY <1>1, <1>2, <2>1, <2>3 DEF Followed, Shown
  <2>5. Onward
    BY <1>2, <2>1 DEF Onward
  <2>. QED BY <1>1, <1>2, <2>1, <2>3, <2>4, <2>5, WaitingKeeps DEF Streams, ExecutionTypes
<1>. QED BY <1>3, <1>4, <1>5

(* What is said by the message that is read. *)
LEMMA Heard ==
    ASSUME ExecutionInv, Reads
    PROVE  /\ channel[1] \in Messages /\ Head(channel) = channel[1] /\ Says(1)
           /\ Len(channel) \in Nat \ {0} /\ (Len(channel) = 1 => channel' = <<>>)
           /\ \A i \in 2 .. Len(channel) : \E j \in 1 .. Len(channel') : channel'[j] = channel[i]
           /\ command # "unasked" /\ record.state = "running" /\ record.code = Nothing /\ follower.at = "reading"
<1>1. ExecutionTypes /\ Followed /\ (\A i \in 1 .. Len(channel) : Says(i)) /\ channel # <<>> /\ channel' = Tail(channel)
      /\ follower.at = "reading"
  BY DEF ExecutionInv, Reads
<1>2. /\ channel[1] \in Messages /\ Head(channel) = channel[1] /\ Len(channel) \in Nat \ {0}
      /\ Len(channel') = Len(channel) - 1 /\ \A i \in 1 .. Len(channel') : channel'[i] = channel[i + 1]
      /\ channel' \in Seq(Messages)
  BY <1>1 DEF ExecutionTypes
<1>3. Says(1)
  BY <1>1, <1>2
<1>4. Len(channel) = 1 => channel' = <<>>
  BY <1>2
<1>5. ASSUME NEW i \in 2 .. Len(channel) PROVE \E j \in 1 .. Len(channel') : channel'[j] = channel[i]
  <2>1. i - 1 \in 1 .. Len(channel') /\ (i - 1) + 1 = i
    BY <1>2
  <2>. QED BY <1>2, <2>1
<1>6. command # "unasked" /\ record.state = "running" /\ record.code = Nothing
  BY <1>1 DEF Followed
<1>. QED BY <1>1, <1>2, <1>3, <1>4, <1>5, <1>6

(* Output that is on its way is still on its way, or was heard of. *)
LEMMA StillShown ==
    ASSUME ExecutionInv, Reads, follower.began => follower'.began, channel[1].kind = "data" => follower'.began
    PROVE  \A s \in Streams : link' = "up" /\ output'[s] # <<>> => follower'.began \/ Shown'
<1>. SUFFICES ASSUME NEW s \in Streams, link' = "up", output'[s] # <<>>, ~follower'.began PROVE Shown'
  OBVIOUS
<1>1. UNCHANGED <<output, link>> /\ Followed
  BY DEF Reads, ExecutionInv
<1>2. PICK i \in 1 .. Len(channel) : channel[i].kind = "data"
  BY <1>1 DEF Followed, Shown
<1>3. i \in 2 .. Len(channel)
  BY <1>2, Heard
<1>4. PICK j \in 1 .. Len(channel') : channel'[j] = channel[i]
  BY <1>3, Heard
<1>. QED BY <1>2, <1>4 DEF Shown

LEMMA DataKeeps ==
    ASSUME ExecutionInv, ReadData
    PROVE  ExecutionInv'
<1>. DEFINE message == channel[1]
            s == message.stream
            x == Pushed(record[s], message.piece)
<1>1. Reads /\ ExecutionTypes /\ Followed /\ channel # <<>> /\ UNCHANGED <<command, output, exited, link>>
  BY DEF ReadData, ExecutionInv, Reads
<1>2. /\ message \in Messages /\ Head(channel) = message /\ message.kind = "data" /\ command \in Begun
      /\ record.state = "running" /\ record.code = Nothing /\ follower.at = "reading"
  BY <1>1, Heard DEF ReadData, Says
<1>3. s \in Streams /\ message.piece \in Pieces
  BY <1>2 DEF Messages
<1>4. record' = [record EXCEPT ![s] = x] /\ follower' = [follower EXCEPT !.began = TRUE]
  BY <1>2 DEF ReadData
<1>5. /\ follower' \in Follower /\ follower'.began = TRUE /\ follower'.at = follower.at /\ follower'.code = follower.code
  BY <1>1, <1>4 DEF Follower, ExecutionTypes
<1>6. x \in Stream
  <2>1. record[s] \in Stream
    BY <1>1, <1>3, StreamsOf DEF ExecutionTypes
  <2>. HIDE DEF s, message
  <2>. QED BY <1>3, <2>1 DEF Stream, Pushed
<1>. HIDE DEF x
<1>7. /\ record' \in Record /\ record'[s] = x /\ \A t \in Streams \ {s} : record'[t] = record[t]
      /\ record'.state = record.state /\ record'.code = record.code
  <2>1. record \in Record
    BY <1>1 DEF ExecutionTypes
  <2>. HIDE DEF s
  <2>. QED BY <1>3, <1>4, <1>6, <2>1, StreamSet
<1>8. \A t \in Streams : record'[t] = IF Data(t, 1) THEN Pushed(record[t], channel[1].piece) ELSE record[t]
  BY <1>2, <1>7 DEF Data, x
<1>9. Followed'
  <2>1. \A t \in Streams : link' = "up" /\ output'[t] # <<>> => follower'.began \/ Shown'
    BY <1>5
  <2>. QED BY <1>1, <1>2, <1>5, <1>7, <2>1 DEF Followed, Begun
<1>. QED BY <1>1, <1>5, <1>7, <1>8, <1>9, ReadingKeeps

LEMMA OtherKeeps ==
    ASSUME ExecutionInv, ReadStatus \/ ReadEvidence
    PROVE  ExecutionInv'
<1>1. Reads /\ ExecutionTypes /\ Followed /\ channel # <<>> /\ UNCHANGED <<command, output, exited, link, record>>
  BY DEF ReadStatus, ReadEvidence, ExecutionInv, Reads
<1>2. /\ channel[1] \in Messages /\ Head(channel) = channel[1] /\ channel[1].kind \in {"success", "signal", "status"}
      /\ command \in Begun /\ record.state = "running" /\ record.code = Nothing /\ follower.at = "reading"
      /\ channel[1].kind = "status" => command = "over" /\ channel[1].code = exited
  BY <1>1, Heard DEF ReadStatus, ReadEvidence, Says
<1>3. PICK code \in {follower.code, exited} :
         /\ code \in Codes \cup {Nothing}
         /\ code # Nothing => command = "over" /\ code = exited
         /\ follower' = [follower EXCEPT !.began = TRUE, !.code = code]
  <2>1. CASE ReadStatus
    <3>1. channel[1].kind = "status" /\ channel[1].code = exited /\ channel[1].code \in Codes
      BY <1>2, <2>1 DEF ReadStatus, Messages
    <3>. QED BY <1>2, <2>1, <3>1 DEF ReadStatus
  <2>2. CASE ReadEvidence
    <3>1. follower' = [follower EXCEPT !.began = TRUE] /\ follower.code \in Codes \cup {Nothing}
      BY <1>1, <2>2 DEF ReadEvidence, ExecutionTypes, Follower
    <3>2. follower' = [follower EXCEPT !.began = TRUE, !.code = follower.code]
      BY <1>1, <3>1 DEF ExecutionTypes, Follower
    <3>. QED BY <1>1, <3>1, <3>2 DEF Followed
  <2>. QED BY <2>1, <2>2
<1>4. follower' \in Follower /\ follower'.began = TRUE /\ follower'.at = follower.at /\ follower'.code = code
  BY <1>1, <1>3 DEF Follower, ExecutionTypes
<1>5. \A s \in Streams : ~Data(s, 1)
  BY <1>2 DEF Data
<1>6. Followed'
  BY <1>1, <1>2, <1>3, <1>4 DEF Followed, Begun
<1>. QED BY <1>1, <1>4, <1>5, <1>6, ReadingKeeps DEF ExecutionTypes

(* The run is settled, or a message is passed over. *)
LEMMA SettlingKeeps ==
    ASSUME ExecutionInv, ReadFailure \/ ReadEnd
    PROVE  ExecutionInv'
<1>1. Reads /\ ExecutionTypes /\ Followed /\ channel # <<>> /\ UNCHANGED <<command, output, exited, link>>
  BY DEF ReadFailure, ReadEnd, ExecutionInv, Reads
<1>2. /\ channel[1] \in Messages /\ Head(channel) = channel[1] /\ channel[1].kind \in {"failure", "closed"} /\ Says(1)
      /\ record.state = "running" /\ record.code = Nothing /\ follower.at = "reading" /\ command # "unasked"
      /\ (Len(channel) = 1 => channel' = <<>>)
  BY <1>1, Heard DEF ReadFailure, ReadEnd
<1>3. \A s \in Streams : ~Data(s, 1)
  BY <1>2 DEF Data
<1>4. CASE ReadFailure /\ follower.began
  <2>1. UNCHANGED <<follower, record>>
    BY <1>4 DEF ReadFailure
  <2>2. \A s \in Streams : link' = "up" /\ output'[s] # <<>> => follower'.began \/ Shown'
    BY <1>4, <2>1
  <2>3. Followed'
    BY <1>1, <1>2, <2>1, <2>2 DEF Followed
  <2>. QED BY <1>1, <1>2, <1>3, <2>1, <2>3, ReadingKeeps DEF ExecutionTypes
<1>5. CASE ~(ReadFailure /\ follower.began)
  <2>1. \E state \in {"exited", "ended", "refused", "indeterminate"}, code \in {Nothing, follower.code} :
           /\ record' = [record EXCEPT !.state = state, !.code = code]
           /\ state = "refused" => command = "refused"
           /\ state \in {"exited", "ended"} => channel[1].kind = "closed" /\ (follower.began \/ follower.code # Nothing)
           /\ code # Nothing => state = "exited"
    <3>1. [record EXCEPT !.code = Nothing] = record
      BY <1>1, <1>2 DEF ExecutionTypes, Record
    <3>2. CASE ReadFailure
      <4>1. record' = [record EXCEPT !.state = "refused"] /\ channel[1].kind = "failure" /\ ~follower.began
        BY <1>2, <1>5, <3>2 DEF ReadFailure, Settles
      <4>2. command = "refused"
        BY <1>2, <4>1 DEF Says
      <4>3. record' = [record EXCEPT !.state = "refused", !.code = Nothing]
        BY <1>1, <1>2, <4>1 DEF ExecutionTypes, Record
      <4>. QED BY <4>2, <4>3
    <3>3. CASE ReadEnd /\ follower.code # Nothing
      <4>1. record' = [record EXCEPT !.state = "exited", !.code = follower.code] /\ channel[1].kind = "closed"
        BY <1>2, <3>3 DEF ReadEnd
      <4>. QED BY <3>3, <4>1
    <3>4. CASE ReadEnd /\ follower.code = Nothing /\ follower.began
      <4>1. record' = [record EXCEPT !.state = "ended"] /\ channel[1].kind = "closed"
        BY <1>2, <3>4 DEF ReadEnd
      <4>2. record' = [record EXCEPT !.state = "ended", !.code = Nothing]
        BY <1>1, <1>2, <4>1 DEF ExecutionTypes, Record
      <4>. QED BY <3>4, <4>1, <4>2
    <3>5. CASE ReadEnd /\ follower.code = Nothing /\ ~follower.began
      <4>1. record' = [record EXCEPT !.state = "indeterminate"]
        BY <1>2, <3>5 DEF ReadEnd
      <4>2. record' = [record EXCEPT !.state = "indeterminate", !.code = Nothing]
        BY <1>1, <1>2, <4>1 DEF ExecutionTypes, Record
      <4>. QED BY <4>2
    <3>. QED BY <3>2, <3>3, <3>4, <3>5
  <2>2. PICK state \in {"exited", "ended", "refused", "indeterminate"}, code \in {Nothing, follower.code} :
           /\ record' = [record EXCEPT !.state = state, !.code = code]
           /\ state = "refused" => command = "refused"
           /\ state \in {"exited", "ended"} => channel[1].kind = "closed" /\ (follower.began \/ follower.code # Nothing)
           /\ code # Nothing => state = "exited"
    BY <2>1
  <2>3. /\ record' \in Record /\ record'.state = state /\ record'.code = code
        /\ record'["stdout"] = record["stdout"] /\ record'["stderr"] = record["stderr"]
    BY <1>1, <2>2 DEF ExecutionTypes, Record, Follower
  <2>4. follower' = [follower EXCEPT !.at = "done"]
    BY <1>5 DEF ReadFailure, ReadEnd, Settles
  <2>5. follower' \in Follower /\ follower'.at = "done" /\ follower'.began = follower.began /\ follower'.code = follower.code
    BY <1>1, <2>4 DEF ExecutionTypes, Follower
  <2>6. channel[1].kind = "closed" => channel' = <<>> /\ link # "up"
    BY <1>2 DEF Says
  <2>7. \A s \in Streams : link' = "up" /\ output'[s] # <<>> => follower'.began \/ Shown'
    BY <1>1, <1>2, <2>5, StillShown
  <2>8. follower.code # Nothing => follower.began
    BY <1>1 DEF Followed
  <2>9. Followed'
    BY <1>1, <1>2, <2>2, <2>3, <2>5, <2>6, <2>7, <2>8 DEF Followed, Begun
  <2>. QED BY <1>1, <1>2, <1>3, <2>3, <2>5, <2>9, ReadingKeeps DEF Streams
<1>. QED BY <1>4, <1>5

LEMMA ExecutionStarts ==
    ASSUME ExecutionsInit
    PROVE  ExecutionInv
<1>. USE DEF ExecutionsInit
<1>1. Len(channel) = 0 /\ \A s \in Streams : Len(output[s]) = 0 /\ output[s] = <<>>
  OBVIOUS
<1>2. Empty \in Stream /\ Empty.seen = 0 /\ Len(Empty.kept) = 0
  BY DEF Empty, Stream
<1>3. \A s \in Streams : record[s] = Empty
  BY DEF Streams
<1>4. ExecutionTypes
  <2>1. record \in Record
    BY <1>2 DEF Record
  <2>. QED BY <2>1 DEF ExecutionTypes, Follower
<1>5. \A i \in 1 .. Len(channel) : Says(i)
  BY <1>1
<1>6. Followed
  BY <1>1 DEF Followed
<1>7. ASSUME NEW s \in Streams PROVE Kept(s) /\ Arrives(s)
  <2>1. Kept(s)
    BY <1>2, <1>3, ExecutionsAssumption DEF Kept
  <2>2. Arrives(s)
    <3>. DEFINE at == [i \in 0 .. Len(channel) |-> 0]
    <3>1. at \in [0 .. Len(channel) -> Nat] /\ at[0] = 0
      BY <1>1
    <3>. HIDE DEF at
    <3>. QED BY <1>1, <1>2, <1>3, <3>1 DEF Arrives
  <2>. QED BY <2>1, <2>2
<1>. QED BY <1>4, <1>5, <1>6, <1>7 DEF ExecutionInv

LEMMA ExecutionSteps ==
    ASSUME ExecutionInv, [ExecutionsNext]_executionVars
    PROVE  ExecutionInv'
<1>1. CASE Begins \/ Declines
  BY <1>1, BeginningKeeps
<1>2. CASE Contradicts \/ IsKilled \/ Closes \/ \E c \in Codes : Exits(c)
  BY <1>2, TalkingKeeps
<1>3. CASE \E s \in Streams, p \in Pieces : Writes(s, p)
  BY <1>3, WritingKeeps
<1>4. CASE IsLost
  BY <1>4, LosingKeeps
<1>5. CASE Sent \/ SendFails \/ CancelRun \/ Signals
  BY <1>5, SteeringKeeps
<1>6. CASE ReadData
  BY <1>6, DataKeeps
<1>7. CASE ReadStatus \/ ReadEvidence
  BY <1>7, OtherKeeps
<1>8. CASE ReadFailure \/ ReadEnd
  BY <1>8, SettlingKeeps
<1>9. CASE UNCHANGED executionVars
  <2>1. UNCHANGED <<command, output, exited, channel, link, follower, record>> /\ ExecutionTypes /\ Followed
    BY <1>9 DEF executionVars, ExecutionInv
  <2>2. Followed' /\ Onward
    BY <2>1 DEF Followed, Shown, Onward
  <2>. QED BY <2>1, <2>2, WaitingKeeps DEF ExecutionTypes
<1>. QED BY <1>1, <1>2, <1>3, <1>4, <1>5, <1>6, <1>7, <1>8, <1>9 DEF ExecutionsNext, Target

(* What the record of a run may become: nothing else once it is settled, and until
   then it counts on. *)
LEMMA RecordMoves ==
    ASSUME ExecutionInv, [ExecutionsNext]_executionVars
    PROVE  /\ record.state # "running" => record' = record
           /\ \A s \in Streams : record[s].seen \in Nat /\ record'[s].seen \in Nat /\ record'[s].seen >= record[s].seen
           /\ record.cancellation # "not_requested" => record'.cancellation # "not_requested"
<1>1. ExecutionTypes /\ Followed /\ record \in Record /\ record' \in Record
  BY ExecutionSteps DEF ExecutionInv, ExecutionTypes
<1>2. \A s \in Streams : record[s].seen \in Nat /\ record'[s].seen \in Nat
  <2>1. \A s \in Streams : record[s] \in Stream /\ record'[s] \in Stream
    BY <1>1, StreamsOf
  <2>. QED BY <2>1 DEF Stream
<1>3. CASE ReadData
  <2>1. /\ Reads /\ Head(channel) = channel[1] /\ channel[1] \in Messages /\ record.state = "running"
        /\ channel[1].kind = "data"
    BY <1>3, Heard DEF ReadData
  <2>2. channel[1].stream \in Streams /\ channel[1].piece \in Pieces
    BY <2>1 DEF Messages
  <2>3. PICK s \in Streams, piece \in Pieces : record' = [record EXCEPT ![s] = Pushed(record[s], piece)]
    BY <1>3, <2>1, <2>2 DEF ReadData
  <2>4. record[s] \in Stream
    BY <1>1, StreamsOf
  <2>5. Pushed(record[s], piece) \in Stream /\ Pushed(record[s], piece).seen = record[s].seen + 1
    BY <2>4 DEF Pushed, Stream
  <2>6. /\ record'[s].seen = record[s].seen + 1 /\ \A t \in Streams \ {s} : record'[t] = record[t]
        /\ record'.cancellation = record.cancellation
    BY <1>1, <2>3, <2>5, StreamSet
  <2>7. \A t \in Streams : record'[t].seen >= record[t].seen
    BY <1>2, <2>6
  <2>. QED BY <1>2, <2>1, <2>6, <2>7
<1>4. ASSUME record' # record, ~ReadData
      PROVE  /\ record.state = "running" /\ record'["stdout"] = record["stdout"] /\ record'["stderr"] = record["stderr"]
             /\ record.cancellation # "not_requested" => record'.cancellation # "not_requested"
  <2>1. SendFails \/ ReadFailure \/ ReadEnd \/ CancelRun \/ Signals
    BY <1>4 DEF ExecutionsNext, Target, executionVars, Begins, Declines, Contradicts, IsKilled, Closes, IsLost, Writes,
                Exits, Sent, ReadStatus, ReadEvidence
  <2>2. record.state = "running"
    BY <1>1, <2>1 DEF Followed, SendFails, ReadFailure, ReadEnd, Reads, CancelRun, Signals
  <2>3. CASE SendFails \/ ReadFailure \/ ReadEnd
    <3>1. PICK state, code : record' \in {[record EXCEPT !.state = state], [record EXCEPT !.state = state, !.code = code]}
      BY <1>4, <2>3 DEF SendFails, ReadFailure, ReadEnd, Settles
    <3>. QED BY <1>1, <2>2, <3>1 DEF Record
  <2>4. CASE CancelRun \/ Signals
    <3>1. PICK c \in {"requested", "signal_sent", "signal_failed"} : record' = [record EXCEPT !.cancellation = c]
      BY <2>4 DEF CancelRun, Signals
    <3>. QED BY <1>1, <2>2, <3>1 DEF Record
  <2>. QED BY <2>1, <2>3, <2>4
<1>5. CASE ~ReadData
  <2>1. CASE record' = record
    BY <1>2, <2>1
  <2>2. CASE record' # record
    BY <1>2, <1>4, <1>5, <2>2 DEF Streams
  <2>. QED BY <2>1, <2>2
<1>. QED BY <1>3, <1>5

-----------------------------------------------------------------------------
(* What follows for the answers *)

(* run.rs, start and Collected: what the record of a run holds is what arrived from the
   target, in the order it was sent, and says no more of the command than that. *)
THEOREM ExecutionInvariant == ExecutionsSpec => []ExecutionInv
<1>1. ExecutionsInit => ExecutionInv
  BY ExecutionStarts
<1>2. ExecutionInv /\ [ExecutionsNext]_executionVars => ExecutionInv'
  BY ExecutionSteps
<1>. QED BY <1>1, <1>2, PTL DEF ExecutionsSpec

(* What is released of a stream is true of it. *)
LEMMA ReleasedTells ==
    ASSUME ExecutionInv, record.state \in {"exited", "ended"}, NEW s \in Streams, NEW files
    PROVE  TellsOutput(s, Released(s, files))
<1>. DEFINE held == record[s]
            shown(as) == [as |-> as, content |-> held.kept, bytes |-> held.seen,
                          truncated |-> held.seen > Len(held.kept)]
            plain == \A i \in DOMAIN held.kept : held.kept[i] # "binary"
<1>1. ExecutionTypes /\ Followed /\ Kept(s) /\ Arrives(s) /\ held \in Stream /\ output[s] \in Seq(Pieces)
  BY StreamsOf DEF ExecutionInv, ExecutionTypes
<1>2. held.kept \in Seq(Pieces) /\ held.seen \in Nat /\ OutputBytes \in Nat
  BY <1>1, ExecutionsAssumption DEF Stream
<1>3. /\ Len(held.kept) <= held.seen
      /\ \A i \in 1 .. Len(held.kept) : i <= Len(output[s]) /\ held.kept[i] = output[s][i]
                                          /\ (held.kept[i] = "marked" => held.matched)
  BY <1>1, <1>2 DEF Kept
<1>4. IsPrefix(held.kept, output[s])
  <2>1. Len(held.kept) <= Len(output[s])
    <3>1. CASE Len(held.kept) = 0
      BY <1>1, <1>2, <3>1
    <3>2. CASE Len(held.kept) # 0
      <4>1. Len(held.kept) \in 1 .. Len(held.kept)
        BY <1>2, <3>2
      <4>. QED BY <1>3, <4>1
    <3>. QED BY <3>1, <3>2
  <2>2. SubSeq(held.kept, 1, Len(held.kept)) = SubSeq(output[s], 1, Len(held.kept))
    BY <1>1, <1>2, <1>3, <2>1
  <2>. QED BY <2>1, <2>2 DEF IsPrefix
<1>5. link = "closed" => held.seen = Len(output[s])
  <2>1. channel = <<>> /\ Len(channel) = 0
    BY <1>1 DEF Followed
  <2>. QED BY <1>1, <2>1 DEF Arrives
<1>6. ASSUME ~held.matched, plain PROVE \A i \in 1 .. Len(held.kept) : held.kept[i] = "text"
  <2>1. \A i \in 1 .. Len(held.kept) : held.kept[i] \in Pieces
    BY <1>2
  <2>. QED BY <1>2, <1>3, <1>6, <2>1 DEF Pieces
<1>7. \/ Released(s, files) = shown("text") /\ ~held.matched /\ plain
      \/ Released(s, files) = shown("reference")
      \/ Released(s, files) = [as |-> "unavailable", bytes |-> held.seen]
  BY DEF Released
<1>. HIDE DEF plain, held
<1>8. ASSUME NEW as \in {"text", "reference"}, Released(s, files) = shown(as),
             as = "text" => ~held.matched /\ plain
      PROVE  TellsOutput(s, Released(s, files))
  <2>. DEFINE released == Released(s, files)
  <2>1. /\ released.as = as /\ released.content = held.kept /\ released.bytes = held.seen
        /\ released.truncated = (held.seen > Len(held.kept))
    BY <1>8
  <2>. HIDE DEF released
  <2>2. IsPrefix(released.content, output[s]) /\ (link = "closed" => released.bytes = Len(output[s]))
    BY <1>4, <1>5, <2>1
  <2>3. released.truncated <=> released.bytes > Len(released.content)
    BY <2>1
  <2>4. released.as = "text" => \A i \in 1 .. Len(released.content) : released.content[i] = "text"
    BY <1>6, <1>8, <2>1
  <2>5. TellsOutput(s, released)
    BY <2>2, <2>3, <2>4 DEF TellsOutput
  <2>. QED BY <2>5 DEF released
<1>9. CASE Released(s, files) = shown("reference") \/ (Released(s, files) = shown("text") /\ ~held.matched /\ plain)
  BY <1>8, <1>9
<1>10. CASE Released(s, files) = [as |-> "unavailable", bytes |-> held.seen]
  BY <1>10 DEF TellsOutput
<1>. QED BY <1>7, <1>9, <1>10

(* tools.rs, reported: an answer says that a command ran only when it did, with the
   status the target gave, and "not started" only when it did not; what it shows of the
   output is the beginning of it, counted whole, and no text of it looked like a
   secret. *)
THEOREM AnswersAlwaysTell == ExecutionsSpec => []AnswerTells
<1>1. ExecutionInv => AnswerTells
  <2>. SUFFICES ASSUME ExecutionInv, NEW files \in Files
                PROVE  /\ ExecResult(files).outcome = "not_started" => command = "refused"
                       /\ ExecResult(files).outcome = "ran" =>
                            /\ command \in {"begun", "over"}
                            /\ ExecResult(files).exit \in {Nothing, exited}
                            /\ \A s \in Streams : TellsOutput(s, ExecResult(files)[s])
    BY DEF AnswerTells
  <2>1. Followed /\ record.state \in {"running", "exited", "ended", "refused", "indeterminate"}
    BY DEF ExecutionInv, ExecutionTypes, Record
  <2>2. CASE record.state \in {"exited", "ended"}
    <3>1. ExecResult(files) = [outcome |-> "ran", exit |-> record.code,
                               stdout |-> Released("stdout", files), stderr |-> Released("stderr", files)]
      BY <2>2 DEF ExecResult
    <3>2. command \in Begun /\ (record.code = Nothing \/ record.code = exited)
      BY <2>1, <2>2 DEF Followed
    <3>3. TellsOutput("stdout", Released("stdout", files)) /\ TellsOutput("stderr", Released("stderr", files))
      BY <2>2, ReleasedTells DEF Streams
    <3>4. \A s \in Streams : TellsOutput(s, ExecResult(files)[s])
      <4>1. ExecResult(files)["stdout"] = Released("stdout", files) /\ ExecResult(files)["stderr"] = Released("stderr", files)
        BY <3>1
      <4>. QED BY <3>3, <4>1 DEF Streams
    <3>5. ExecResult(files).outcome = "ran" /\ ExecResult(files).exit = record.code
      BY <3>1
    <3>. QED BY <3>2, <3>4, <3>5 DEF Begun
  <2>3. CASE record.state = "refused"
    <3>1. ExecResult(files).outcome = "not_started"
      BY <2>3 DEF ExecResult
    <3>. QED BY <2>1, <2>3, <3>1 DEF Followed
  <2>4. CASE record.state \in {"running", "indeterminate"}
    <3>1. ExecResult(files).outcome \in {"still_running", "unknown"}
      BY <2>4 DEF ExecResult
    <3>. QED BY <3>1
  <2>. QED BY <2>1, <2>2, <2>3, <2>4
<1>. QED BY <1>1, ExecutionInvariant, PTL

(* tools.rs, StreamOut::Pending and ProgressResult: an answer that says a run is over, or
   hands out any of its output, is the answer from then on; what is told of a run that is
   going only grows, and a cancellation is not taken back. *)
THEOREM AnswersAreKept == ExecutionsSpec => AnswersOnlyMoveOn
<1>1. ExecutionInv /\ [ExecutionsNext]_executionVars =>
        [/\ \A files \in Files : Final(ExecResult(files)) => ExecResult(files)' = ExecResult(files)
         /\ Settled => Progress' = Progress
         /\ \A s \in Streams : Progress'.bytes[s] >= Progress.bytes[s]
         /\ Progress.cancellation # "not_requested" => Progress'.cancellation # "not_requested"]_executionVars
  <2>. SUFFICES ASSUME ExecutionInv, [ExecutionsNext]_executionVars
                PROVE  /\ \A files \in Files : Final(ExecResult(files)) => ExecResult(files)' = ExecResult(files)
                       /\ Settled => Progress' = Progress
                       /\ \A s \in Streams : Progress'.bytes[s] >= Progress.bytes[s]
                       /\ Progress.cancellation # "not_requested" => Progress'.cancellation # "not_requested"
    OBVIOUS
  <2>1. /\ record.state # "running" => record' = record
        /\ \A s \in Streams : record[s].seen \in Nat /\ record'[s].seen \in Nat /\ record'[s].seen >= record[s].seen
        /\ record.cancellation # "not_requested" => record'.cancellation # "not_requested"
    BY RecordMoves
  <2>2. ASSUME NEW files \in Files, Final(ExecResult(files)) PROVE ExecResult(files)' = ExecResult(files)
    <3>1. CASE record.state = "running"
      <4>1. ExecResult(files) = [outcome |-> "still_running", stdout |-> Pending("stdout"), stderr |-> Pending("stderr")]
        BY <3>1 DEF ExecResult
      <4>2. /\ ExecResult(files).outcome = "still_running"
            /\ ExecResult(files)["stdout"].as = "pending" /\ ExecResult(files)["stderr"].as = "pending"
        BY <4>1 DEF Pending
      <4>. QED BY <2>2, <4>2 DEF Final, Streams
    <3>2. CASE record' = record
      BY <3>2 DEF ExecResult, Released, Pending
    <3>. QED BY <2>1, <3>1, <3>2
  <2>3. Settled => Progress' = Progress
    <3>1. record' = record => Progress' = Progress
      BY DEF Progress
    <3>. QED BY <2>1, <3>1 DEF Settled
  <2>4. ASSUME NEW s \in Streams PROVE Progress'.bytes[s] >= Progress.bytes[s]
    <3>1. Progress.bytes[s] = record[s].seen /\ Progress'.bytes[s] = record'[s].seen
      BY DEF Progress
    <3>. QED BY <2>1, <3>1
  <2>5. Progress.cancellation = record.cancellation /\ Progress'.cancellation = record'.cancellation
    BY DEF Progress
  <2>. QED BY <2>1, <2>2, <2>3, <2>4, <2>5
<1>. QED BY <1>1, ExecutionInvariant, PTL DEF ExecutionsSpec, AnswersOnlyMoveOn

-----------------------------------------------------------------------------
(* A file read: the inductive invariant *)

ReadRequest ==
    [offset : Nat, size : Nat \ {0}, bytes : Seq(Nat), future : {"asked", "data", "eof", "done", "failed"}]
FileReader ==
    [next : Nat, limit : Nat, chunk : Nat, requests : Seq(ReadRequest), current : Seq(Nat), eof : BOOLEAN]

DownloadTypes ==
    /\ size \in 0 .. MaxFile /\ opened \in 0 .. size
    /\ reader \in FileReader
    /\ taken \in Seq(Nat)
    /\ outcome \in {"opening", "reading", "whole", "TooLarge", "RemoteIo", "stopped"}

(* How far the reader has delivered. *)
Place == Len(taken) + Len(reader.current)

(* Where request i begins, and the one that is not made yet. *)
Edge(r, i) == IF i = Len(r.requests) + 1 THEN r.next ELSE r.requests[i].offset

(* The requests are for what follows, without a gap, up to what is asked for next. *)
Adjoin(r) == \A i \in 1 .. Len(r.requests) : Edge(r, i + 1) = r.requests[i].offset + r.requests[i].size

(* What a request has been answered is what is there; and it only ends short of
   what it asked for at an end of the file. *)
Answered(q) ==
    /\ q.bytes = Positions(q.offset, Len(q.bytes)) /\ Len(q.bytes) <= q.size
    /\ Len(q.bytes) > 0 => q.offset + Len(q.bytes) <= size
    /\ q.future = "asked" => Len(q.bytes) < q.size
    /\ q.future = "eof" => q.offset + Len(q.bytes) >= opened
    /\ q.future = "done" => Len(q.bytes) = q.size \/ q.offset + Len(q.bytes) >= opened

Window(r) ==
    /\ r.chunk > 0 /\ r.next <= r.limit
    /\ r.limit > MaxBytes \/ r.limit > MaxFile
    /\ Len(r.requests) <= ReadAhead
    /\ Adjoin(r)
    /\ \A i \in 1 .. Len(r.requests) : Answered(r.requests[i])

Delivered ==
    /\ reader.current = Positions(Len(taken), Len(reader.current))
    /\ Place <= size
    /\ IF reader.eof THEN Place >= opened ELSE Window(reader) /\ Edge(reader, 1) = Place

DownloadInv ==
    /\ DownloadTypes
    /\ OutcomeTellsFile
    /\ Len(taken) <= MaxBytes
    /\ outcome = "opening" => taken = <<>>
    /\ outcome = "reading" => Delivered

-----------------------------------------------------------------------------
(* Helpers of a file read *)

(* What Positions is. *)
LEMMA PositionsAre ==
  ASSUME NEW o \in Nat, NEW n \in Nat
  PROVE  /\ Positions(o, n) \in Seq(Nat) /\ Len(Positions(o, n)) = n
         /\ \A i \in 1 .. n : Positions(o, n)[i] = o + i
BY DEF Positions

(* What follows a run of positions continues it. *)
LEMMA PositionsJoin ==
  ASSUME NEW o \in Nat, NEW n \in Nat, NEW m \in Nat
  PROVE  Positions(o, n) \o Positions(o + n, m) = Positions(o, n + m)
<1>. DEFINE p == Positions(o, n)
            q == Positions(o + n, m)
            s == Positions(o, n + m)
<1>1. /\ p \in Seq(Nat) /\ Len(p) = n /\ \A i \in 1 .. n : p[i] = o + i
      /\ q \in Seq(Nat) /\ Len(q) = m /\ \A i \in 1 .. m : q[i] = (o + n) + i
      /\ s \in Seq(Nat) /\ Len(s) = n + m /\ \A i \in 1 .. n + m : s[i] = o + i
  <2>1. o + n \in Nat /\ n + m \in Nat
    OBVIOUS
  <2>2. p \in Seq(Nat) /\ Len(p) = n /\ \A i \in 1 .. n : p[i] = o + i
    BY PositionsAre
  <2>3. q \in Seq(Nat) /\ Len(q) = m /\ \A i \in 1 .. m : q[i] = (o + n) + i
    BY <2>1, PositionsAre
  <2>4. s \in Seq(Nat) /\ Len(s) = n + m /\ \A i \in 1 .. n + m : s[i] = o + i
    BY <2>1, PositionsAre
  <2>. QED BY <2>2, <2>3, <2>4
<1>. HIDE DEF p, q, s
<1>2. /\ p \o q \in Seq(Nat) /\ Len(p \o q) = n + m
      /\ \A i \in 1 .. n + m : (p \o q)[i] = IF i <= n THEN p[i] ELSE q[i - n]
  BY <1>1, ConcatProperties
<1>3. ASSUME NEW i \in 1 .. n + m PROVE (p \o q)[i] = s[i]
  <2>1. CASE i <= n
    BY <1>1, <1>2, <2>1
  <2>2. CASE ~(i <= n)
    <3>1. i - n \in 1 .. m
      BY <2>2
    <3>2. q[i - n] = (o + n) + (i - n)
      BY <1>1, <3>1
    <3>. QED BY <1>1, <1>2, <2>2, <3>2
  <2>. QED BY <2>1, <2>2
<1>4. p \o q = s
  BY <1>1, <1>2, <1>3, SeqEqual
<1>. QED BY <1>4 DEF p, q, s

(* The two parts of a run of positions. *)
LEMMA PositionsSplit ==
  ASSUME NEW o \in Nat, NEW n \in Nat, NEW k \in 0 .. n
  PROVE  /\ SubSeq(Positions(o, n), 1, k) = Positions(o, k)
         /\ SubSeq(Positions(o, n), k + 1, n) = Positions(o + k, n - k)
<1>. DEFINE s == Positions(o, n)
            p == Positions(o, k)
            q == Positions(o + k, n - k)
<1>1. /\ s \in Seq(Nat) /\ Len(s) = n /\ \A i \in 1 .. n : s[i] = o + i
      /\ p \in Seq(Nat) /\ Len(p) = k /\ \A i \in 1 .. k : p[i] = o + i
      /\ q \in Seq(Nat) /\ Len(q) = n - k /\ \A i \in 1 .. n - k : q[i] = (o + k) + i
  <2>1. k \in Nat /\ o + k \in Nat /\ n - k \in Nat
    OBVIOUS
  <2>2. s \in Seq(Nat) /\ Len(s) = n /\ \A i \in 1 .. n : s[i] = o + i
    BY PositionsAre
  <2>3. p \in Seq(Nat) /\ Len(p) = k /\ \A i \in 1 .. k : p[i] = o + i
    BY <2>1, PositionsAre
  <2>4. q \in Seq(Nat) /\ Len(q) = n - k /\ \A i \in 1 .. n - k : q[i] = (o + k) + i
    BY <2>1, PositionsAre
  <2>. QED BY <2>2, <2>3, <2>4
<1>. HIDE DEF p, q, s
<1>2. SubSeq(s, 1, k) = p
  <2>1. /\ SubSeq(s, 1, k) \in Seq(Nat) /\ Len(SubSeq(s, 1, k)) = k
        /\ \A i \in 1 .. k : SubSeq(s, 1, k)[i] = s[i]
    BY <1>1, SubSeqProperties
  <2>. QED BY <1>1, <2>1, SeqEqual
<1>3. SubSeq(s, k + 1, n) = q
  <2>1. /\ SubSeq(s, k + 1, n) \in Seq(Nat) /\ Len(SubSeq(s, k + 1, n)) = n - k
        /\ \A i \in 1 .. n - k : SubSeq(s, k + 1, n)[i] = s[k + i]
    BY <1>1, SubSeqProperties
  <2>2. ASSUME NEW i \in 1 .. n - k PROVE SubSeq(s, k + 1, n)[i] = q[i]
    <3>1. k + i \in 1 .. n
      OBVIOUS
    <3>. QED BY <1>1, <2>1, <3>1
  <2>. QED BY <1>1, <2>1, <2>2, SeqEqual
<1>. QED BY <1>2, <1>3 DEF p, q, s

(* A sequence without its first element. *)
LEMMA WithoutFirst ==
  ASSUME NEW T, NEW s \in Seq(T), s # <<>>
  PROVE  /\ RemoveAt(s, 1) \in Seq(T) /\ Len(RemoveAt(s, 1)) = Len(s) - 1
         /\ \A i \in 1 .. Len(s) - 1 : RemoveAt(s, 1)[i] = s[i + 1]
<1>. DEFINE rest == SubSeq(s, 2, Len(s))
<1>. HIDE DEF rest
<1>1. /\ rest \in Seq(T) /\ Len(rest) = Len(s) - 1
      /\ \A i \in 1 .. Len(s) - 1 : rest[i] = s[i + 1]
  <2>1. ASSUME NEW n \in Nat \ {0}, Len(s) = n, \A i \in 1 .. n : s[i] \in T
        PROVE  /\ rest \in Seq(T) /\ Len(rest) = n - 1
               /\ \A i \in 1 .. n - 1 : rest[i] = s[i + 1]
    <3>1. /\ rest \in Seq(T)
          /\ Len(rest) = IF 2 <= n THEN n - 2 + 1 ELSE 0
          /\ \A i \in 1 .. n - 2 + 1 : rest[i] = s[2 + i - 1]
      BY <2>1, SubSeqProperties DEF rest
    <3>2. /\ \A i \in 1 .. n - 1 : i \in 1 .. n - 2 + 1 /\ 2 + i - 1 = i + 1
          /\ (IF 2 <= n THEN n - 2 + 1 ELSE 0) = n - 1
      OBVIOUS
    <3>. QED BY <3>1, <3>2
  <2>2. Len(s) \in Nat \ {0} /\ \A i \in 1 .. Len(s) : s[i] \in T
    BY EmptySeq
  <2>. QED BY <2>1, <2>2
<1>2. SubSeq(s, 1, 0) = <<>>
  BY SubSeqEmpty
<1>3. RemoveAt(s, 1) = <<>> \o rest
  BY <1>2 DEF RemoveAt, rest
<1>4. RemoveAt(s, 1) = rest
  BY <1>1, <1>3, ConcatEmptySeq
<1>. QED BY <1>1, <1>4

(* The number of pieces of size b that a takes. *)
LEMMA PiecesOf ==
  ASSUME NEW a \in Nat, NEW b \in Nat \ {0}
  PROVE  LET q == (a + b - 1) \div b
         IN q \in Nat /\ q * b < a + b /\ a <= q * b
<1>. DEFINE d == a + b - 1
            q == d \div b
<1>1. d \in Nat
  OBVIOUS
<1>. HIDE DEF d
<1>2. q \in Nat /\ b * q <= d /\ d < b * q + b
  BY <1>1
<1>3. q * b = b * q /\ q * b \in Nat
  BY <1>2
<1>4. q \in Nat /\ q * b < a + b /\ a <= q * b
  BY <1>2, <1>3 DEF d
<1>. QED BY <1>4 DEF d

(* The product with a piece, which only its own rules are needed of. *)
LEMMA Products ==
  ASSUME NEW c \in Nat \ {0}
  PROVE  /\ \A i \in Nat : i * c \in Nat
         /\ \A i \in Nat, j \in Nat : i <= j => i * c <= j * c
         /\ \A i \in Nat : (i + 1) * c = i * c + c
         /\ 0 * c = 0
<1>1. ASSUME NEW i \in Nat, NEW j \in Nat, i <= j PROVE i * c <= j * c
  BY <1>1
<1>2. ASSUME NEW i \in Nat PROVE i * c \in Nat /\ (i + 1) * c = i * c + c
  OBVIOUS
<1>. QED BY <1>1, <1>2

(* Polling a request changes how far its future is, and nothing that was answered. *)
LEMMA PolledKeeps ==
  ASSUME NEW q \in ReadRequest, Answered(q)
  PROVE  /\ Polled(q) \in ReadRequest /\ Answered(Polled(q))
         /\ Polled(q).offset = q.offset /\ Polled(q).size = q.size /\ Polled(q).bytes = q.bytes
<1>1. CASE q.future \notin {"eof", "data"}
  <2>1. Polled(q) = q
    BY <1>1 DEF Polled
  <2>. QED BY <2>1
<1>2. CASE q.future \in {"eof", "data"}
  <2>1. \E f \in {"asked", "done"} :
           /\ Polled(q) = [q EXCEPT !.future = f]
           /\ f = "asked" => Len(q.bytes) # q.size
           /\ f = "done" => q.future = "eof" \/ Len(q.bytes) = q.size
    BY <1>2 DEF Polled
  <2>2. PICK f \in {"asked", "done"} :
           /\ Polled(q) = [q EXCEPT !.future = f]
           /\ f = "asked" => Len(q.bytes) # q.size
           /\ f = "done" => q.future = "eof" \/ Len(q.bytes) = q.size
    BY <2>1
  <2>3. /\ Polled(q) \in ReadRequest /\ Polled(q).future = f
        /\ Polled(q).offset = q.offset /\ Polled(q).size = q.size /\ Polled(q).bytes = q.bytes
    BY <2>2 DEF ReadRequest
  <2>4. Len(q.bytes) \in Nat /\ q.size \in Nat
    BY DEF ReadRequest
  <2>. QED BY <2>2, <2>3, <2>4 DEF Answered
<1>. QED BY <1>1, <1>2

(* What a window asks for next: what follows, without a gap, no more than there is
   room for and not past the limit. *)
Ahead(r) == AtMost(r.next + Len(Scheduled(r)) * r.chunk, r.limit)

LEMMA ScheduledAre ==
  ASSUME NEW r \in FileReader, Window(r)
  PROVE  LET S == Scheduled(r)
         IN /\ S \in Seq(ReadRequest) /\ Len(S) <= ReadAhead - Len(r.requests)
            /\ \A i \in 1 .. Len(S) : S[i].bytes = <<>> /\ S[i].future = "asked"
            /\ Len(S) > 0 => S[1].offset = r.next
            /\ \A i \in 1 .. Len(S) : (IF i = Len(S) THEN Ahead(r) ELSE S[i + 1].offset) = S[i].offset + S[i].size
            /\ Len(S) = 0 => Ahead(r) = r.next
            /\ Ahead(r) \in Nat /\ Ahead(r) <= r.limit
            /\ r.requests = <<>> /\ r.next < r.limit => Len(S) > 0
<1>. DEFINE c == r.chunk
            left == r.limit - r.next
            room == ReadAhead - Len(r.requests)
            q == (left + c - 1) \div c
            n == AtMost(room, q)
            m(i) == i * c
            At(i) == r.next + m(i - 1)
            S == Scheduled(r)
<1>1. /\ c \in Nat \ {0} /\ left \in Nat /\ room \in Nat /\ r.next \in Nat /\ r.limit \in Nat
      /\ r.limit = r.next + left
      /\ r.requests = <<>> => room > 0
  BY DownloadsAssumption DEF FileReader, Window
<1>2. S = [i \in 1 .. n |-> RequestChunk(At(i), AtMost(c, r.limit - At(i)))]
  BY DEF Scheduled
<1>3. Ahead(r) = AtMost(r.next + m(Len(S)), r.limit)
  BY DEF Ahead
<1>. HIDE DEF c, left, room, S
<1>4. q \in Nat /\ m(q) < left + c /\ left <= m(q)
  BY <1>1, PiecesOf
<1>. HIDE DEF q
<1>5. n \in Nat /\ n <= room /\ n <= q /\ (n = room \/ n = q)
  BY <1>1, <1>4 DEF AtMost
<1>. HIDE DEF n
<1>6. /\ \A i \in Nat : m(i) \in Nat
      /\ \A i \in Nat, j \in Nat : i <= j => m(i) <= m(j)
      /\ \A i \in Nat : m(i + 1) = m(i) + c
      /\ m(0) = 0
  BY <1>1, Products
<1>. HIDE DEF m
<1>7. ASSUME NEW i \in 1 .. n
      PROVE  /\ m(i - 1) \in Nat /\ m(i - 1) < left
             /\ m(i) \in Nat /\ m(i) = m(i - 1) + c
             /\ i < n => m(i) < left
             /\ At(i) \in Nat /\ At(i) < r.limit
  <2>1. i - 1 \in Nat /\ i \in Nat /\ (i - 1) + 1 = i /\ i <= q
    BY <1>4, <1>5
  <2>2. m(i - 1) \in Nat /\ m(i) \in Nat /\ m(i) = m(i - 1) + c /\ m(i) <= m(q)
    BY <1>4, <1>6, <2>1
  <2>3. m(q) \in Nat
    BY <1>4, <1>6
  <2>4. m(i - 1) < left
    BY <1>1, <1>4, <2>2, <2>3
  <2>5. i < n => m(i) < left
    <3>1. SUFFICES ASSUME i < n PROVE m(i) < left
      OBVIOUS
    <3>2. i + 1 \in Nat /\ i + 1 <= q
      BY <1>4, <1>5, <2>1, <3>1
    <3>3. m(i + 1) \in Nat /\ m(i + 1) = m(i) + c /\ m(i + 1) <= m(q)
      BY <1>4, <1>6, <2>1, <3>2
    <3>. QED BY <1>1, <1>4, <2>2, <2>3, <3>3
  <2>. QED BY <1>1, <2>2, <2>4, <2>5
<1>piece. ASSUME NEW p \in Nat, NEW x \in Nat, p < left, x = p + c
      PROVE  /\ AtMost(c, r.limit - (r.next + p)) \in Nat \ {0}
             /\ AtMost(r.next + x, r.limit) = (r.next + p) + AtMost(c, r.limit - (r.next + p))
             /\ x < left => AtMost(c, r.limit - (r.next + p)) = c
  <2>. DEFINE rest == r.limit - (r.next + p)
  <2>1. rest \in Nat \ {0} /\ rest = left - p
    BY <1>1, <1>piece
  <2>. HIDE DEF rest
  <2>2. AtMost(c, rest) \in Nat \ {0} /\ (x < left => AtMost(c, rest) = c)
    BY <1>1, <1>piece, <2>1 DEF AtMost
  <2>3. AtMost(r.next + x, r.limit) = (r.next + p) + AtMost(c, rest)
    BY <1>1, <1>piece, <2>1 DEF AtMost
  <2>. QED BY <2>2, <2>3 DEF rest
<1>8. ASSUME NEW i \in 1 .. n
      PROVE  /\ S[i] \in ReadRequest /\ S[i].bytes = <<>> /\ S[i].future = "asked"
             /\ S[i].offset = At(i) /\ S[i].size = AtMost(c, r.limit - At(i))
  <2>. DEFINE a == At(i)
              z == AtMost(c, r.limit - a)
  <2>1. a \in Nat /\ z \in Nat \ {0}
    <3>1. m(i - 1) \in Nat /\ m(i - 1) < left /\ m(i) \in Nat /\ m(i) = m(i - 1) + c
      BY <1>7
    <3>2. AtMost(c, r.limit - (r.next + m(i - 1))) \in Nat \ {0}
      BY <1>piece, <3>1
    <3>3. r.next + m(i - 1) \in Nat
      BY <1>1, <3>1
    <3>. QED BY <3>2, <3>3
  <2>2. S[i] = [offset |-> a, size |-> z, bytes |-> <<>>, future |-> "asked"]
    BY <1>2 DEF RequestChunk
  <2>. HIDE DEF a, z
  <2>3. /\ S[i] \in ReadRequest /\ S[i].bytes = <<>> /\ S[i].future = "asked"
        /\ S[i].offset = a /\ S[i].size = z
    BY <2>1, <2>2 DEF ReadRequest
  <2>. QED BY <2>3 DEF a, z
<1>9. S \in Seq(ReadRequest) /\ Len(S) = n
  <2>. DEFINE f(i) == RequestChunk(At(i), AtMost(c, r.limit - At(i)))
  <2>1. S = [i \in 1 .. n |-> f(i)]
    BY <1>2
  <2>. HIDE DEF f
  <2>2. \A i \in 1 .. n : S[i] = f(i) /\ S[i] \in ReadRequest
    BY <1>8, <2>1
  <2>3. \A i \in 1 .. n : f(i) \in ReadRequest
    BY <2>2
  <2>. QED BY <1>5, <2>1, <2>3
<1>10. m(n) \in Nat /\ Ahead(r) = AtMost(r.next + m(n), r.limit)
  BY <1>3, <1>5, <1>6, <1>9
<1>11. Ahead(r) \in Nat /\ Ahead(r) <= r.limit
  BY <1>1, <1>10 DEF AtMost
<1>12. n > 0 => S[1].offset = r.next
  <2>1. SUFFICES ASSUME n > 0 PROVE S[1].offset = r.next
    OBVIOUS
  <2>2. 1 \in 1 .. n
    BY <1>5, <2>1
  <2>3. S[1].offset = r.next + m(1 - 1)
    BY <1>8, <2>2
  <2>4. m(1 - 1) = 0
    BY <1>6
  <2>. QED BY <1>1, <2>3, <2>4
<1>13. n = 0 => Ahead(r) = r.next
  <2>1. SUFFICES ASSUME n = 0 PROVE Ahead(r) = r.next
    OBVIOUS
  <2>2. m(n) = 0
    BY <1>6, <2>1
  <2>. QED BY <1>1, <1>10, <2>2 DEF AtMost
<1>14. ASSUME NEW i \in 1 .. n
       PROVE  (IF i = n THEN Ahead(r) ELSE S[i + 1].offset) = S[i].offset + S[i].size
  <2>1. /\ m(i - 1) \in Nat /\ m(i - 1) < left
        /\ m(i) \in Nat /\ m(i) = m(i - 1) + c
        /\ i < n => m(i) < left
    BY <1>7
  <2>2. S[i].offset = r.next + m(i - 1) /\ S[i].size = AtMost(c, r.limit - (r.next + m(i - 1)))
    BY <1>8
  <2>3. CASE i = n
    <3>1. Ahead(r) = AtMost(r.next + m(i), r.limit)
      BY <1>10, <2>3
    <3>2. AtMost(r.next + m(i), r.limit) = (r.next + m(i - 1)) + AtMost(c, r.limit - (r.next + m(i - 1)))
      BY <1>piece, <2>1
    <3>. QED BY <2>2, <2>3, <3>1, <3>2
  <2>4. CASE i # n
    <3>1. i + 1 \in 1 .. n /\ i < n /\ (i + 1) - 1 = i
      BY <1>5, <2>4
    <3>2. S[i + 1].offset = r.next + m((i + 1) - 1)
      BY <1>8, <3>1
    <3>3. S[i + 1].offset = r.next + m(i)
      BY <3>1, <3>2
    <3>4. AtMost(c, r.limit - (r.next + m(i - 1))) = c
      BY <1>piece, <2>1, <3>1
    <3>. QED BY <1>1, <2>1, <2>2, <2>4, <3>3, <3>4
  <2>. QED BY <2>3, <2>4
<1>15. r.requests = <<>> /\ r.next < r.limit => n > 0
  <2>1. SUFFICES ASSUME r.requests = <<>>, r.next < r.limit PROVE n > 0
    OBVIOUS
  <2>2. left > 0 /\ room > 0
    BY <1>1, <2>1
  <2>3. q # 0
    BY <1>1, <1>4, <1>6, <2>2
  <2>. QED BY <1>1, <1>4, <1>5, <2>2, <2>3
<1>16. n <= ReadAhead - Len(r.requests)
  BY <1>5 DEF room
<1>. QED BY <1>8, <1>9, <1>11, <1>12, <1>13, <1>14, <1>15, <1>16 DEF S

(* The requests of a window, polled, with those it makes for what follows. *)
AllPolled(r) == [i \in DOMAIN r.requests |-> Polled(r.requests[i])]
Requested(r) == [r EXCEPT !.requests = AllPolled(r) \o Scheduled(r), !.next = Ahead(r)]

LEMMA WindowMoves ==
  ASSUME NEW r \in FileReader, Window(r)
  PROVE  /\ Requested(r) \in FileReader /\ Window(Requested(r))
         /\ Edge(Requested(r), 1) = Edge(r, 1)
         /\ Requested(r).current = r.current /\ Requested(r).eof = r.eof /\ Requested(r).limit = r.limit
         /\ Requested(r).requests = <<>> => r.next = r.limit /\ r.requests = <<>>
<1>. DEFINE P == AllPolled(r)
            S == Scheduled(r)
            Q == P \o S
            n == Len(r.requests)
            w == Requested(r)
            next == Ahead(r)
<1>1. /\ r.requests \in Seq(ReadRequest) /\ n \in Nat /\ n <= ReadAhead /\ ReadAhead \in Nat
      /\ DOMAIN r.requests = 1 .. n
      /\ r.next \in Nat /\ r.limit \in Nat /\ r.next <= r.limit
  BY DownloadsAssumption DEF FileReader, Window
<1>2. ASSUME NEW i \in 1 .. n
      PROVE  /\ P[i] \in ReadRequest /\ Answered(P[i])
             /\ P[i].offset = r.requests[i].offset /\ P[i].size = r.requests[i].size
  <2>1. r.requests[i] \in ReadRequest /\ Answered(r.requests[i])
    BY <1>1 DEF Window
  <2>2. P[i] = Polled(r.requests[i])
    BY <1>1 DEF AllPolled
  <2>. QED BY <2>1, <2>2, PolledKeeps
<1>3. P \in Seq(ReadRequest) /\ Len(P) = n
  <2>1. P = [i \in 1 .. n |-> Polled(r.requests[i])]
    BY <1>1 DEF AllPolled
  <2>2. \A i \in 1 .. n : Polled(r.requests[i]) \in ReadRequest
    BY <1>2, <2>1
  <2>. HIDE DEF n, P
  <2>. QED BY <1>1, <2>1, <2>2
<1>4. /\ S \in Seq(ReadRequest) /\ Len(S) \in Nat /\ Len(S) <= ReadAhead - n
      /\ \A i \in 1 .. Len(S) : S[i].bytes = <<>> /\ S[i].future = "asked"
      /\ Len(S) > 0 => S[1].offset = r.next
      /\ \A i \in 1 .. Len(S) : (IF i = Len(S) THEN next ELSE S[i + 1].offset) = S[i].offset + S[i].size
      /\ Len(S) = 0 => next = r.next
      /\ next \in Nat /\ next <= r.limit
      /\ r.requests = <<>> /\ r.next < r.limit => Len(S) > 0
  <2>1. S \in Seq(ReadRequest) /\ Len(S) <= ReadAhead - n
    BY ScheduledAre
  <2>2. Len(S) \in Nat
    BY <2>1
  <2>. QED BY <2>1, <2>2, ScheduledAre
<1>5. ASSUME NEW i \in 1 .. n PROVE (IF i = n THEN r.next ELSE r.requests[i + 1].offset) = r.requests[i].offset + r.requests[i].size
  <2>1. Edge(r, i + 1) = r.requests[i].offset + r.requests[i].size
    BY DEF Window, Adjoin
  <2>. QED BY <1>1, <2>1 DEF Edge
<1>6. /\ w \in FileReader
      /\ w.requests = Q /\ w.next = next /\ w.chunk = r.chunk /\ w.limit = r.limit
      /\ w.current = r.current /\ w.eof = r.eof
  <2>1. Q \in Seq(ReadRequest)
    BY <1>3, <1>4, ConcatProperties
  <2>. HIDE DEF Q, next
  <2>2. w = [r EXCEPT !.requests = Q, !.next = next]
    BY DEF Requested, Q, next
  <2>. QED BY <2>1, <2>2, <1>4 DEF FileReader
<1>. HIDE DEF P, S, n, w, next
<1>7. /\ Q \in Seq(ReadRequest) /\ Len(Q) = n + Len(S)
      /\ \A i \in 1 .. n + Len(S) : Q[i] = IF i <= n THEN P[i] ELSE S[i - n]
  BY <1>3, <1>4, ConcatProperties
<1>. HIDE DEF Q
<1>8. ASSUME NEW i \in 1 .. Len(Q) PROVE Answered(Q[i])
  <2>1. CASE i <= n
    BY <1>1, <1>2, <1>7, <2>1
  <2>2. CASE ~(i <= n)
    <3>1. i - n \in 1 .. Len(S) /\ Q[i] = S[i - n]
      BY <1>1, <1>4, <1>7, <2>2
    <3>2. Q[i] \in ReadRequest /\ Q[i].bytes = <<>> /\ Q[i].future = "asked"
      BY <1>4, <1>7, <3>1
    <3>3. Q[i].offset \in Nat /\ Q[i].size \in Nat \ {0} /\ Len(Q[i].bytes) = 0
      BY <3>2 DEF ReadRequest
    <3>4. Q[i].bytes = Positions(Q[i].offset, 0)
      BY <3>2 DEF Positions
    <3>. QED BY <3>2, <3>3, <3>4 DEF Answered
  <2>. QED BY <2>1, <2>2
<1>9. ASSUME NEW i \in 1 .. Len(Q)
      PROVE  (IF i = Len(Q) THEN next ELSE Q[i + 1].offset) = Q[i].offset + Q[i].size
  <2>1. CASE i < n
    <3>1. i \in 1 .. n /\ i + 1 \in 1 .. n /\ i # n /\ i # Len(Q)
      BY <1>1, <1>4, <1>7, <2>1
    <3>2. Q[i] = P[i] /\ Q[i + 1] = P[i + 1]
      BY <1>1, <1>4, <1>7, <3>1
    <3>. QED BY <1>2, <1>5, <3>1, <3>2
  <2>2. CASE i = n /\ Len(S) = 0
    <3>1. i \in 1 .. n /\ i = Len(Q) /\ Q[i] = P[i]
      BY <1>1, <1>4, <1>7, <2>2
    <3>. QED BY <1>2, <1>4, <1>5, <2>2, <3>1
  <2>3. CASE i = n /\ Len(S) > 0
    <3>1. i \in 1 .. n /\ i # Len(Q) /\ i + 1 \in 1 .. Len(Q) /\ Q[i] = P[i] /\ Q[i + 1] = S[1]
      BY <1>1, <1>4, <1>7, <2>3
    <3>2. r.next = r.requests[i].offset + r.requests[i].size
      BY <1>5, <2>3, <3>1
    <3>3. Q[i].offset = r.requests[i].offset /\ Q[i].size = r.requests[i].size
      BY <1>2, <3>1
    <3>4. Q[i + 1].offset = r.next
      BY <1>4, <2>3, <3>1
    <3>. QED BY <3>1, <3>2, <3>3, <3>4
  <2>4. CASE i > n
    <3>. DEFINE j == i - n
    <3>1. j \in 1 .. Len(S) /\ Q[i] = S[j] /\ (i = Len(Q) <=> j = Len(S))
      <4>1. i \in 1 .. n + Len(S) /\ ~(i <= n) /\ i - n \in 1 .. Len(S)
        BY <1>1, <1>4, <1>7, <2>4
      <4>2. i = Len(Q) <=> i - n = Len(S)
        BY <1>1, <1>4, <1>7
      <4>. QED BY <1>7, <4>1, <4>2
    <3>2. i # Len(Q) => Q[i + 1] = S[j + 1]
      <4>1. SUFFICES ASSUME i # Len(Q) PROVE Q[i + 1] = S[j + 1]
        OBVIOUS
      <4>2. i + 1 \in 1 .. n + Len(S) /\ ~(i + 1 <= n) /\ (i + 1) - n = j + 1
        BY <1>1, <1>4, <1>7, <2>4, <4>1
      <4>. QED BY <1>7, <4>2
    <3>. HIDE DEF j
    <3>. QED BY <1>4, <3>1, <3>2
  <2>. QED BY <1>1, <1>4, <2>1, <2>2, <2>3, <2>4
<1>10. Adjoin(w)
  <2>1. ASSUME NEW i \in 1 .. Len(Q) PROVE Edge(w, i + 1) = Q[i].offset + Q[i].size
    <3>1. Edge(w, i + 1) = IF i = Len(Q) THEN next ELSE Q[i + 1].offset
      BY <1>1, <1>4, <1>6, <1>7 DEF Edge
    <3>. QED BY <1>9, <3>1
  <2>. QED BY <1>6, <2>1 DEF Adjoin
<1>11. Window(w)
  <2>1. Len(w.requests) <= ReadAhead
    BY <1>1, <1>4, <1>6, <1>7
  <2>. QED BY <1>4, <1>6, <1>8, <1>10, <2>1 DEF Window
<1>12. Edge(w, 1) = Edge(r, 1)
  <2>1. CASE n > 0
    <3>1. 1 \in 1 .. n /\ Q[1] = P[1] /\ Len(Q) # 0
      BY <1>1, <1>4, <1>7, <2>1
    <3>2. Edge(w, 1) = Q[1].offset
      BY <1>6, <1>7, <1>1, <1>4, <3>1 DEF Edge
    <3>3. Edge(r, 1) = r.requests[1].offset
      BY <1>1, <2>1 DEF Edge, n
    <3>. QED BY <1>2, <3>1, <3>2, <3>3
  <2>2. CASE n = 0
    <3>1. Edge(r, 1) = r.next
      BY <2>2 DEF Edge, n
    <3>2. CASE Len(S) = 0
      <4>1. Edge(w, 1) = next
        BY <1>6, <1>7, <2>2, <3>2 DEF Edge
      <4>. QED BY <1>4, <3>1, <3>2, <4>1
    <3>3. CASE Len(S) > 0
      <4>1. 1 \in 1 .. n + Len(S) /\ ~(1 <= n) /\ 1 - n = 1 /\ Len(Q) # 0
        BY <1>4, <1>7, <2>2, <3>3
      <4>2. Q[1] = S[1]
        BY <1>7, <4>1
      <4>3. Edge(w, 1) = Q[1].offset
        BY <1>6, <1>7, <1>4, <4>1 DEF Edge
      <4>. QED BY <1>4, <3>1, <3>3, <4>2, <4>3
    <3>. QED BY <1>4, <3>2, <3>3
  <2>. QED BY <1>1, <2>1, <2>2
<1>13. w.requests = <<>> => r.next = r.limit /\ r.requests = <<>>
  <2>1. SUFFICES ASSUME w.requests = <<>> PROVE r.next = r.limit /\ r.requests = <<>>
    OBVIOUS
  <2>2. n = 0 /\ Len(S) = 0
    BY <1>1, <1>4, <1>6, <1>7, <2>1
  <2>3. r.requests = <<>>
    BY <1>1, <2>2 DEF n
  <2>. QED BY <1>1, <1>4, <2>2, <2>3
<1>. QED BY <1>6, <1>11, <1>12, <1>13 DEF w

(* A window without its oldest request, which was answered in full. *)
Passed(w) == [w EXCEPT !.requests = RemoveAt(w.requests, 1), !.current = w.requests[1].bytes]

LEMMA WindowPasses ==
  ASSUME NEW w \in FileReader, Window(w), w.requests # <<>>,
         Len(w.requests[1].bytes) = w.requests[1].size
  PROVE  /\ Passed(w) \in FileReader /\ Window(Passed(w))
         /\ Edge(w, 1) = w.requests[1].offset
         /\ Edge(Passed(w), 1) = Edge(w, 1) + Len(w.requests[1].bytes)
         /\ Passed(w).current = w.requests[1].bytes /\ Passed(w).eof = w.eof
<1>. DEFINE R == w.requests
            T == RemoveAt(R, 1)
            n == Len(R)
            v == Passed(w)
<1>1. R \in Seq(ReadRequest) /\ n \in Nat \ {0} /\ n <= ReadAhead /\ ReadAhead \in Nat
  BY DownloadsAssumption, EmptySeq DEF FileReader, Window
<1>2. 1 \in 1 .. n /\ R[1] \in ReadRequest
  BY <1>1
<1>3. T \in Seq(ReadRequest) /\ Len(T) = n - 1 /\ \A i \in 1 .. n - 1 : T[i] = R[i + 1]
  BY <1>1, WithoutFirst
<1>4. /\ v \in FileReader
      /\ v.requests = T /\ v.next = w.next /\ v.chunk = w.chunk /\ v.limit = w.limit
      /\ v.current = R[1].bytes /\ v.eof = w.eof
  <2>1. R[1].bytes \in Seq(Nat)
    BY <1>2 DEF ReadRequest
  <2>. HIDE DEF T, R
  <2>2. v = [w EXCEPT !.requests = T, !.current = R[1].bytes]
    BY DEF Passed, T, R
  <2>. QED BY <1>3, <2>1, <2>2 DEF FileReader
<1>5. ASSUME NEW i \in 1 .. n PROVE Edge(w, i + 1) = R[i].offset + R[i].size /\ Answered(R[i])
  BY DEF Window, Adjoin
<1>6. Edge(w, 1) = R[1].offset
  BY <1>1 DEF Edge
<1>. HIDE DEF T, v
<1>7. ASSUME NEW i \in 1 .. n PROVE Edge(v, i) = Edge(w, i + 1)
  <2>1. CASE i = n
    BY <1>1, <1>3, <1>4, <2>1 DEF Edge
  <2>2. CASE i # n
    <3>1. i \in 1 .. n - 1 /\ i # Len(T) + 1 /\ i + 1 # n + 1
      BY <1>1, <1>3, <2>2
    <3>. QED BY <1>3, <1>4, <3>1 DEF Edge
  <2>. QED BY <2>1, <2>2
<1>8. Window(v)
  <2>1. ASSUME NEW i \in 1 .. n - 1 PROVE Edge(v, i + 1) = T[i].offset + T[i].size /\ Answered(T[i])
    <3>1. i + 1 \in 1 .. n /\ T[i] = R[i + 1]
      BY <1>1, <1>3
    <3>. QED BY <1>5, <1>7, <3>1
  <2>2. Adjoin(v)
    BY <1>3, <1>4, <2>1 DEF Adjoin
  <2>3. Len(v.requests) <= ReadAhead
    BY <1>1, <1>3, <1>4
  <2>. QED BY <1>3, <1>4, <2>1, <2>2, <2>3 DEF Window
<1>9. Edge(v, 1) = R[1].offset + Len(R[1].bytes)
  BY <1>2, <1>5, <1>7
<1>. QED BY <1>4, <1>6, <1>8, <1>9 DEF v

(* A request with what an answer brings it. *)
Brought(q, future, count) ==
    [q EXCEPT !.future = future, !.bytes = q.bytes \o Positions(q.offset + Len(q.bytes), count)]

LEMMA BroughtIsAnswered ==
  ASSUME NEW q \in ReadRequest, Answered(q), NEW f \in {"eof", "data", "failed"}, NEW m \in Nat,
         m <= q.size - Len(q.bytes),
         m > 0 => q.offset + Len(q.bytes) + m <= size,
         f = "eof" => q.offset + Len(q.bytes) >= opened /\ m = 0
  PROVE  /\ Brought(q, f, m) \in ReadRequest /\ Answered(Brought(q, f, m))
         /\ Brought(q, f, m).offset = q.offset /\ Brought(q, f, m).size = q.size
<1>. DEFINE n == Len(q.bytes)
            all == q.bytes \o Positions(q.offset + n, m)
            b == Brought(q, f, m)
<1>1. q.offset \in Nat /\ q.size \in Nat \ {0} /\ n \in Nat /\ q.bytes = Positions(q.offset, n) /\ n <= q.size
  BY DEF ReadRequest, Answered
<1>2. all = Positions(q.offset, n + m)
  <2>1. Positions(q.offset, n) \o Positions(q.offset + n, m) = Positions(q.offset, n + m)
    BY <1>1, PositionsJoin
  <2>. QED BY <1>1, <2>1
<1>3. all \in Seq(Nat) /\ Len(all) = n + m
  <2>1. n + m \in Nat
    BY <1>1
  <2>. HIDE DEF all, n
  <2>. QED BY <1>1, <1>2, <2>1, PositionsAre
<1>4. b = [q EXCEPT !.future = f, !.bytes = all]
  BY DEF Brought
<1>. HIDE DEF all, b, n
<1>5. b \in ReadRequest /\ b.offset = q.offset /\ b.size = q.size /\ b.bytes = all /\ b.future = f
  BY <1>3, <1>4 DEF ReadRequest
<1>6. b.bytes = Positions(b.offset, Len(b.bytes))
  BY <1>2, <1>3, <1>5
<1>7. /\ n > 0 => q.offset + n <= size
      /\ m <= q.size - n
      /\ m > 0 => q.offset + n + m <= size
      /\ f = "eof" => q.offset + n >= opened /\ m = 0
  BY DEF Answered, n
<1>8. Len(b.bytes) <= b.size /\ (Len(b.bytes) > 0 => b.offset + Len(b.bytes) <= size)
  <2>1. Len(b.bytes) <= b.size
    BY <1>1, <1>3, <1>5, <1>7
  <2>2. CASE m = 0
    <3>1. Len(b.bytes) = n
      BY <1>1, <1>3, <1>5, <2>2
    <3>. QED BY <1>5, <1>7, <2>1, <3>1
  <2>3. CASE m > 0
    <3>1. b.offset + Len(b.bytes) = q.offset + n + m
      <4>1. b.offset + Len(b.bytes) = q.offset + (n + m)
        BY <1>3, <1>5
      <4>. QED BY <1>1, <4>1
    <3>. QED BY <1>7, <2>1, <2>3, <3>1
  <2>. QED BY <2>2, <2>3
<1>9. f = "eof" => b.offset + Len(b.bytes) >= opened
  BY <1>1, <1>3, <1>5, <1>7
<1>10. Answered(b)
  BY <1>5, <1>6, <1>8, <1>9 DEF Answered
<1>. QED BY <1>5, <1>10 DEF b

(* A window in which one request has been answered. *)
Putting(r, i, q) == [r EXCEPT !.requests = [r.requests EXCEPT ![i] = q]]

LEMMA WindowIsAnswered ==
  ASSUME NEW r \in FileReader, NEW i \in DOMAIN r.requests, NEW q \in ReadRequest
  PROVE  /\ Putting(r, i, q) \in FileReader
         /\ Putting(r, i, q).current = r.current /\ Putting(r, i, q).eof = r.eof
         /\ Window(r) /\ Answered(q) /\ q.offset = r.requests[i].offset /\ q.size = r.requests[i].size
              => Window(Putting(r, i, q)) /\ Edge(Putting(r, i, q), 1) = Edge(r, 1)
<1>. DEFINE R == r.requests
            T == [R EXCEPT ![i] = q]
            v == Putting(r, i, q)
            n == Len(R)
<1>1. R \in Seq(ReadRequest) /\ n \in Nat /\ i \in 1 .. n
  BY DEF FileReader
<1>2. T \in Seq(ReadRequest) /\ Len(T) = n /\ \A j \in 1 .. n : T[j] = IF j = i THEN q ELSE R[j]
  BY <1>1
<1>3. v \in FileReader /\ v.requests = T /\ v.next = r.next /\ v.chunk = r.chunk /\ v.limit = r.limit
      /\ v.current = r.current /\ v.eof = r.eof
  <2>. HIDE DEF T
  <2>1. v = [r EXCEPT !.requests = T]
    BY DEF Putting, T
  <2>. QED BY <1>2, <2>1 DEF FileReader
<1>. HIDE DEF T, v
<1>4. ASSUME Window(r), Answered(q), q.offset = R[i].offset, q.size = R[i].size
      PROVE  Window(v) /\ Edge(v, 1) = Edge(r, 1)
  <2>1. \A j \in 1 .. n : T[j].offset = R[j].offset /\ T[j].size = R[j].size
    BY <1>2, <1>4
  <2>2. ASSUME NEW j \in 1 .. n + 1 PROVE Edge(v, j) = Edge(r, j)
    <3>1. CASE j = n + 1
      BY <1>2, <1>3, <3>1 DEF Edge
    <3>2. CASE j # n + 1
      <4>1. j \in 1 .. n
        BY <1>1, <3>2
      <4>2. Edge(v, j) = T[j].offset /\ Edge(r, j) = R[j].offset
        BY <1>2, <1>3, <3>2 DEF Edge
      <4>. QED BY <2>1, <4>1, <4>2
    <3>. QED BY <3>1, <3>2
  <2>3. ASSUME NEW j \in 1 .. n PROVE Edge(v, j + 1) = T[j].offset + T[j].size /\ Answered(T[j])
    <3>1. Edge(r, j + 1) = R[j].offset + R[j].size /\ Answered(R[j])
      BY <1>4 DEF Window, Adjoin
    <3>2. j + 1 \in 1 .. n + 1
      BY <1>1
    <3>3. Answered(T[j])
      BY <1>2, <1>4, <3>1
    <3>. QED BY <2>1, <2>2, <3>1, <3>2, <3>3
  <2>4. Adjoin(v)
    BY <1>2, <1>3, <2>3 DEF Adjoin
  <2>5. Edge(v, 1) = Edge(r, 1)
    BY <1>1, <2>2
  <2>. QED BY <1>2, <1>3, <1>4, <2>3, <2>4, <2>5 DEF Window
<1>. QED BY <1>3, <1>4 DEF v

-----------------------------------------------------------------------------
(* The steps of a file read *)

(* An answer arrives. *)
LEMMA AnsweringKeeps ==
  ASSUME DownloadInv, NEW i \in DOMAIN reader.requests, Answer(i)
  PROVE  DownloadInv'
<1>. DEFINE q == reader.requests[i]
<1>1. reader \in FileReader /\ q \in ReadRequest /\ size \in Nat /\ opened \in Nat /\ opened <= size
      /\ taken \in Seq(Nat)
  BY DownloadsAssumption DEF DownloadInv, DownloadTypes, FileReader
<1>2. \E f \in {"eof", "data", "failed"}, m \in Nat :
         /\ reader' = Putting(reader, i, Brought(q, f, m))
         /\ m <= q.size - Len(q.bytes) \/ m = 0
         /\ m > 0 => q.offset + Len(q.bytes) + m <= size
         /\ f = "eof" => q.offset + Len(q.bytes) >= size /\ m = 0
  <2>. DEFINE Settle(f, m) ==
            reader' = [reader EXCEPT !.requests[i].future = f,
                                     !.requests[i].bytes = @ \o Positions(q.offset + Len(q.bytes), m)]
  <2>1. ASSUME NEW f, NEW m, Settle(f, m) PROVE reader' = Putting(reader, i, Brought(q, f, m))
    BY <1>1, <2>1 DEF Putting, Brought, FileReader, ReadRequest
  <2>2. \/ q.offset + Len(q.bytes) >= size /\ Settle("eof", 0)
        \/ \E m \in 1 .. q.size - Len(q.bytes) : q.offset + Len(q.bytes) + m <= size /\ Settle("data", m)
        \/ Settle("failed", 0)
    BY DEF Answer
  <2>. HIDE DEF Settle, q
  <2>. QED BY <2>1, <2>2
<1>3. PICK f \in {"eof", "data", "failed"}, m \in Nat :
         /\ reader' = Putting(reader, i, Brought(q, f, m))
         /\ m <= q.size - Len(q.bytes) \/ m = 0
         /\ m > 0 => q.offset + Len(q.bytes) + m <= size
         /\ f = "eof" => q.offset + Len(q.bytes) >= size /\ m = 0
  BY <1>2
<1>4. UNCHANGED <<size, opened, taken, outcome>>
  BY DEF Answer
<1>. DEFINE b == Brought(q, f, m)
<1>5. b \in ReadRequest
  <2>1. q.bytes \in Seq(Nat) /\ q.offset + Len(q.bytes) \in Nat
    BY <1>1 DEF ReadRequest
  <2>2. q.bytes \o Positions(q.offset + Len(q.bytes), m) \in Seq(Nat)
    BY <2>1, PositionsAre, ConcatProperties
  <2>. QED BY <1>1, <2>2 DEF Brought, ReadRequest
<1>6. reader' \in FileReader /\ reader'.current = reader.current /\ reader'.eof = reader.eof
  BY <1>1, <1>3, <1>5, WindowIsAnswered
<1>7. ASSUME outcome = "reading" PROVE Delivered'
  <2>1. Delivered
    BY <1>7 DEF DownloadInv
  <2>2. ASSUME ~reader.eof PROVE Window(reader)' /\ Edge(reader, 1)' = Edge(reader, 1)
    <3>1. Window(reader) /\ Answered(q)
      <4>1. Window(reader) /\ i \in 1 .. Len(reader.requests)
        BY <1>1, <2>1, <2>2 DEF Delivered, FileReader
      <4>. QED BY <4>1 DEF Window
    <3>2. m <= q.size - Len(q.bytes)
      <4>1. Len(q.bytes) <= q.size /\ q.size \in Nat /\ Len(q.bytes) \in Nat
        BY <1>1, <3>1 DEF Answered, ReadRequest
      <4>. QED BY <1>3, <4>1
    <3>3. f = "eof" => q.offset + Len(q.bytes) >= opened /\ m = 0
      <4>1. q.offset + Len(q.bytes) \in Nat
        BY <1>1 DEF ReadRequest
      <4>. QED BY <1>1, <1>3, <4>1
    <3>4. Answered(b) /\ b.offset = q.offset /\ b.size = q.size
      BY <1>1, <1>3, <3>1, <3>2, <3>3, BroughtIsAnswered
    <3>. DEFINE v == Putting(reader, i, b)
    <3>5. Window(v) /\ Edge(v, 1) = Edge(reader, 1)
      BY <1>1, <1>5, <3>1, <3>4, WindowIsAnswered
    <3>. HIDE DEF v
    <3>6. reader' = v
      BY <1>3 DEF v
    <3>7. Window(reader)'
      BY <1>4, <3>5, <3>6 DEF Window, Adjoin, Edge, Answered
    <3>8. Edge(reader, 1)' = Edge(reader, 1)
      BY <3>5, <3>6 DEF Edge
    <3>. QED BY <3>7, <3>8
  <2>3. Place' = Place
    BY <1>4, <1>6 DEF Place
  <2>. QED BY <1>4, <1>6, <2>1, <2>2, <2>3 DEF Delivered
<1>. QED BY <1>4, <1>6, <1>7 DEF DownloadInv, DownloadTypes, OutcomeTellsFile

(* The window moves on, and what its oldest request was answered is delivered. *)
LEMMA AdvanceKeeps ==
  ASSUME DownloadInv, Advance
  PROVE  DownloadInv'
<1>. DEFINE w == Requested(reader)
            q == w.requests[1]
<1>1. /\ reader \in FileReader /\ taken \in Seq(Nat) /\ Len(taken) \in Nat /\ Len(taken) <= MaxBytes
      /\ size \in Nat /\ size <= MaxFile /\ opened \in Nat /\ opened <= size
      /\ MaxBytes \in Nat /\ MaxFile \in Nat
  BY DownloadsAssumption DEF DownloadInv, DownloadTypes
<1>2. /\ outcome = "reading" /\ reader.current = <<>> /\ ~reader.eof
      /\ UNCHANGED <<size, opened, taken>>
  BY DEF Advance
<1>3. Window(reader) /\ Edge(reader, 1) = Len(taken) /\ Len(taken) <= size
  <2>1. Delivered
    BY <1>2 DEF DownloadInv
  <2>2. Place = Len(taken)
    BY <1>1, <1>2 DEF Place
  <2>. QED BY <1>2, <2>1, <2>2 DEF Delivered
<1>4. /\ w \in FileReader /\ Window(w) /\ Edge(w, 1) = Len(taken)
      /\ w.current = <<>> /\ ~w.eof
      /\ w.requests = <<>> => reader.next = reader.limit /\ reader.requests = <<>>
  BY <1>1, <1>2, <1>3, WindowMoves
<1>5. w.requests # <<>>
  <2>1. SUFFICES ASSUME w.requests = <<>> PROVE FALSE
    OBVIOUS
  <2>2. reader.limit = Len(taken)
    BY <1>3, <1>4, <2>1 DEF Edge
  <2>. QED BY <1>1, <1>3, <2>2 DEF Window
<1>6. Len(w.requests) \in Nat \ {0} /\ q \in ReadRequest /\ Answered(q) /\ q.offset = Len(taken)
  <2>1. w.requests \in Seq(ReadRequest)
    BY <1>4 DEF FileReader
  <2>2. Len(w.requests) \in Nat \ {0} /\ 1 \in 1 .. Len(w.requests)
    BY <1>5, <2>1, EmptySeq
  <2>3. q \in ReadRequest /\ Answered(q)
    BY <1>4, <2>1, <2>2 DEF Window
  <2>4. Edge(w, 1) = q.offset
    BY <2>2 DEF Edge
  <2>. QED BY <1>4, <2>2, <2>3, <2>4
<1>7. \/ reader' = w /\ UNCHANGED outcome
      \/ reader' = Closed /\ outcome' = "RemoteIo"
      \/ /\ q.future = "done" /\ UNCHANGED outcome
         /\ reader' = IF Len(q.bytes) < q.size THEN [Closed EXCEPT !.current = q.bytes] ELSE Passed(w)
  <2>. DEFINE requests == [i \in DOMAIN reader.requests |-> Polled(reader.requests[i])] \o Scheduled(reader)
              scheduled == [reader EXCEPT !.requests = requests,
                                          !.next = AtMost(@ + Len(Scheduled(reader)) * reader.chunk, reader.limit)]
              i == Delivers(requests)
  <2>1. IF requests = <<>>
        THEN reader' = [scheduled EXCEPT !.eof = TRUE] /\ UNCHANGED outcome
        ELSE IF i = 0
        THEN reader' = scheduled /\ UNCHANGED outcome
        ELSE IF requests[i].future = "failed"
        THEN reader' = Closed /\ Ends("RemoteIo")
        ELSE /\ reader' = IF Len(requests[i].bytes) < requests[i].size
                          THEN [Closed EXCEPT !.current = requests[i].bytes]
                          ELSE [scheduled EXCEPT !.requests = RemoveAt(requests, i),
                                                 !.current = requests[i].bytes]
             /\ UNCHANGED outcome
    BY DEF Advance
  <2>2. scheduled = w
    BY DEF Requested, AllPolled, Ahead
  <2>3. w.requests = requests
    <3>1. w = [reader EXCEPT !.requests = AllPolled(reader) \o Scheduled(reader), !.next = Ahead(reader)]
      BY DEF Requested
    <3>2. requests = AllPolled(reader) \o Scheduled(reader)
      BY DEF AllPolled
    <3>. HIDE DEF requests, scheduled
    <3>. QED BY <1>1, <3>1, <3>2 DEF FileReader
  <2>4. i = 0 \/ (i = 1 /\ q.future \in {"done", "failed"})
    BY <2>3 DEF Delivers
  <2>. HIDE DEF requests, scheduled, i, w
  <2>5. requests # <<>>
    BY <1>5, <2>3
  <2>6. CASE i = 0
    BY <2>1, <2>2, <2>5, <2>6
  <2>7. CASE i = 1 /\ q.future \in {"done", "failed"}
    <3>1. requests[i] = q
      BY <2>3, <2>7
    <3>2. CASE q.future = "failed"
      BY <2>1, <2>5, <2>7, <3>1, <3>2 DEF Ends
    <3>3. CASE q.future = "done"
      <4>1. /\ UNCHANGED outcome
            /\ reader' = IF Len(q.bytes) < q.size
                         THEN [Closed EXCEPT !.current = q.bytes]
                         ELSE [w EXCEPT !.requests = RemoveAt(w.requests, 1), !.current = q.bytes]
        BY <2>1, <2>2, <2>3, <2>5, <2>7, <3>1, <3>3
      <4>. QED BY <3>3, <4>1 DEF Passed
    <3>. QED BY <2>7, <3>2, <3>3
  <2>. QED BY <2>4, <2>6, <2>7
<1>. HIDE DEF w, q
<1>8. Closed \in FileReader
  BY DEF Closed, FileReader
<1>9. CASE reader' = w /\ UNCHANGED outcome
  <2>1. Window(reader)' /\ Edge(reader, 1)' = Len(taken)
    BY <1>2, <1>4, <1>9 DEF Window, Adjoin, Edge, Answered
  <2>2. Place' = Len(taken)
    BY <1>1, <1>2, <1>4, <1>9 DEF Place
  <2>3. (reader.current)' = Positions(Len(taken), Len(reader.current))'
    BY <1>1, <1>4, <1>9 DEF Positions
  <2>4. Delivered'
    BY <1>2, <1>3, <1>4, <1>9, <2>1, <2>2, <2>3 DEF Delivered
  <2>. QED BY <1>2, <1>4, <1>9, <2>4 DEF DownloadInv, DownloadTypes, OutcomeTellsFile
<1>10. CASE reader' = Closed /\ outcome' = "RemoteIo"
  BY <1>2, <1>8, <1>10 DEF DownloadInv, DownloadTypes, OutcomeTellsFile
<1>11. CASE /\ q.future = "done" /\ UNCHANGED outcome
            /\ reader' = IF Len(q.bytes) < q.size THEN [Closed EXCEPT !.current = q.bytes] ELSE Passed(w)
  <2>1. /\ q.bytes \in Seq(Nat) /\ Len(q.bytes) \in Nat /\ q.size \in Nat /\ Len(q.bytes) <= q.size
        /\ q.bytes = Positions(Len(taken), Len(q.bytes))
        /\ Len(taken) + Len(q.bytes) <= size
        /\ Len(q.bytes) = q.size \/ Len(taken) + Len(q.bytes) >= opened
    BY <1>1, <1>3, <1>6, <1>11 DEF Answered, ReadRequest
  <2>2. /\ reader' \in FileReader /\ reader'.current = q.bytes
        /\ IF reader'.eof THEN Len(taken) + Len(q.bytes) >= opened
           ELSE Window(reader') /\ Edge(reader', 1) = Len(taken) + Len(q.bytes)
    <3>1. CASE Len(q.bytes) < q.size
      <4>1. reader' = [Closed EXCEPT !.current = q.bytes]
        BY <1>11, <3>1
      <4>2. reader' \in FileReader /\ reader'.current = q.bytes /\ reader'.eof
        BY <1>8, <2>1, <4>1 DEF FileReader, Closed
      <4>. QED BY <2>1, <3>1, <4>2
    <3>2. CASE ~(Len(q.bytes) < q.size)
      <4>1. reader' = Passed(w) /\ Len(q.bytes) = q.size
        BY <1>11, <2>1, <3>2
      <4>2. /\ Passed(w) \in FileReader /\ Window(Passed(w))
            /\ Edge(Passed(w), 1) = Edge(w, 1) + Len(q.bytes)
            /\ Passed(w).current = q.bytes /\ Passed(w).eof = w.eof
        BY <1>4, <1>5, <4>1, WindowPasses DEF q
      <4>. QED BY <1>4, <4>1, <4>2
    <3>. QED BY <3>1, <3>2
  <2>3. Place' = Len(taken) + Len(q.bytes)
    BY <1>2, <2>2 DEF Place
  <2>4. ~(reader.eof)' => Window(reader)' /\ Edge(reader, 1)' = Len(taken) + Len(q.bytes)
    BY <1>2, <2>2 DEF Window, Adjoin, Edge, Answered
  <2>5. Delivered'
    <3>1. (reader.current)' = Positions(Len(taken), Len(reader.current))'
      BY <1>2, <2>1, <2>2 DEF Positions
    <3>2. Place' <= size'
      BY <1>2, <2>1, <2>3
    <3>3. (reader.eof)' => Place' >= opened'
      BY <1>2, <2>2, <2>3
    <3>. QED BY <2>3, <2>4, <3>1, <3>2, <3>3 DEF Delivered
  <2>. QED BY <1>2, <1>11, <2>2, <2>5 DEF DownloadInv, DownloadTypes, OutcomeTellsFile
<1>. QED BY <1>7, <1>9, <1>10, <1>11

(* The sink takes what it has room for. *)
LEMMA TakingKeeps ==
  ASSUME DownloadInv, NEW count \in 1 .. ChunkBytes, Take(count)
  PROVE  DownloadInv'
<1>. DEFINE current == reader.current
            n == Len(current)
            t == Len(taken)
            part == SubSeq(current, 1, count)
            rest == SubSeq(current, count + 1, n)
<1>1. /\ reader \in FileReader /\ taken \in Seq(Nat) /\ t \in Nat /\ t <= MaxBytes
      /\ size \in Nat /\ size <= MaxFile /\ opened \in Nat /\ opened <= size
      /\ MaxBytes \in Nat /\ MaxFile \in Nat /\ current \in Seq(Nat) /\ n \in Nat
      /\ taken = Positions(0, t)
  BY DownloadsAssumption DEF DownloadInv, DownloadTypes, OutcomeTellsFile, FileReader
<1>2. /\ outcome = "reading" /\ count \in 1 .. n /\ UNCHANGED <<size, opened>>
      /\ reader' = [reader EXCEPT !.current = rest]
      /\ IF t + count > MaxBytes THEN outcome' = "TooLarge" /\ UNCHANGED taken
         ELSE taken' = taken \o part /\ UNCHANGED outcome
  BY DEF Take, Ends
<1>3. Delivered
  BY <1>2 DEF DownloadInv
<1>4. current = Positions(t, n) /\ t + n <= size
  BY <1>3 DEF Delivered, Place
<1>5. part = Positions(t, count) /\ rest = Positions(t + count, n - count)
  <2>1. count \in 0 .. n
    BY <1>2
  <2>2. /\ SubSeq(Positions(t, n), 1, count) = Positions(t, count)
        /\ SubSeq(Positions(t, n), count + 1, n) = Positions(t + count, n - count)
    <3>. HIDE DEF t, n
    <3>. QED BY <1>1, <2>1, PositionsSplit
  <2>. QED BY <1>4, <2>2
<1>6. rest \in Seq(Nat) /\ Len(rest) = n - count
  <2>. HIDE DEF rest, t, n
  <2>1. t + count \in Nat /\ n - count \in Nat
    <3>1. count \in 1 .. n
      BY <1>2
    <3>. QED BY <1>1, <3>1
  <2>. QED BY <1>5, <2>1, PositionsAre
<1>7. taken \o part = Positions(0, t + count) /\ taken \o part \in Seq(Nat) /\ Len(taken \o part) = t + count
  <2>1. count \in Nat /\ 0 + t = t /\ t + count \in Nat
    BY <1>1, <1>2
  <2>. HIDE DEF t, part
  <2>2. Positions(0, t) \o Positions(t, count) = Positions(0, t + count)
    <3>. DEFINE o == 0
    <3>1. o \in Nat /\ o + t = t
      BY <2>1
    <3>. HIDE DEF o
    <3>2. Positions(o, t) \o Positions(o + t, count) = Positions(o, t + count)
      BY <1>1, <2>1, <3>1, PositionsJoin
    <3>. QED BY <3>1, <3>2 DEF o
  <2>3. Positions(0, t + count) \in Seq(Nat) /\ Len(Positions(0, t + count)) = t + count
    BY <2>1, PositionsAre
  <2>. QED BY <1>1, <1>5, <2>1, <2>2, <2>3
<1>. HIDE DEF rest, part, current
<1>8. /\ reader' \in FileReader /\ reader'.current = rest /\ reader'.eof = reader.eof
      /\ reader'.next = reader.next /\ reader'.limit = reader.limit /\ reader'.chunk = reader.chunk
      /\ reader'.requests = reader.requests
  BY <1>1, <1>2, <1>6 DEF FileReader
<1>9. CASE t + count > MaxBytes
  <2>1. outcome' = "TooLarge" /\ UNCHANGED taken
    BY <1>2, <1>9
  <2>2. size > MaxBytes
    BY <1>1, <1>2, <1>4, <1>9
  <2>. QED BY <1>1, <1>2, <1>8, <2>1, <2>2 DEF DownloadInv, DownloadTypes, OutcomeTellsFile
<1>10. CASE ~(t + count > MaxBytes)
  <2>1. taken' = taken \o part /\ UNCHANGED outcome
    BY <1>2, <1>10
  <2>. DEFINE new == taken \o part
  <2>2. taken' \in Seq(Nat) /\ Len(taken') = t + count /\ taken' = Positions(0, Len(taken'))
    BY <1>7, <2>1
  <2>3. Place' = t + n
    <3>1. Place' = (t + count) + (n - count)
      BY <1>6, <1>8, <2>2 DEF Place
    <3>. QED BY <1>1, <1>2, <3>1
  <2>4. Place = t + n
    BY DEF Place, current
  <2>5. Window(reader)' <=> Window(reader)
    BY <1>2, <1>8 DEF Window, Adjoin, Edge, Answered
  <2>6. Edge(reader, 1)' = Edge(reader, 1)
    BY <1>8 DEF Edge
  <2>7. (reader.current)' = Positions(Len(taken), Len(reader.current))'
    <3>1. Positions(Len(taken), Len(reader.current))' = Positions(t + count, n - count)
      BY <1>6, <1>8, <2>2 DEF Positions
    <3>. QED BY <1>5, <1>8, <3>1
  <2>8. Delivered'
    BY <1>2, <1>3, <1>8, <2>3, <2>4, <2>5, <2>6, <2>7 DEF Delivered
  <2>9. Len(taken') <= MaxBytes
    BY <1>1, <1>2, <1>10, <2>2
  <2>10. taken' = Positions(0, Len(taken))'
    BY <2>2 DEF Positions
  <2>. QED BY <1>1, <1>2, <1>8, <2>1, <2>2, <2>8, <2>9, <2>10 DEF DownloadInv, DownloadTypes, OutcomeTellsFile
<1>. QED BY <1>9, <1>10

(* The file grows, the loop ends, or the call does, or another one comes. *)
LEMMA TurningKeeps ==
  ASSUME DownloadInv,
         \/ Grow \/ OpenRefused \/ Finish \/ Stop \/ BeginDownload
         \/ \E use \in {"download", "checksum"}, chunk \in 1 .. ChunkBytes : OpenFile(use, chunk)
  PROVE  DownloadInv'
<1>1. /\ reader \in FileReader /\ taken \in Seq(Nat) /\ Len(taken) \in Nat /\ Len(taken) <= MaxBytes
      /\ size \in 0 .. MaxFile /\ size \in Nat /\ opened \in Nat /\ opened <= size
      /\ MaxBytes \in Nat /\ MaxFile \in Nat /\ ChunkBytes \in Nat \ {0} /\ ReadAhead \in Nat \ {0}
  BY DownloadsAssumption DEF DownloadInv, DownloadTypes
<1>2. Closed \in FileReader /\ taken = Positions(0, Len(taken)) /\ Len(<<>>) = 0 /\ <<>> = Positions(0, 0)
  BY DEF Closed, FileReader, DownloadInv, OutcomeTellsFile, Positions
<1>3. CASE Grow
  <2>1. size' = size + 1 /\ size' \in 0 .. MaxFile /\ UNCHANGED <<opened, reader, taken, outcome>>
    BY <1>1, <1>3 DEF Grow
  <2>2. \A q \in ReadRequest : Answered(q) => Answered(q)'
    <3>1. SUFFICES ASSUME NEW q \in ReadRequest, Answered(q) PROVE Answered(q)'
      OBVIOUS
    <3>2. q.offset + Len(q.bytes) \in Nat
      BY DEF ReadRequest
    <3>. QED BY <1>1, <2>1, <3>1, <3>2 DEF Answered, Positions
  <2>3. ASSUME outcome = "reading" PROVE Delivered'
    <3>1. Delivered
      BY <2>3 DEF DownloadInv
    <3>2. Place' = Place /\ Place \in Nat
      BY <1>1, <2>1 DEF Place, FileReader
    <3>3. Window(reader) => Window(reader)'
      <4>1. SUFFICES ASSUME Window(reader) PROVE Window(reader)'
        OBVIOUS
      <4>2. ASSUME NEW i \in 1 .. Len(reader.requests) PROVE Answered(reader.requests[i])'
        <5>1. reader.requests[i] \in ReadRequest /\ Answered(reader.requests[i])
          BY <1>1, <4>1 DEF Window, FileReader
        <5>. DEFINE q == reader.requests[i]
        <5>2. Answered(q)'
          BY <2>1, <2>2, <5>1 DEF Answered
        <5>. QED BY <5>2
      <4>. QED BY <2>1, <4>1, <4>2 DEF Window, Adjoin, Edge
    <3>4. Edge(reader, 1)' = Edge(reader, 1)
      BY <2>1 DEF Edge
    <3>. QED BY <1>1, <2>1, <3>1, <3>2, <3>3, <3>4 DEF Delivered, Positions
  <2>. QED BY <1>1, <2>1, <2>3 DEF DownloadInv, DownloadTypes, OutcomeTellsFile, Positions
<1>4. CASE OpenRefused
  BY <1>4 DEF OpenRefused, Ends, DownloadInv, DownloadTypes, OutcomeTellsFile, Positions
<1>5. CASE Finish
  <2>1. /\ outcome = "reading" /\ reader.current = <<>> /\ reader.eof /\ outcome' = "whole"
        /\ UNCHANGED <<size, opened, reader, taken>>
    BY <1>5 DEF Finish, Ends
  <2>2. Len(taken) \in opened .. size
    <3>1. Delivered
      BY <2>1 DEF DownloadInv
    <3>2. Place = Len(taken)
      BY <1>1, <2>1 DEF Place
    <3>. QED BY <1>1, <2>1, <3>1, <3>2 DEF Delivered
  <2>. QED BY <2>1, <2>2 DEF DownloadInv, DownloadTypes, OutcomeTellsFile, Positions
<1>6. CASE Stop
  BY <1>6 DEF Stop, Ends, DownloadInv, DownloadTypes, OutcomeTellsFile, Positions
<1>7. CASE BeginDownload
  <2>1. outcome' = "opening" /\ reader' = Closed /\ taken' = <<>> /\ UNCHANGED <<size, opened>>
    BY <1>7 DEF BeginDownload, Ends
  <2>2. taken' = Positions(0, Len(taken))' /\ taken' \in Seq(Nat) /\ Len(taken') = 0
    BY <1>2, <2>1 DEF Positions
  <2>. QED BY <1>1, <1>2, <2>1, <2>2 DEF DownloadInv, DownloadTypes, OutcomeTellsFile
<1>8. CASE \E use \in {"download", "checksum"}, chunk \in 1 .. ChunkBytes : OpenFile(use, chunk)
  <2>1. PICK use \in {"download", "checksum"}, chunk \in 1 .. ChunkBytes : OpenFile(use, chunk)
    BY <1>8
  <2>. DEFINE limit == ReadLimit(use)
  <2>2. /\ outcome = "opening" /\ outcome' = "reading" /\ opened' = size /\ UNCHANGED <<size, taken>>
        /\ reader' = [Closed EXCEPT !.limit = limit, !.chunk = chunk, !.eof = FALSE]
    BY <2>1 DEF OpenFile, Ends
  <2>3. limit \in Nat /\ (limit > MaxBytes \/ limit > MaxFile)
    <3>. DEFINE a == ChunkBytes * (ReadAhead + 1)
    <3>1. ReadAhead + 1 \in Nat \ {0}
      BY <1>1
    <3>2. a \in Nat /\ a > 0
      <4>. DEFINE k == ReadAhead + 1
      <4>. HIDE DEF k
      <4>1. ChunkBytes * k \in Nat /\ ChunkBytes * k > 0
        BY <1>1, <3>1 DEF k
      <4>. QED BY <4>1 DEF k
    <3>. HIDE DEF a
    <3>3. Unlimited = MaxFile + a
      BY DEF Unlimited, a
    <3>. QED BY <1>1, <3>2, <3>3 DEF ReadLimit
  <2>. HIDE DEF limit
  <2>4. /\ reader' \in FileReader /\ reader'.requests = <<>> /\ reader'.next = 0 /\ reader'.limit = limit
        /\ reader'.chunk = chunk /\ reader'.current = <<>> /\ reader'.eof = FALSE
    <3>1. /\ Closed \in FileReader /\ Closed.requests = <<>> /\ Closed.next = 0 /\ Closed.current = <<>>
      BY DEF Closed, FileReader
    <3>2. chunk \in Nat
      BY <1>1
    <3>. QED BY <2>2, <2>3, <3>1, <3>2 DEF FileReader
  <2>5. taken = <<>> /\ taken' = <<>>
    BY <2>2 DEF DownloadInv
  <2>6. Window(reader)' /\ Edge(reader, 1)' = 0
    BY <1>1, <2>3, <2>4 DEF Window, Adjoin, Edge
  <2>7. Place' = 0
    BY <2>4, <2>5 DEF Place
  <2>8. (reader.current)' = Positions(Len(taken), Len(reader.current))'
    BY <2>4, <2>5 DEF Positions
  <2>9. Delivered'
    BY <1>1, <2>2, <2>4, <2>6, <2>7, <2>8 DEF Delivered
  <2>10. taken' = Positions(0, Len(taken))'
    BY <2>5 DEF Positions
  <2>11. opened' \in 0 .. size' /\ size' \in 0 .. MaxFile
    BY <1>1, <2>2
  <2>. QED BY <1>1, <2>2, <2>4, <2>5, <2>9, <2>10, <2>11 DEF DownloadInv, DownloadTypes, OutcomeTellsFile
<1>. QED BY <1>3, <1>4, <1>5, <1>6, <1>7, <1>8

-----------------------------------------------------------------------------
(* What a file read tells *)

(* The invariant of a file read (files/download.rs: poll_read, read_chunk): what the
   sink was given is the beginning of the file, and the window of requests adjoins it
   without a gap, whatever order the target answers in and however much. *)
THEOREM DownloadInvariant == DownloadsSpec => []DownloadInv
<1>1. DownloadsInit => DownloadInv
  <2>1. SUFFICES ASSUME DownloadsInit PROVE DownloadInv
    OBVIOUS
  <2>2. size \in 0 .. MaxFile /\ opened = 0 /\ reader = Closed /\ taken = <<>> /\ outcome = "opening"
    BY <2>1 DEF DownloadsInit
  <2>3. Closed \in FileReader /\ <<>> = Positions(0, 0) /\ Len(<<>>) = 0
    BY DEF Closed, FileReader, Positions
  <2>. QED BY <2>2, <2>3, DownloadsAssumption DEF DownloadInv, DownloadTypes, OutcomeTellsFile
<1>2. DownloadInv /\ [DownloadsNext]_downloadVars => DownloadInv'
  <2>1. SUFFICES ASSUME DownloadInv, [DownloadsNext]_downloadVars PROVE DownloadInv'
    OBVIOUS
  <2>2. CASE UNCHANGED downloadVars
    <3>1. UNCHANGED <<size, opened, reader, taken, outcome>>
      BY <2>2 DEF downloadVars
    <3>2. Window(reader)' = Window(reader) /\ Edge(reader, 1)' = Edge(reader, 1) /\ Place' = Place
      BY <3>1 DEF Window, Adjoin, Edge, Answered, Place, Positions
    <3>3. Delivered' = Delivered
      BY <3>1, <3>2 DEF Delivered, Positions
    <3>4. DownloadTypes' /\ OutcomeTellsFile'
      BY <2>1, <3>1 DEF DownloadInv, DownloadTypes, OutcomeTellsFile, Positions
    <3>. QED BY <2>1, <3>1, <3>3, <3>4 DEF DownloadInv
  <2>3. CASE \E i \in DOMAIN reader.requests : Answer(i)
    BY <2>1, <2>3, AnsweringKeeps
  <2>4. CASE Advance
    BY <2>1, <2>4, AdvanceKeeps
  <2>5. CASE \E count \in 1 .. ChunkBytes : Take(count)
    BY <2>1, <2>5, TakingKeeps
  <2>6. CASE \/ Grow \/ OpenRefused \/ Finish \/ Stop \/ BeginDownload
             \/ \E use \in {"download", "checksum"}, chunk \in 1 .. ChunkBytes : OpenFile(use, chunk)
    BY <2>1, <2>6, TurningKeeps
  <2>. QED BY <2>1, <2>2, <2>3, <2>4, <2>5, <2>6 DEF DownloadsNext
<1>. QED BY <1>1, <1>2, PTL DEF DownloadsSpec

(* What a download or a checksum says of a file is so (server disk.rs: receive,
   info.rs: ChecksumSink): success means every byte of it, in order, up to an end it
   had while it was read, and it is refused as too large only when it is. *)
THEOREM OutcomesTellFiles == DownloadsSpec => []OutcomeTellsFile
<1>1. DownloadInv => OutcomeTellsFile
  BY DEF DownloadInv
<1>. QED BY <1>1, DownloadInvariant, PTL

-----------------------------------------------------------------------------
(* The frames: induction, and what a target sends *)

LEMMA LeastIsThere ==
    ASSUME NEW T \in SUBSET Nat, T # {}
    PROVE  \E x \in T : \A y \in T : x <= y
<1>1. \E x \in T : \A y \in T : ~(<<y, x>> \in OpToRel(<, Nat))
  BY NatLessThanWellFounded, WFMin, Zenon
<1>2. PICK x \in T : \A y \in T : ~(<<y, x>> \in OpToRel(<, Nat))
  BY <1>1
<1>3. ASSUME NEW y \in T, y < x PROVE <<y, x>> \in OpToRel(<, Nat)
  <2>1. <<y, x>> \in Nat \X Nat /\ <<y, x>>[1] = y /\ <<y, x>>[2] = x
    OBVIOUS
  <2>. QED BY <1>3, <2>1, Zenon DEF OpToRel
<1>4. \A y \in T : ~(y < x)
  BY <1>2, <1>3, Zenon
<1>. QED BY <1>4

(* What holds of 0 and of the successor of whatever it holds of, up to n. *)
LEMMA StepByStep ==
    ASSUME NEW n \in Nat, NEW T, 0 \in T, \A i \in Nat : i < n /\ i \in T => i + 1 \in T
    PROVE  \A i \in 0 .. n : i \in T
<1>. DEFINE Missing == {i \in 0 .. n : i \notin T}
<1>1. SUFFICES ASSUME Missing # {} PROVE FALSE
  OBVIOUS
<1>2. PICK x \in Missing : \A y \in Missing : x <= y
  <2>1. Missing \in SUBSET Nat
    OBVIOUS
  <2>. HIDE DEF Missing
  <2>. QED BY <1>1, <2>1, LeastIsThere
<1>3. x \in Nat /\ x # 0 /\ x <= n /\ x \notin T
  BY <1>2
<1>4. x - 1 \in Nat /\ x - 1 < n /\ (x - 1) + 1 = x /\ x - 1 \in 0 .. n /\ ~(x <= x - 1)
  BY <1>3
<1>5. x - 1 \in T
  BY <1>2, <1>4
<1>. QED BY <1>3, <1>4, <1>5

LEMMA FunctionIsSeq ==
    ASSUME NEW S, NEW n \in Nat, NEW f \in [1 .. n -> S]
    PROVE  f \in Seq(S) /\ Len(f) = n
<1>1. f \in Seq(S)
  BY SeqDef
<1>2. Len(f) \in Nat /\ DOMAIN f = 1 .. Len(f) /\ DOMAIN f = 1 .. n
  BY <1>1, LenProperties
<1>. QED BY <1>1, <1>2


Units == [part : {"header"}, size : Nat, last : BOOLEAN] \cup [part : {"body"}]
HeaderUnit(length, i) == [part |-> "header", size |-> length, last |-> i = HeaderBytes]

LEMMA FrameUnits ==
    ASSUME NEW length \in Nat
    PROVE  /\ Frame(length) \in Seq(Units) /\ Len(Frame(length)) = HeaderBytes + length
           /\ \A i \in 1 .. HeaderBytes : Frame(length)[i] = HeaderUnit(length, i)
           /\ \A i \in 1 .. length : Frame(length)[HeaderBytes + i] = [part |-> "body"]
<1>. DEFINE header == [i \in 1 .. HeaderBytes |-> HeaderUnit(length, i)]
            body == [i \in 1 .. length |-> [part |-> "body"]]
<1>0. HeaderBytes \in Nat
  BY FramesAssumption
<1>1. header \in Seq(Units) /\ Len(header) = HeaderBytes
  <2>1. header \in [1 .. HeaderBytes -> Units]
    BY DEF HeaderUnit, Units
  <2>. HIDE DEF header
  <2>. QED BY <1>0, <2>1, FunctionIsSeq
<1>2. body \in Seq(Units) /\ Len(body) = length
  <2>1. body \in [1 .. length -> Units]
    BY DEF Units
  <2>. HIDE DEF body
  <2>. QED BY <2>1, FunctionIsSeq
<1>3. Frame(length) = header \o body
  BY DEF Frame, HeaderUnit
<1>4. (\A i \in 1 .. HeaderBytes : header[i] = HeaderUnit(length, i)) /\ \A i \in 1 .. length : body[i] = [part |-> "body"]
  OBVIOUS
<1>. HIDE DEF header, body
<1>5. /\ header \o body \in Seq(Units)
      /\ Len(header \o body) = HeaderBytes + length
      /\ \A i \in 1 .. HeaderBytes + length :
            (header \o body)[i] = IF i <= HeaderBytes THEN header[i] ELSE body[i - HeaderBytes]
  BY <1>1, <1>2, ConcatProperties
<1>6. ASSUME NEW i \in 1 .. HeaderBytes PROVE (header \o body)[i] = HeaderUnit(length, i)
  BY <1>0, <1>4, <1>5
<1>7. ASSUME NEW i \in 1 .. length PROVE (header \o body)[HeaderBytes + i] = [part |-> "body"]
  <2>1. HeaderBytes + i \in 1 .. HeaderBytes + length /\ ~(HeaderBytes + i <= HeaderBytes)
        /\ (HeaderBytes + i) - HeaderBytes = i
    BY <1>0
  <2>. QED BY <1>4, <1>5, <2>1
<1>. QED BY <1>3, <1>5, <1>6, <1>7

(* The first k frames are `units`, and frame j ends at cut[j]. *)
Framed(units, cut, sizes, k) ==
    /\ cut \in [0 .. k -> Nat] /\ cut[0] = 0
    /\ \A j \in 1 .. k : cut[j] = cut[j - 1] + HeaderBytes + sizes[j]
    /\ units \in Seq(Units) /\ Len(units) = cut[k]
    /\ \A j \in 1 .. k :
        /\ \A i \in 1 .. HeaderBytes : units[cut[j - 1] + i] = HeaderUnit(sizes[j], i)
        /\ \A i \in 1 .. sizes[j] : units[cut[j - 1] + HeaderBytes + i] = [part |-> "body"]
        /\ cut[j] <= cut[k]

LEMMA FramedMore ==
    ASSUME NEW k \in Nat, NEW sizes, \A j \in 1 .. k + 1 : sizes[j] \in Nat,
           NEW units, NEW cut, Framed(units, cut, sizes, k)
    PROVE  \E more : Framed(units \o Frame(sizes[k + 1]), more, sizes, k + 1)
<1>. DEFINE length == sizes[k + 1]
            new == Frame(length)
            end == cut[k] + HeaderBytes + length
            more == [j \in 0 .. k + 1 |-> IF j = k + 1 THEN end ELSE cut[j]]
            all == units \o new
<1>0. /\ cut \in [0 .. k -> Nat] /\ cut[0] = 0 /\ units \in Seq(Units) /\ Len(units) = cut[k]
      /\ \A j \in 1 .. k : /\ cut[j] = cut[j - 1] + HeaderBytes + sizes[j]
                           /\ \A i \in 1 .. HeaderBytes : units[cut[j - 1] + i] = HeaderUnit(sizes[j], i)
                           /\ \A i \in 1 .. sizes[j] : units[cut[j - 1] + HeaderBytes + i] = [part |-> "body"]
                           /\ cut[j] <= cut[k]
  BY DEF Framed
<1>1. HeaderBytes \in Nat /\ length \in Nat /\ cut[k] \in Nat /\ end \in Nat /\ k + 1 \in 1 .. k + 1
  BY <1>0, FramesAssumption
<1>2. /\ new \in Seq(Units) /\ Len(new) = HeaderBytes + length
      /\ \A i \in 1 .. HeaderBytes : new[i] = HeaderUnit(length, i)
      /\ \A i \in 1 .. length : new[HeaderBytes + i] = [part |-> "body"]
  <2>. HIDE DEF length
  <2>. QED BY <1>1, FrameUnits
<1>. HIDE DEF new, length
<1>3. /\ all \in Seq(Units) /\ Len(all) = end
      /\ \A i \in 1 .. end : all[i] = IF i <= cut[k] THEN units[i] ELSE new[i - cut[k]]
  <2>1. /\ all \in Seq(Units) /\ Len(all) = Len(units) + Len(new)
        /\ \A i \in 1 .. Len(units) + Len(new) : all[i] = IF i <= Len(units) THEN units[i] ELSE new[i - Len(units)]
    BY <1>0, <1>2, ConcatProperties
  <2>2. Len(units) + Len(new) = end /\ Len(units) = cut[k]
    BY <1>0, <1>1, <1>2
  <2>. HIDE DEF all, end
  <2>. QED BY <2>1, <2>2
<1>. HIDE DEF all
<1>4. /\ more \in [0 .. k + 1 -> Nat] /\ more[k + 1] = end
      /\ \A j \in 0 .. k : more[j] = cut[j]
  <2>1. \A j \in 0 .. k + 1 : j # k + 1 => j \in 0 .. k
    OBVIOUS
  <2>. QED BY <1>0, <1>1, <2>1
<1>. HIDE DEF more
<1>5. more[0] = 0
  BY <1>0, <1>4
<1>6. ASSUME NEW j \in 1 .. k + 1
      PROVE  /\ more[j] = more[j - 1] + HeaderBytes + sizes[j]
             /\ \A i \in 1 .. HeaderBytes : all[more[j - 1] + i] = HeaderUnit(sizes[j], i)
             /\ \A i \in 1 .. sizes[j] : all[more[j - 1] + HeaderBytes + i] = [part |-> "body"]
             /\ more[j] <= more[k + 1]
  <2>1. CASE j = k + 1
    <3>1. more[j - 1] = cut[k] /\ sizes[j] = length /\ more[j] = end
      <4>1. j - 1 = k /\ k \in 0 .. k
        BY <2>1
      <4>. QED BY <1>4, <2>1, <4>1 DEF length
    <3>2. ASSUME NEW i \in 1 .. HeaderBytes PROVE all[cut[k] + i] = HeaderUnit(length, i)
      <4>1. cut[k] + i \in 1 .. end /\ ~(cut[k] + i <= cut[k]) /\ (cut[k] + i) - cut[k] = i
        BY <1>1
      <4>. HIDE DEF end
      <4>. QED BY <1>2, <1>3, <4>1
    <3>3. ASSUME NEW i \in 1 .. length PROVE all[cut[k] + HeaderBytes + i] = [part |-> "body"]
      <4>1. cut[k] + HeaderBytes + i \in 1 .. end /\ ~(cut[k] + HeaderBytes + i <= cut[k])
            /\ (cut[k] + HeaderBytes + i) - cut[k] = HeaderBytes + i
        BY <1>1
      <4>. HIDE DEF end
      <4>. QED BY <1>2, <1>3, <4>1
    <3>4. more[j] <= more[k + 1]
      BY <1>1, <1>4, <2>1
    <3>. QED BY <3>1, <3>2, <3>3, <3>4
  <2>2. CASE j # k + 1
    <3>1. j \in 1 .. k /\ j \in 0 .. k /\ j - 1 \in 0 .. k
      BY <2>2
    <3>2. more[j] = cut[j] /\ more[j - 1] = cut[j - 1] /\ cut[j] \in Nat /\ cut[j - 1] \in Nat /\ sizes[j] \in Nat
      BY <1>0, <1>4, <3>1
    <3>3. cut[j] = cut[j - 1] + HeaderBytes + sizes[j] /\ cut[j] <= cut[k]
      BY <1>0, <3>1
    <3>4. ASSUME NEW i \in 1 .. cut[j] PROVE all[i] = units[i]
      <4>1. i \in 1 .. end /\ i <= cut[k]
        BY <1>1, <3>2, <3>3
      <4>. HIDE DEF end
      <4>. QED BY <1>3, <4>1
    <3>5. ASSUME NEW i \in 1 .. HeaderBytes PROVE all[cut[j - 1] + i] = HeaderUnit(sizes[j], i)
      <4>1. cut[j - 1] + i \in 1 .. cut[j]
        BY <1>1, <3>2, <3>3
      <4>. QED BY <1>0, <3>1, <3>4, <4>1
    <3>6. ASSUME NEW i \in 1 .. sizes[j] PROVE all[cut[j - 1] + HeaderBytes + i] = [part |-> "body"]
      <4>1. cut[j - 1] + HeaderBytes + i \in 1 .. cut[j]
        BY <1>1, <3>2, <3>3
      <4>. QED BY <1>0, <3>1, <3>4, <4>1
    <3>7. more[j] <= more[k + 1]
      BY <1>1, <1>4, <3>2, <3>3
    <3>. QED BY <3>2, <3>3, <3>5, <3>6, <3>7
  <2>. QED BY <2>1, <2>2
<1>7. Framed(all, more, sizes, k + 1)
  BY <1>3, <1>4, <1>5, <1>6 DEF Framed
<1>. QED BY <1>7 DEF all, new, length

(* FlattenSeq, step by step. *)
Flattens(g, seqs, k) ==
    /\ g = [i \in 1 .. k |-> g[i]]
    /\ \A i \in 1 .. k : g[i] = IF i = 1 THEN seqs[i] ELSE g[i - 1] \o seqs[i]

LEMMA FlattenUnfolds ==
    ASSUME NEW n \in Nat, NEW seqs, Len(seqs) = n, n # 0
    PROVE  \E g : Flattens(g, seqs, n) /\ FlattenSeq(seqs) = g[n]
<1>. DEFINE Goes(g) == g = [i \in 1 .. n |-> IF i = 1 THEN seqs[i] ELSE g[i - 1] \o seqs[i]]
            T == {m \in 0 .. n : \E g : Flattens(g, seqs, m)}
<1>1. FlattenSeq(seqs) = (CHOOSE g : Goes(g))[n]
  BY DEF FlattenSeq
<1>2. 0 \in T
  <2>1. Flattens([i \in 1 .. 0 |-> 0], seqs, 0)
    BY DEF Flattens
  <2>. QED BY <2>1
<1>3. ASSUME NEW m \in Nat, m < n, m \in T PROVE m + 1 \in T
  <2>1. PICK g : Flattens(g, seqs, m)
    BY <1>3
  <2>. DEFINE h == [i \in 1 .. m + 1 |-> IF i = m + 1 THEN IF m = 0 THEN seqs[i] ELSE g[m] \o seqs[i] ELSE g[i]]
  <2>2. \A i \in 1 .. m + 1 : i # m + 1 => i \in 1 .. m /\ h[i] = g[i]
    OBVIOUS
  <2>3. h[m + 1] = IF m = 0 THEN seqs[m + 1] ELSE g[m] \o seqs[m + 1]
    OBVIOUS
  <2>4. h = [i \in 1 .. m + 1 |-> h[i]]
    OBVIOUS
  <2>. HIDE DEF h
  <2>5. ASSUME NEW i \in 1 .. m + 1 PROVE h[i] = IF i = 1 THEN seqs[i] ELSE h[i - 1] \o seqs[i]
    <3>1. CASE i = m + 1
      <4>1. CASE m = 0
        BY <2>3, <3>1, <4>1
      <4>2. CASE m # 0
        <5>1. m \in 1 .. m + 1 /\ m # m + 1 /\ i # 1 /\ i - 1 = m
          BY <3>1, <4>2
        <5>2. h[m] = g[m]
          BY <2>2, <5>1
        <5>. QED BY <2>3, <3>1, <4>2, <5>1, <5>2
      <4>. QED BY <4>1, <4>2
    <3>2. CASE i # m + 1
      <4>1. i \in 1 .. m /\ h[i] = g[i]
        BY <2>2, <3>2
      <4>2. g[i] = IF i = 1 THEN seqs[i] ELSE g[i - 1] \o seqs[i]
        BY <2>1, <4>1 DEF Flattens
      <4>3. i # 1 => i - 1 \in 1 .. m + 1 /\ i - 1 # m + 1
        BY <4>1
      <4>4. i # 1 => h[i - 1] = g[i - 1]
        BY <2>2, <4>3
      <4>. QED BY <4>1, <4>2, <4>4
    <3>. QED BY <3>1, <3>2
  <2>6. Flattens(h, seqs, m + 1)
    BY <2>4, <2>5 DEF Flattens
  <2>7. m + 1 \in 0 .. n
    BY <1>3
  <2>. QED BY <2>6, <2>7
<1>. HIDE DEF T
<1>4. \A m \in Nat : m < n /\ m \in T => m + 1 \in T
  BY <1>3
<1>5. \A m \in 0 .. n : m \in T
  BY <1>2, <1>4, StepByStep
<1>6. n \in T
  BY <1>5
<1>7. PICK g : Flattens(g, seqs, n)
  BY <1>6 DEF T
<1>8. Goes(g)
  <2>1. g = [i \in 1 .. n |-> g[i]]
    BY <1>7 DEF Flattens
  <2>2. \A i \in 1 .. n : g[i] = IF i = 1 THEN seqs[i] ELSE g[i - 1] \o seqs[i]
    BY <1>7 DEF Flattens
  <2>3. [i \in 1 .. n |-> g[i]] = [i \in 1 .. n |-> IF i = 1 THEN seqs[i] ELSE g[i - 1] \o seqs[i]]
    BY <2>2
  <2>. QED BY <2>1, <2>3
<1>. DEFINE flatten == CHOOSE h : Goes(h)
<1>9. Goes(flatten)
  <2>. HIDE DEF Goes
  <2>. QED BY <1>8
<1>. HIDE DEF flatten
<1>10. Flattens(flatten, seqs, n)
  <2>1. flatten = [i \in 1 .. n |-> flatten[i]]
    BY <1>9
  <2>2. \A i \in 1 .. n : flatten[i] = IF i = 1 THEN seqs[i] ELSE flatten[i - 1] \o seqs[i]
    BY <1>9, Zenon
  <2>. QED BY <2>1, <2>2 DEF Flattens
<1>11. FlattenSeq(seqs) = flatten[n]
  BY <1>1 DEF flatten
<1>. QED BY <1>10, <1>11

(* What a target sends is frames, one after the other, and perhaps not the last whole. *)
LEMMA WholeIsFramed ==
    ASSUME NEW n \in Nat, NEW sizes \in [1 .. n -> Nat]
    PROVE  \E cut : Framed(FlattenSeq([i \in DOMAIN sizes |-> Frame(sizes[i])]), cut, sizes, n)
<1>. DEFINE seqs == [i \in DOMAIN sizes |-> Frame(sizes[i])]
<1>0. \A i \in 1 .. n : sizes[i] \in Nat /\ seqs[i] = Frame(sizes[i])
  OBVIOUS
<1>1. seqs \in Seq(Seq(Units)) /\ Len(seqs) = n
  <2>1. \A i \in 1 .. n : Frame(sizes[i]) \in Seq(Units)
    BY FrameUnits
  <2>2. seqs \in [1 .. n -> Seq(Units)]
    BY <2>1
  <2>. HIDE DEF seqs
  <2>. QED BY <2>2, FunctionIsSeq
<1>. HIDE DEF seqs
<1>2. CASE n = 0
  <2>1. FlattenSeq(seqs) = <<>>
    <3>1. FlattenSeq(seqs) = seqs
      BY <1>1, <1>2 DEF FlattenSeq
    <3>. QED BY <1>1, <1>2, <3>1, EmptySeq
  <2>2. Framed(<<>>, [j \in 0 .. 0 |-> 0], sizes, 0)
    BY DEF Framed
  <2>. QED BY <1>2, <2>1, <2>2 DEF seqs
<1>3. CASE n # 0
  <2>1. PICK g : Flattens(g, seqs, n) /\ FlattenSeq(seqs) = g[n]
    BY <1>1, <1>3, FlattenUnfolds
  <2>. DEFINE IsFramed(k) == k = 0 \/ \E cut : Framed(g[k], cut, sizes, k)
              T == {k \in 0 .. n : IsFramed(k)}
  <2>2. IsFramed(0)
    OBVIOUS
  <2>3. ASSUME NEW k \in Nat, k < n, IsFramed(k) PROVE IsFramed(k + 1)
    <3>1. k + 1 \in 1 .. n /\ (k + 1) - 1 = k /\ \A j \in 1 .. k + 1 : sizes[j] \in Nat
      BY <2>3
    <3>2. g[k + 1] = IF k + 1 = 1 THEN seqs[k + 1] ELSE g[k] \o seqs[k + 1]
      BY <2>1, <3>1 DEF Flattens
    <3>3. seqs[k + 1] = Frame(sizes[k + 1])
      BY <1>0, <3>1
    <3>4. CASE k = 0
      <4>1. Framed(<<>>, [j \in 0 .. 0 |-> 0], sizes, k)
        BY <3>4 DEF Framed
      <4>2. \E more : Framed(<<>> \o Frame(sizes[k + 1]), more, sizes, k + 1)
        BY <3>1, <4>1, FramedMore
      <4>3. <<>> \o Frame(sizes[k + 1]) = Frame(sizes[k + 1])
        <5>1. Frame(sizes[k + 1]) \in Seq(Units)
          BY <3>1, FrameUnits
        <5>. QED BY <5>1, ConcatEmptySeq
      <4>. QED BY <3>2, <3>3, <3>4, <4>2, <4>3
    <3>5. CASE k # 0
      <4>1. PICK cut : Framed(g[k], cut, sizes, k)
        BY <2>3, <3>5
      <4>2. \E more : Framed(g[k] \o Frame(sizes[k + 1]), more, sizes, k + 1)
        BY <3>1, <4>1, FramedMore
      <4>. QED BY <3>2, <3>3, <3>5, <4>2
    <3>. QED BY <3>4, <3>5
  <2>. HIDE DEF IsFramed
  <2>4. 0 \in T /\ \A k \in Nat : k < n /\ k \in T => k + 1 \in T
    BY <2>2, <2>3
  <2>. HIDE DEF T
  <2>5. \A k \in 0 .. n : k \in T
    BY <2>4, StepByStep
  <2>6. IsFramed(n)
    BY <2>5 DEF T
  <2>. QED BY <1>3, <2>1, <2>6 DEF IsFramed, seqs
<1>. QED BY <1>2, <1>3
-----------------------------------------------------------------------------
(* The frames: the inductive invariant *)

(* The wire w is n frames of these sizes, frame j ends at cut[j]; it may end before the
   last one does. *)
SentAs(w, cut, sizes, n) ==
    /\ n \in Nat /\ sizes \in [1 .. n -> Nat] /\ cut \in [0 .. n -> Nat]
    /\ w \in Seq(Units) /\ Len(w) <= cut[n] /\ cut[0] = 0
    /\ \A j \in 0 .. n : j < n =>
        /\ cut[j + 1] = cut[j] + HeaderBytes + sizes[j + 1]
        /\ \A i \in 1 .. HeaderBytes :
            cut[j] + i <= Len(w) => w[cut[j] + i] = HeaderUnit(sizes[j + 1], i)
        /\ \A i \in 1 .. sizes[j + 1] :
            cut[j] + HeaderBytes + i <= Len(w) => w[cut[j] + HeaderBytes + i] = [part |-> "body"]

(* A stream that has read f units of w and given e of them is past j frames, and this
   far into the next: before the end of its header, *)
Before(s, f, e, c) ==
    /\ Len(s.header) < HeaderBytes /\ f = c + Len(s.header) /\ e = c
    /\ s.shown = 0 /\ s.body = 0 /\ s.rejected = FALSE

(* at the header of a frame it refused, *)
Refused(s, f, e, c, length) ==
    /\ Len(s.header) = HeaderBytes /\ f = c + HeaderBytes /\ e = c
    /\ s.rejected = TRUE /\ length > MaxFrame

(* or after the header of one that it gives. *)
Giving(s, f, e, c, length) ==
    /\ Len(s.header) = HeaderBytes /\ s.shown <= HeaderBytes
    /\ s.rejected = FALSE /\ length <= MaxFrame
    /\ s.body <= length /\ (s.shown < HeaderBytes => s.body = length)
    /\ f = c + HeaderBytes + (length - s.body)
    /\ e = c + s.shown + (length - s.body)

FrameStreams == [header : Seq(Units), shown : Nat, body : Nat, rejected : BOOLEAN]

Past(s, w, f, e, cut, sizes, n, j) ==
    /\ s \in FrameStreams /\ j \in 0 .. n /\ f \in 0 .. Len(w)
    /\ \A i \in 1 .. Len(s.header) : s.header[i] = w[cut[j] + i]
    /\ \/ Before(s, f, e, cut[j])
       \/ j < n /\ Refused(s, f, e, cut[j], sizes[j + 1])
       \/ j < n /\ Giving(s, f, e, cut[j], sizes[j + 1])

(* What was given of w, when f units of it were read. *)
MayGive(w, i, f) ==
    w[i].part = "header" =>
        w[i].size <= MaxFrame /\ \E k \in i .. f : w[k].part = "header" /\ w[k].last

Given(x, w, f) ==
    /\ x \in Seq(Units) /\ Len(x) <= f
    /\ \A i \in 1 .. Len(x) : x[i] = w[i] /\ MayGive(w, i, f)

FrameInv ==
    /\ Given(exposed, wire, fetched)
    /\ \E n, sizes, cut, j :
        SentAs(wire, cut, sizes, n) /\ Past(stream, wire, fetched, Len(exposed), cut, sizes, n, j)

(* Every wire is frames. *)
LEMMA WiresAreSent ==
    ASSUME NEW w \in Wires
    PROVE  \E n, sizes, cut : SentAs(w, cut, sizes, n)
<1>1. PICK sizes \in SeqOf(0 .. MaxFrame + 1, MaxFrames) :
        LET whole == FlattenSeq([i \in DOMAIN sizes |-> Frame(sizes[i])])
        IN \E l \in 0 .. Len(whole) : w = SubSeq(whole, 1, l)
  BY DEF Wires, Wholes
<1>. DEFINE whole == FlattenSeq([i \in DOMAIN sizes |-> Frame(sizes[i])])
<1>2. PICK n \in 0 .. MaxFrames : sizes \in [1 .. n -> 0 .. MaxFrame + 1]
  BY DEF SeqOf
<1>3. n \in Nat /\ sizes \in [1 .. n -> Nat]
  BY <1>2, FramesAssumption
<1>4. PICK cut : Framed(whole, cut, sizes, n)
  BY <1>3, WholeIsFramed
<1>5. PICK l \in 0 .. Len(whole) : w = SubSeq(whole, 1, l)
  BY <1>1
<1>. HIDE DEF whole
<1>6. /\ cut \in [0 .. n -> Nat] /\ cut[0] = 0 /\ whole \in Seq(Units) /\ Len(whole) = cut[n]
      /\ \A j \in 1 .. n :
          /\ cut[j] = cut[j - 1] + HeaderBytes + sizes[j]
          /\ \A i \in 1 .. HeaderBytes : whole[cut[j - 1] + i] = HeaderUnit(sizes[j], i)
          /\ \A i \in 1 .. sizes[j] : whole[cut[j - 1] + HeaderBytes + i] = [part |-> "body"]
  BY <1>4 DEF Framed
<1>7. /\ w \in Seq(Units) /\ Len(w) = l /\ l <= cut[n] /\ l \in Nat
      /\ \A i \in 1 .. l : w[i] = whole[i]
  <2>1. Len(whole) \in Nat /\ \A i \in 1 .. l : whole[i] \in Units
    BY <1>6, LenProperties, ElementOfSeq
  <2>2. l <= cut[n] /\ l \in Nat
    BY <1>5, <1>6, <2>1
  <2>3. w \in Seq(Units) /\ Len(w) = l /\ \A i \in 1 .. l : w[i] = whole[1 + i - 1]
    BY <1>5, <1>6, <2>1, <2>2, SubSeqProperties
  <2>4. \A i \in 1 .. l : 1 + i - 1 = i
    OBVIOUS
  <2>. QED BY <2>2, <2>3, <2>4
<1>8. ASSUME NEW j \in 0 .. n, j < n
      PROVE  /\ cut[j + 1] = cut[j] + HeaderBytes + sizes[j + 1]
             /\ \A i \in 1 .. HeaderBytes :
                 cut[j] + i <= Len(w) => w[cut[j] + i] = HeaderUnit(sizes[j + 1], i)
             /\ \A i \in 1 .. sizes[j + 1] :
                 cut[j] + HeaderBytes + i <= Len(w) => w[cut[j] + HeaderBytes + i] = [part |-> "body"]
  <2>1. j + 1 \in 1 .. n /\ (j + 1) - 1 = j /\ cut[j] \in Nat /\ HeaderBytes \in Nat
    <3>1. n \in Nat /\ cut \in [0 .. n -> Nat]
      BY <1>3, <1>6
    <3>. QED BY <1>8, <3>1, FramesAssumption
  <2>2. ASSUME NEW i \in 1 .. HeaderBytes, cut[j] + i <= Len(w)
        PROVE  w[cut[j] + i] = HeaderUnit(sizes[j + 1], i)
    <3>1. cut[j] + i \in 1 .. l
      BY <1>7, <2>1, <2>2
    <3>. QED BY <1>6, <1>7, <2>1, <3>1
  <2>3. ASSUME NEW i \in 1 .. sizes[j + 1], cut[j] + HeaderBytes + i <= Len(w)
        PROVE  w[cut[j] + HeaderBytes + i] = [part |-> "body"]
    <3>1. cut[j] + HeaderBytes + i \in 1 .. l
      <4>. DEFINE at == cut[j] + HeaderBytes + i
      <4>1. sizes[j + 1] \in Nat
        BY <1>3, <2>1
      <4>2. i \in Nat /\ i # 0
        BY <4>1
      <4>3. at \in Nat /\ at # 0
        BY <2>1, <4>2
      <4>4. at <= l
        BY <1>7, <2>3
      <4>. HIDE DEF at
      <4>5. at \in 1 .. l
        BY <4>3, <4>4
      <4>. QED BY <4>5 DEF at
    <3>2. whole[cut[j] + HeaderBytes + i] = [part |-> "body"]
      BY <1>6, <2>1
    <3>3. \A h \in 1 .. l : w[h] = whole[h]
      BY <1>7
    <3>. QED BY <3>1, <3>2, <3>3
  <2>. QED BY <1>6, <2>1, <2>2, <2>3
<1>9. SentAs(w, cut, sizes, n)
  BY <1>3, <1>6, <1>7, <1>8 DEF SentAs
<1>. QED BY <1>9

(* A frame that is over is one more that is past. *)
LEMMA TurnedIsPast ==
    ASSUME NEW w, NEW f, NEW e, NEW cut, NEW sizes, NEW n, NEW j, NEW s, s.rejected = FALSE,
           SentAs(w, cut, sizes, n), Past(s, w, f, e, cut, sizes, n, j)
    PROVE  \E k : Past(Turned(s), w, f, e, cut, sizes, n, k)
<1>0. HeaderBytes \in Nat \ {0} /\ n \in Nat /\ cut \in [0 .. n -> Nat] /\ sizes \in [1 .. n -> Nat]
  BY FramesAssumption DEF SentAs
<1>1. CASE s.shown = HeaderBytes /\ s.body = 0
  <2>1. Turned(s) = FreshFrame
    BY <1>1 DEF Turned
  <2>2. j < n /\ Giving(s, f, e, cut[j], sizes[j + 1]) /\ j \in 0 .. n /\ f \in 0 .. Len(w)
    BY <1>0, <1>1 DEF Past, Before, Refused
  <2>3. j + 1 \in 0 .. n /\ j + 1 \in 1 .. n
    BY <1>0, <2>2
  <2>4. f = cut[j] + HeaderBytes + (sizes[j + 1] - 0) /\ e = cut[j] + HeaderBytes + (sizes[j + 1] - 0)
    BY <1>1, <2>2 DEF Giving
  <2>5. cut[j + 1] = cut[j] + HeaderBytes + sizes[j + 1] /\ cut[j + 1] \in Nat /\ sizes[j + 1] \in Nat
    BY <1>0, <2>2, <2>3 DEF SentAs
  <2>6. <<>> \in Seq(Units) /\ Len(<<>>) = 0
    OBVIOUS
  <2>7. FreshFrame \in FrameStreams /\ FreshFrame.header = <<>>
    BY <2>6 DEF FreshFrame, FrameStreams
  <2>8. f = cut[j + 1] + 0 /\ e = cut[j + 1]
    BY <1>0, <2>2, <2>4, <2>5
  <2>9. Before(FreshFrame, f, e, cut[j + 1])
    <3>1. /\ FreshFrame.shown = 0 /\ FreshFrame.body = 0 /\ FreshFrame.rejected = FALSE
      BY DEF FreshFrame
    <3>. QED BY <1>0, <2>6, <2>7, <2>8, <3>1 DEF Before
  <2>10. \A i \in 1 .. Len(FreshFrame.header) : FreshFrame.header[i] = w[cut[j + 1] + i]
    BY <2>6, <2>7
  <2>11. Past(FreshFrame, w, f, e, cut, sizes, n, j + 1)
    BY <2>2, <2>3, <2>7, <2>9, <2>10 DEF Past
  <2>. QED BY <2>1, <2>11
<1>2. CASE ~(s.shown = HeaderBytes /\ s.body = 0)
  BY <1>2 DEF Turned
<1>. QED BY <1>1, <1>2

(* Reading on leaves what was given so. *)
LEMMA GivenStays ==
    ASSUME NEW x, NEW w, NEW f \in Nat, NEW g \in Nat, f <= g, Given(x, w, f)
    PROVE  Given(x, w, g)
<1>1. x \in Seq(Units) /\ Len(x) <= f /\ Len(x) \in Nat
  BY LenProperties DEF Given
<1>2. \A i \in 1 .. Len(x) : \A k \in i .. f : k \in i .. g
  BY <1>1
<1>3. ASSUME NEW i \in 1 .. Len(x) PROVE MayGive(w, i, g)
  <2>1. MayGive(w, i, f)
    BY DEF Given
  <2>. QED BY <1>2, <2>1, Zenon DEF MayGive
<1>4. \A i \in 1 .. Len(x) : x[i] = w[i]
  BY DEF Given
<1>5. Len(x) <= g
  BY <1>1
<1>. QED BY <1>1, <1>3, <1>4, <1>5 DEF Given
-----------------------------------------------------------------------------
(* The frames: the steps of the stream *)

LEMMA UnitsKnown ==
    /\ \A length : \A i : /\ HeaderUnit(length, i).part = "header" /\ HeaderUnit(length, i).size = length
    /\ [part |-> "body"].part = "body"
BY DEF HeaderUnit

(* `count` units of w from f on. *)
LEMMA ReadUnits ==
    ASSUME NEW w \in Seq(Units), NEW f \in Nat, NEW count \in Nat, f + count <= Len(w)
    PROVE  /\ SubSeq(w, f + 1, f + count) \in Seq(Units)
           /\ Len(SubSeq(w, f + 1, f + count)) = count
           /\ \A i \in 1 .. count : SubSeq(w, f + 1, f + count)[i] = w[f + i]
<1>. DEFINE units == SubSeq(w, f + 1, f + count)
<1>0. Len(w) \in Nat
  BY LenProperties
<1>1. CASE count = 0
  <2>1. units = <<>>
    BY <1>0, <1>1, SubSeqProperties
  <2>. QED BY <1>1, <2>1
<1>2. CASE count # 0
  <2>1. f + 1 \in 1 .. Len(w) + 1 /\ f + count \in f .. Len(w) /\ f + count - (f + 1) + 1 = count
        /\ f + 1 \in Nat /\ f + count \in Nat
    BY <1>0, <1>2
  <2>2. \A i \in f + 1 .. f + count : w[i] \in Units
    BY <1>0, <2>1, ElementOfSeq
  <2>3. /\ units \in Seq(Units) /\ Len(units) = IF f + 1 <= f + count THEN f + count - (f + 1) + 1 ELSE 0
        /\ \A i \in 1 .. f + count - (f + 1) + 1 : units[i] = w[f + 1 + i - 1]
    BY <1>0, <2>1, <2>2, SubSeqProperties
  <2>4. \A i \in 1 .. count : f + 1 + i - 1 = f + i
    OBVIOUS
  <2>5. f + 1 <= f + count
    BY <1>2
  <2>. HIDE DEF units
  <2>6. Len(units) = count
    BY <2>1, <2>3, <2>5
  <2>. QED BY <2>1, <2>3, <2>4, <2>6 DEF units
<1>. QED BY <1>1, <1>2

(* What is given after x of w is more of w. *)
Continues(more, x, w, f) ==
    \A i \in 1 .. Len(more) : more[i] = w[Len(x) + i] /\ MayGive(w, Len(x) + i, f)

LEMMA GivenMore ==
    ASSUME NEW x, NEW w, NEW f \in Nat, Given(x, w, f), NEW more \in Seq(Units), Len(x) + Len(more) <= f,
           Continues(more, x, w, f)
    PROVE  Given(x \o more, w, f) /\ Len(x \o more) = Len(x) + Len(more)
<1>. DEFINE all == x \o more
<1>1. x \in Seq(Units) /\ Len(x) \in Nat /\ Len(more) \in Nat
  BY LenProperties DEF Given
<1>2. /\ all \in Seq(Units) /\ Len(all) = Len(x) + Len(more)
      /\ \A i \in 1 .. Len(x) + Len(more) : all[i] = IF i <= Len(x) THEN x[i] ELSE more[i - Len(x)]
  BY <1>1, ConcatProperties
<1>. HIDE DEF all
<1>3. ASSUME NEW i \in 1 .. Len(all) PROVE all[i] = w[i] /\ MayGive(w, i, f)
  <2>1. CASE i <= Len(x)
    <3>1. i \in 1 .. Len(x) /\ all[i] = x[i]
      BY <1>1, <1>2, <2>1
    <3>. QED BY <3>1 DEF Given
  <2>2. CASE ~(i <= Len(x))
    <3>. DEFINE h == i - Len(x)
    <3>1. h \in 1 .. Len(more) /\ Len(x) + h = i /\ all[i] = more[h]
      BY <1>1, <1>2, <2>2
    <3>. HIDE DEF h
    <3>. QED BY <3>1 DEF Continues
  <2>. QED BY <2>1, <2>2
<1>4. Given(all, w, f)
  BY <1>2, <1>3 DEF Given
<1>. QED BY <1>2, <1>4 DEF all

CanShow(x, w, f, c, length, header, shown, given) ==
    /\ Given(x, w, f) /\ f = c + HeaderBytes /\ Len(x) = c + shown
    /\ Len(header) = HeaderBytes /\ shown + given <= HeaderBytes /\ length <= MaxFrame
    /\ \A i \in 1 .. HeaderBytes : header[i] = w[c + i] /\ w[c + i] = HeaderUnit(length, i)

(* A header that is there whole is given, or as much of it as there is room for. *)
LEMMA HeaderIsShown ==
    ASSUME NEW x, NEW w, NEW f, NEW c \in Nat, NEW length \in Nat, NEW header \in Seq(Units), NEW shown \in Nat,
           NEW given \in Nat, CanShow(x, w, f, c, length, header, shown, given)
    PROVE  /\ Given(x \o SubSeq(header, shown + 1, shown + given), w, f)
           /\ Len(x \o SubSeq(header, shown + 1, shown + given)) = c + shown + given
<1>. DEFINE more == SubSeq(header, shown + 1, shown + given)
<1>0. HeaderBytes \in Nat \ {0}
  BY FramesAssumption
<1>1. more \in Seq(Units) /\ Len(more) = given /\ \A i \in 1 .. given : more[i] = header[shown + i]
  BY <1>0, ReadUnits DEF CanShow
<1>. HIDE DEF more
<1>2. ASSUME NEW i \in 1 .. Len(more)
      PROVE  more[i] = w[Len(x) + i] /\ MayGive(w, Len(x) + i, f)
  <2>1. shown + i \in 1 .. HeaderBytes /\ Len(x) + i = c + (shown + i)
        /\ c + HeaderBytes \in Len(x) + i .. f /\ HeaderBytes \in 1 .. HeaderBytes
    BY <1>0, <1>1 DEF CanShow
  <2>2. more[i] = w[Len(x) + i] /\ w[Len(x) + i] = HeaderUnit(length, shown + i)
    BY <1>1, <2>1 DEF CanShow
  <2>3. w[c + HeaderBytes] = HeaderUnit(length, HeaderBytes)
    BY <2>1 DEF CanShow
  <2>4. w[c + HeaderBytes].part = "header" /\ w[c + HeaderBytes].last
    <3>1. HeaderUnit(length, HeaderBytes).part = "header"
      BY UnitsKnown
    <3>2. HeaderUnit(length, HeaderBytes).last
      BY DEF HeaderUnit
    <3>. QED BY <2>3, <3>1, <3>2, Zenon
  <2>5. w[Len(x) + i].size <= MaxFrame
    BY <2>2, UnitsKnown DEF CanShow
  <2>6. MayGive(w, Len(x) + i, f)
    BY <2>1, <2>4, <2>5, Zenon DEF MayGive
  <2>. QED BY <2>2, <2>6
<1>3. f \in Nat /\ Len(x) + Len(more) <= f /\ Len(x) + Len(more) = c + shown + given
  BY <1>0, <1>1 DEF CanShow
<1>4. Given(x \o more, w, f) /\ Len(x \o more) = Len(x) + Len(more)
  <2>1. Continues(more, x, w, f)
    BY <1>2 DEF Continues
  <2>. QED BY <1>1, <1>3, <2>1, GivenMore DEF CanShow
<1>. QED BY <1>3, <1>4 DEF more
LEMMA HeaderKeeps ==
    ASSUME NEW room \in Nat, NEW ready \in Nat, FrameInv, PollHeader(room, ready)
    PROVE  FrameInv'
<1>1. PICK n, sizes, cut, before :
        SentAs(wire, cut, sizes, n) /\ Past(stream, wire, fetched, Len(exposed), cut, sizes, n, before)
  BY DEF FrameInv
<1>2. stream.rejected = FALSE
  BY <1>1 DEF PollHeader, Past, FrameStreams
<1>. DEFINE s == Turned(stream)
<1>3. PICK j : Past(s, wire, fetched, Len(exposed), cut, sizes, n, j)
  BY <1>1, <1>2, TurnedIsPast
<1>. DEFINE missing == HeaderBytes - Len(s.header)
            header == s.header \o Unread(ready)
            given == Least(room, HeaderBytes - s.shown)
            c == cut[j]
            length == sizes[j + 1]
<1>4. /\ s.shown < HeaderBytes /\ ready \in 0 .. Least(missing, Len(wire) - fetched)
      /\ fetched' = fetched + ready /\ wire' = wire
  BY DEF PollHeader
<1>14. IF ready < missing
         THEN stream' = [s EXCEPT !.header = header] /\ UNCHANGED exposed
         ELSE \E declared \in IF s.shown = 0 THEN Declared(header) ELSE {s.body} :
              IF s.shown = 0 /\ declared > MaxFrame
              THEN /\ stream' = [s EXCEPT !.header = header, !.rejected = TRUE]
                   /\ UNCHANGED exposed
              ELSE /\ stream' = [s EXCEPT !.header = header, !.body = declared, !.shown = @ + given]
                   /\ exposed' = exposed \o SubSeq(header, s.shown + 1, s.shown + given)
  BY DEF PollHeader
<1>5. s.rejected = FALSE
  BY <1>2 DEF Turned, FreshFrame
<1>. HIDE DEF s
<1>15. /\ wire \in Seq(Units) /\ cut \in [0 .. n -> Nat] /\ sizes \in [1 .. n -> Nat]
       /\ s \in FrameStreams /\ (\A i \in 1 .. Len(s.header) : s.header[i] = wire[c + i]) /\ Len(wire) <= cut[n]
  BY <1>1, <1>3 DEF SentAs, Past
<1>6. /\ HeaderBytes \in Nat \ {0} /\ MaxFrame \in Nat /\ n \in Nat
      /\ Len(wire) \in Nat /\ fetched \in 0 .. Len(wire) /\ j \in 0 .. n /\ c \in Nat
  BY <1>1, <1>3, <1>15, FramesAssumption, LenProperties DEF SentAs, Past
<1>. HIDE DEF c, length
<1>7. s.header \in Seq(Units) /\ Len(s.header) \in Nat /\ s.shown \in Nat /\ s.body \in Nat
  BY <1>15, LenProperties DEF FrameStreams
<1>8. \/ Before(s, fetched, Len(exposed), c)
      \/ j < n /\ Giving(s, fetched, Len(exposed), c, length)
  BY <1>3, <1>5 DEF Past, Refused, c, length
<1>16. missing = HeaderBytes - Len(s.header)
  OBVIOUS
<1>. HIDE DEF missing
<1>9. Len(s.header) <= HeaderBytes /\ missing \in Nat /\ ready <= missing /\ fetched + ready <= Len(wire)
      /\ fetched \in Nat /\ fetched' \in Nat
  <2>1. Len(s.header) <= HeaderBytes
    BY <1>6, <1>7, <1>8 DEF Before, Giving
  <2>. QED BY <1>4, <1>6, <1>7, <1>16, <2>1 DEF Least
<1>10. Given(exposed, wire, fetched')
  <2>1. Given(exposed, wire, fetched) /\ fetched' \in Nat /\ fetched <= fetched' /\ fetched \in Nat
    BY <1>4, <1>6, <1>9 DEF FrameInv
  <2>. QED BY <2>1, GivenStays
<1>11. /\ header \in Seq(Units) /\ Len(header) = Len(s.header) + ready
       /\ \A i \in 1 .. Len(header) : header[i] = wire[c + i]
  <2>. DEFINE units == Unread(ready)
  <2>1. units \in Seq(Units) /\ Len(units) = ready /\ \A i \in 1 .. ready : units[i] = wire[fetched + i]
    <3>1. fetched \in Nat /\ fetched + ready <= Len(wire) /\ wire \in Seq(Units)
      BY <1>9, <1>15
    <3>. QED BY <3>1, ReadUnits DEF Unread
  <2>. HIDE DEF units
  <2>2. /\ s.header \o units \in Seq(Units) /\ Len(s.header \o units) = Len(s.header) + ready
        /\ \A i \in 1 .. Len(s.header) + ready :
            (s.header \o units)[i] = IF i <= Len(s.header) THEN s.header[i] ELSE units[i - Len(s.header)]
    BY <1>7, <2>1, ConcatProperties
  <2>3. ASSUME NEW i \in 1 .. Len(s.header) + ready PROVE (s.header \o units)[i] = wire[c + i]
    <3>1. CASE i <= Len(s.header)
      BY <1>7, <1>15, <2>2, <3>1
    <3>2. CASE ~(i <= Len(s.header))
      <4>. DEFINE h == i - Len(s.header)
      <4>1. h \in 1 .. ready /\ Len(s.header) + h = i
        BY <1>7, <3>2
      <4>. HIDE DEF h
      <4>2. fetched = c + Len(s.header)
        <5>1. Len(s.header) # HeaderBytes
          BY <1>6, <1>7, <1>9, <1>16, <4>1
        <5>. QED BY <1>8, <5>1 DEF Before, Giving
      <4>3. fetched + h = c + i
        <5>1. c \in Nat /\ h \in Nat /\ Len(s.header) \in Nat /\ Len(s.header) + h = i /\ fetched = c + Len(s.header)
          BY <1>6, <1>7, <4>1, <4>2
        <5>. DEFINE l == Len(s.header)
        <5>. HIDE DEF l
        <5>2. c \in Nat /\ h \in Nat /\ l \in Nat /\ l + h = i /\ fetched = c + l
          BY <5>1 DEF l
        <5>. QED BY <5>2
      <4>4. (s.header \o units)[i] = units[h]
        BY <2>2, <3>2 DEF h
      <4>. QED BY <2>1, <4>1, <4>3, <4>4
    <3>. QED BY <3>1, <3>2
  <2>. QED BY <2>2, <2>3 DEF units
<1>. HIDE DEF header
<1>12. CASE ready < missing
  <2>1. Before(s, fetched, Len(exposed), c)
    <3>1. Len(s.header) # HeaderBytes
      BY <1>6, <1>7, <1>9, <1>12, <1>16
    <3>. QED BY <1>8, <3>1 DEF Giving
  <2>2. stream' = [s EXCEPT !.header = header] /\ exposed' = exposed
    BY <1>12, <1>14
  <2>3. /\ stream' \in FrameStreams /\ stream'.header = header /\ stream'.shown = s.shown /\ stream'.body = s.body
        /\ stream'.rejected = s.rejected
    BY <1>11, <1>15, <2>2 DEF FrameStreams
  <2>4. Len(header) < HeaderBytes /\ fetched' = c + Len(header) /\ Len(exposed') = c
    <3>1. fetched = c + Len(s.header) /\ Len(exposed) = c
      BY <2>1 DEF Before
    <3>2. Len(header) = Len(s.header) + ready /\ ready < HeaderBytes - Len(s.header)
      BY <1>11, <1>12, <1>16
    <3>3. Len(exposed') = c
      BY <2>2, <3>1
    <3>. QED BY <1>4, <1>6, <1>7, <1>9, <3>1, <3>2, <3>3
  <2>5. Before(stream', fetched', Len(exposed'), c)
    BY <2>1, <2>3, <2>4 DEF Before
  <2>6. Past(stream', wire, fetched', Len(exposed'), cut, sizes, n, j)
    <3>1. fetched' \in 0 .. Len(wire)
      BY <1>4, <1>6, <1>9
    <3>2. \A i \in 1 .. Len(stream'.header) : stream'.header[i] = wire[c + i]
      BY <1>11, <2>3
    <3>. QED BY <1>6, <2>3, <2>5, <3>1, <3>2 DEF Past, c
  <2>. QED BY <1>1, <1>4, <1>10, <2>2, <2>6 DEF FrameInv
<1>13. CASE ~(ready < missing)
  <2>1. Len(header) = HeaderBytes /\ fetched' = c + HeaderBytes /\ Len(exposed) = c + s.shown /\ c \in Nat
    <3>1. ready = HeaderBytes - Len(s.header)
      BY <1>6, <1>7, <1>9, <1>13, <1>16
    <3>2. Len(header) = HeaderBytes /\ c \in Nat
      BY <1>6, <1>7, <1>9, <1>11, <3>1
    <3>3. CASE Before(s, fetched, Len(exposed), c)
      <4>1. fetched = c + Len(s.header) /\ Len(exposed) = c /\ s.shown = 0
        BY <3>3 DEF Before
      <4>2. fetched + ready = c + HeaderBytes /\ Len(exposed) = c + s.shown
        <5>. DEFINE l == Len(s.header)
        <5>1. c \in Nat /\ HeaderBytes \in Nat /\ l \in Nat /\ ready = HeaderBytes - l /\ fetched = c + l
          BY <1>6, <1>7, <3>1, <4>1
        <5>2. Len(exposed) = c /\ s.shown = 0
          BY <4>1
        <5>. HIDE DEF l
        <5>. QED BY <5>1, <5>2
      <4>. QED BY <1>4, <3>2, <4>2
    <3>4. CASE j < n /\ Giving(s, fetched, Len(exposed), c, length)
      <4>1. s.body = length /\ Len(s.header) = HeaderBytes
        BY <1>4, <3>4 DEF Giving
      <4>2. fetched = c + HeaderBytes + (length - length) /\ Len(exposed) = c + s.shown + (length - length)
        BY <3>4, <4>1 DEF Giving
      <4>3. length \in Nat /\ ready = 0
        BY <1>6, <1>7, <3>1, <4>1
      <4>. QED BY <1>4, <1>6, <1>7, <3>2, <4>2, <4>3
    <3>. QED BY <1>8, <3>3, <3>4
  <2>2. j < n /\ j + 1 \in 1 .. n /\ length \in Nat
    <3>1. n \in 0 .. n /\ cut[n] \in Nat /\ Len(wire) <= cut[n]
      BY <1>6, <1>15
    <3>2. j # n
      <4>1. cut[j] = c
        BY DEF c
      <4>2. c + HeaderBytes <= cut[n]
        BY <1>4, <1>6, <1>9, <2>1, <3>1
      <4>. QED BY <1>6, <3>1, <4>1, <4>2
    <3>3. j < n /\ j + 1 \in 1 .. n
      BY <1>6, <3>2
    <3>. QED BY <1>15, <3>3 DEF length
  <2>3. \A i \in 1 .. HeaderBytes : header[i] = wire[c + i] /\ wire[c + i] = HeaderUnit(length, i)
    <3>1. \A i \in 1 .. HeaderBytes : c + i <= Len(wire)
      BY <1>4, <1>6, <1>9, <2>1
    <3>2. \A i \in 1 .. HeaderBytes : c + i <= Len(wire) => wire[c + i] = HeaderUnit(length, i)
      BY <1>1, <1>6, <2>2 DEF SentAs, c, length
    <3>. QED BY <1>11, <2>1, <3>1, <3>2
  <2>4. Declared(header) = {length}
    <3>1. DOMAIN header = 1 .. HeaderBytes /\ 1 \in 1 .. HeaderBytes
      BY <1>6, <1>11, <2>1, LenProperties
    <3>2. (\A i \in DOMAIN header : header[i].part = "header") /\ header[1].size = length
      BY <2>3, <3>1, UnitsKnown
    <3>. QED BY <3>2 DEF Declared
  <2>5. s.shown # 0 => s.body = length /\ length <= MaxFrame
    BY <1>4, <1>8 DEF Before, Giving
  <2>6. IF s.shown = 0 /\ length > MaxFrame
        THEN /\ stream' = [s EXCEPT !.header = header, !.rejected = TRUE]
             /\ exposed' = exposed
        ELSE /\ stream' = [s EXCEPT !.header = header, !.body = length, !.shown = @ + given]
             /\ exposed' = exposed \o SubSeq(header, s.shown + 1, s.shown + given)
    BY <1>13, <1>14, <2>4, <2>5
  <2>7. fetched' \in 0 .. Len(wire)
    BY <1>4, <1>6, <1>9
  <2>8. CASE s.shown = 0 /\ length > MaxFrame
    <3>1. stream' = [s EXCEPT !.header = header, !.rejected = TRUE] /\ exposed' = exposed
      BY <2>6, <2>8
    <3>2. stream' \in FrameStreams /\ stream'.header = header /\ stream'.rejected = TRUE
      BY <1>11, <1>15, <3>1 DEF FrameStreams
    <3>3. Refused(stream', fetched', Len(exposed'), c, length)
      BY <2>1, <2>8, <3>1, <3>2 DEF Refused
    <3>4. \A i \in 1 .. Len(stream'.header) : stream'.header[i] = wire[c + i]
      BY <1>11, <3>2
    <3>5. Past(stream', wire, fetched', Len(exposed'), cut, sizes, n, j)
      BY <1>6, <2>2, <2>7, <3>2, <3>3, <3>4 DEF Past, c, length
    <3>. QED BY <1>1, <1>4, <1>10, <3>1, <3>5 DEF FrameInv
  <2>9. CASE ~(s.shown = 0 /\ length > MaxFrame)
    <3>1. /\ stream' = [s EXCEPT !.header = header, !.body = length, !.shown = @ + given]
          /\ exposed' = exposed \o SubSeq(header, s.shown + 1, s.shown + given)
      BY <2>6, <2>9
    <3>2. length <= MaxFrame /\ given \in Nat /\ s.shown + given <= HeaderBytes
      BY <1>4, <1>6, <1>7, <2>2, <2>5, <2>9 DEF Least
    <3>. HIDE DEF given
    <3>3. /\ stream' \in FrameStreams /\ stream'.header = header /\ stream'.rejected = FALSE
          /\ stream'.body = length /\ stream'.shown = s.shown + given
      <4>1. s.shown + given \in Nat
        BY <1>7, <3>2
      <4>2. stream' = [s EXCEPT !.header = header, !.body = length, !.shown = s.shown + given]
        BY <1>15, <3>1 DEF FrameStreams
      <4>. DEFINE shown == s.shown + given
      <4>. HIDE DEF shown
      <4>3. stream' = [s EXCEPT !.header = header, !.body = length, !.shown = shown] /\ shown \in Nat
        BY <4>1, <4>2 DEF shown
      <4>4. /\ stream' \in FrameStreams /\ stream'.header = header /\ stream'.rejected = FALSE
            /\ stream'.body = length /\ stream'.shown = shown
        BY <1>5, <1>11, <1>15, <2>2, <4>3 DEF FrameStreams
      <4>. QED BY <4>4 DEF shown
    <3>4. Given(exposed', wire, fetched') /\ Len(exposed') = c + s.shown + given
      <4>. DEFINE new == SubSeq(header, s.shown + 1, s.shown + given)
                  f == fetched'
      <4>. HIDE DEF f
      <4>1. f = c + HeaderBytes /\ Given(exposed, wire, f) /\ c \in Nat /\ s.shown \in Nat /\ header \in Seq(Units)
        BY <1>7, <1>10, <1>11, <2>1 DEF f
      <4>2. Given(exposed \o new, wire, f) /\ Len(exposed \o new) = c + s.shown + given
        <5>. HIDE DEF c
        <5>1. Len(header) = HeaderBytes /\ Len(exposed) = c + s.shown /\ length \in Nat /\ given \in Nat
              /\ s.shown + given <= HeaderBytes /\ length <= MaxFrame
          BY <2>1, <2>2, <3>2
        <5>2. CanShow(exposed, wire, f, c, length, header, s.shown, given)
          BY <2>3, <4>1, <5>1 DEF CanShow
        <5>3. ASSUME NEW a, a = s.shown, NEW b, b = given, NEW g, g = f, NEW h, h = header, NEW d, d = c, NEW z, z = length
              PROVE /\ Given(exposed \o SubSeq(h, a + 1, a + b), wire, g)
                    /\ Len(exposed \o SubSeq(h, a + 1, a + b)) = d + a + b
          <6>1. CanShow(exposed, wire, g, d, z, h, a, b)
            BY <5>2, <5>3, Zenon
          <6>2. d \in Nat /\ z \in Nat /\ h \in Seq(Units) /\ a \in Nat /\ b \in Nat
            BY <4>1, <5>1, <5>3, Zenon
          <6>. QED BY <6>1, <6>2, HeaderIsShown
        <5>. QED BY <5>3, Zenon
      <4>. QED BY <3>1, <4>2 DEF f
    <3>5. Giving(stream', fetched', Len(exposed'), c, length)
      <4>1. fetched' = c + HeaderBytes + (length - length)
            /\ Len(exposed') = c + (s.shown + given) + (length - length) /\ length <= length
        BY <1>6, <1>7, <2>1, <2>2, <3>2, <3>4
      <4>. QED BY <1>11, <2>1, <3>2, <3>3, <4>1 DEF Giving
    <3>6. \A i \in 1 .. Len(stream'.header) : stream'.header[i] = wire[c + i]
      BY <1>11, <3>3
    <3>7. Past(stream', wire, fetched', Len(exposed'), cut, sizes, n, j)
      BY <1>6, <2>2, <2>7, <3>3, <3>5, <3>6 DEF Past, c, length
    <3>. QED BY <1>1, <1>4, <3>4, <3>7 DEF FrameInv
  <2>. QED BY <2>8, <2>9
<1>. QED BY <1>12, <1>13

LEMMA BodyKeeps ==
    ASSUME NEW room \in Nat, NEW ready \in Nat, FrameInv, PollBody(room, ready)
    PROVE  FrameInv'
<1>1. PICK n, sizes, cut, before :
        SentAs(wire, cut, sizes, n) /\ Past(stream, wire, fetched, Len(exposed), cut, sizes, n, before)
  BY DEF FrameInv
<1>2. stream.rejected = FALSE
  BY <1>1 DEF PollBody, Past, FrameStreams
<1>. DEFINE s == Turned(stream)
<1>3. PICK j : Past(s, wire, fetched, Len(exposed), cut, sizes, n, j)
  BY <1>1, <1>2, TurnedIsPast
<1>. DEFINE c == cut[j]
            length == sizes[j + 1]
<1>4. /\ s.shown = HeaderBytes
      /\ ready \in 1 .. Least(Least(room, Least(s.body, PieceBytes)), Len(wire) - fetched)
      /\ fetched' = fetched + ready /\ wire' = wire
  BY DEF PollBody
<1>5. exposed' = exposed \o Unread(ready) /\ stream' = [s EXCEPT !.body = @ - ready]
  BY DEF PollBody
<1>6. s.rejected = FALSE
  BY <1>2 DEF Turned, FreshFrame
<1>. HIDE DEF s
<1>7. /\ wire \in Seq(Units) /\ cut \in [0 .. n -> Nat] /\ sizes \in [1 .. n -> Nat]
      /\ s \in FrameStreams /\ \A i \in 1 .. Len(s.header) : s.header[i] = wire[c + i]
  BY <1>1, <1>3 DEF SentAs, Past
<1>8. /\ HeaderBytes \in Nat \ {0} /\ PieceBytes \in Nat /\ n \in Nat /\ Len(wire) \in Nat
      /\ fetched \in 0 .. Len(wire) /\ j \in 0 .. n /\ c \in Nat
  BY <1>1, <1>3, <1>7, FramesAssumption, LenProperties DEF SentAs, Past
<1>9. j < n /\ Giving(s, fetched, Len(exposed), c, length)
  BY <1>3, <1>4, <1>6, <1>8 DEF Past, Before, Refused
<1>10. j + 1 \in 1 .. n /\ length \in Nat
  <2>1. j + 1 \in 1 .. n
    BY <1>8, <1>9
  <2>. QED BY <1>7, <2>1
<1>11. s.header \in Seq(Units) /\ s.body \in Nat /\ s.shown \in Nat
  BY <1>7 DEF FrameStreams
<1>. HIDE DEF c, length
<1>12. /\ Len(s.header) = HeaderBytes /\ length <= MaxFrame /\ s.body <= length
       /\ fetched = c + HeaderBytes + (length - s.body)
       /\ Len(exposed) = c + HeaderBytes + (length - s.body)
  BY <1>4, <1>9 DEF Giving
<1>13. ready <= s.body /\ fetched + ready <= Len(wire) /\ fetched \in Nat /\ ready # 0
  BY <1>4, <1>8, <1>11 DEF Least
<1>14. /\ Unread(ready) \in Seq(Units) /\ Len(Unread(ready)) = ready
       /\ \A i \in 1 .. ready : Unread(ready)[i] = wire[fetched + i]
  BY <1>7, <1>13, ReadUnits DEF Unread
<1>15. ASSUME NEW i \in 1 .. ready PROVE wire[fetched + i] = [part |-> "body"]
  <2>. DEFINE at == (length - s.body) + i
  <2>1. at \in 1 .. length /\ c + HeaderBytes + at = fetched + i
    <3>. DEFINE body == s.body
    <3>1. /\ HeaderBytes \in Nat /\ c \in Nat /\ length \in Nat /\ body \in Nat /\ body <= length
          /\ ready <= body /\ fetched = c + HeaderBytes + (length - body)
      BY <1>8, <1>10, <1>11, <1>12, <1>13
    <3>. HIDE DEF body
    <3>2. (length - body) + i \in 1 .. length /\ c + HeaderBytes + ((length - body) + i) = fetched + i
      BY <3>1
    <3>. QED BY <3>2 DEF body
  <2>2. fetched + i <= Len(wire)
    BY <1>8, <1>13
  <2>. HIDE DEF at
  <2>3. \A h \in 1 .. length : c + HeaderBytes + h <= Len(wire) => wire[c + HeaderBytes + h] = [part |-> "body"]
    BY <1>1, <1>8, <1>9 DEF SentAs, c, length
  <2>. QED BY <2>1, <2>2, <2>3
<1>16. Given(exposed', wire, fetched') /\ Len(exposed') = fetched'
  <2>. DEFINE more == Unread(ready)
              f == fetched + ready
  <2>1. f \in Nat /\ fetched <= f /\ Len(exposed) = fetched /\ Len(exposed) + ready = f
    BY <1>12, <1>13
  <2>2. Given(exposed, wire, f)
    <3>1. Given(exposed, wire, fetched)
      BY DEF FrameInv
    <3>. HIDE DEF f
    <3>. QED BY <1>13, <2>1, <3>1, GivenStays
  <2>3. more \in Seq(Units) /\ Len(more) = ready /\ \A i \in 1 .. ready : more[i] = wire[Len(exposed) + i]
    BY <1>14, <2>1
  <2>. HIDE DEF more, f
  <2>4. ASSUME NEW i \in 1 .. ready PROVE MayGive(wire, Len(exposed) + i, f)
    <3>1. wire[Len(exposed) + i].part = "body"
      BY <1>15, <2>1, UnitsKnown
    <3>. QED BY <3>1 DEF MayGive
  <2>5. Given(exposed \o more, wire, f) /\ Len(exposed \o more) = Len(exposed) + Len(more)
    <3>1. Continues(more, exposed, wire, f)
      BY <2>3, <2>4 DEF Continues
    <3>. QED BY <2>1, <2>2, <2>3, <3>1, GivenMore
  <2>. QED BY <1>4, <1>5, <2>1, <2>3, <2>5 DEF more, f
<1>17. /\ stream' \in FrameStreams /\ stream'.header = s.header /\ stream'.rejected = FALSE
       /\ stream'.body = s.body - ready /\ stream'.shown = s.shown
  <2>. DEFINE body == s.body - ready
  <2>1. body \in Nat
    BY <1>11, <1>13
  <2>2. stream' = [s EXCEPT !.body = body]
    BY <1>5, <1>7 DEF FrameStreams
  <2>. HIDE DEF body
  <2>3. /\ stream' \in FrameStreams /\ stream'.header = s.header /\ stream'.rejected = FALSE
        /\ stream'.body = body /\ stream'.shown = s.shown
    BY <1>6, <1>7, <2>1, <2>2 DEF FrameStreams
  <2>. QED BY <2>3 DEF body
<1>18. Giving(stream', fetched', Len(exposed'), c, length)
  <2>1. s.body - ready <= length /\ fetched' = c + HeaderBytes + (length - (s.body - ready))
    <3>. DEFINE body == s.body
    <3>1. /\ HeaderBytes \in Nat /\ c \in Nat /\ length \in Nat /\ body \in Nat /\ body <= length
          /\ ready <= body /\ fetched = c + HeaderBytes + (length - body)
      BY <1>8, <1>10, <1>11, <1>12, <1>13
    <3>. HIDE DEF body
    <3>2. body - ready <= length /\ fetched + ready = c + HeaderBytes + (length - (body - ready))
      BY <3>1
    <3>. QED BY <1>4, <3>2 DEF body
  <2>2. Len(exposed') = c + HeaderBytes + (length - (s.body - ready)) /\ HeaderBytes <= HeaderBytes
        /\ ~(HeaderBytes < HeaderBytes)
    BY <1>8, <1>16, <2>1
  <2>. QED BY <1>4, <1>12, <1>17, <2>1, <2>2 DEF Giving
<1>19. Past(stream', wire, fetched', Len(exposed'), cut, sizes, n, j)
  <2>1. fetched' \in 0 .. Len(wire)
    BY <1>4, <1>8, <1>13
  <2>. QED BY <1>7, <1>8, <1>9, <1>17, <1>18, <2>1 DEF Past, c, length
<1>. QED BY <1>1, <1>4, <1>16, <1>19 DEF FrameInv

(* FrameInv says what the decoder may be given. *)
LEMMA FramesArePrefix ==
    ASSUME FrameInv
    PROVE  FramesAreBounded
<1>1. PICK n, sizes, cut, j :
        SentAs(wire, cut, sizes, n) /\ Past(stream, wire, fetched, Len(exposed), cut, sizes, n, j)
  BY DEF FrameInv
<1>2. /\ exposed \in Seq(Units) /\ Len(exposed) <= fetched
      /\ \A i \in 1 .. Len(exposed) : exposed[i] = wire[i] /\ MayGive(wire, i, fetched)
  BY DEF FrameInv, Given
<1>3. wire \in Seq(Units) /\ fetched \in 0 .. Len(wire) /\ Len(wire) \in Nat /\ Len(exposed) \in Nat
      /\ DOMAIN wire = 1 .. Len(wire) /\ DOMAIN exposed = 1 .. Len(exposed)
  BY <1>1, <1>2, LenProperties DEF SentAs, Past
<1>4. IsPrefix(exposed, wire)
  <2>1. Len(exposed) <= Len(wire)
    BY <1>2, <1>3
  <2>. DEFINE l == Len(exposed)
  <2>2. /\ SubSeq(wire, 0 + 1, 0 + l) \in Seq(Units) /\ Len(SubSeq(wire, 0 + 1, 0 + l)) = l
        /\ \A i \in 1 .. l : SubSeq(wire, 0 + 1, 0 + l)[i] = wire[0 + i]
    <3>. HIDE DEF l
    <3>. QED BY <1>3, <2>1, ReadUnits DEF l
  <2>3. /\ SubSeq(exposed, 0 + 1, 0 + l) \in Seq(Units) /\ Len(SubSeq(exposed, 0 + 1, 0 + l)) = l
        /\ \A i \in 1 .. l : SubSeq(exposed, 0 + 1, 0 + l)[i] = exposed[0 + i]
    <3>1. 0 + l <= Len(exposed) /\ 0 \in Nat /\ l \in Nat
      BY <1>3
    <3>. HIDE DEF l
    <3>. QED BY <1>2, <3>1, ReadUnits
  <2>4. 0 + 1 = 1 /\ 0 + l = l /\ \A i \in 1 .. l : 0 + i = i
    BY <1>3
  <2>. HIDE DEF l
  <2>5. SubSeq(exposed, 1, l) = SubSeq(wire, 1, l)
    <3>. DEFINE a == SubSeq(exposed, 1, l)
                b == SubSeq(wire, 1, l)
    <3>1. a \in Seq(Units) /\ b \in Seq(Units) /\ Len(a) = Len(b) /\ \A i \in 1 .. Len(a) : a[i] = b[i]
      BY <1>2, <2>2, <2>3, <2>4 DEF l
    <3>. HIDE DEF a, b
    <3>2. a = b
      BY <3>1, SeqEqual
    <3>. QED BY <3>2 DEF a, b
  <2>. QED BY <2>1, <2>5 DEF IsPrefix, l
<1>5. ASSUME NEW i \in DOMAIN exposed, exposed[i].part = "header"
      PROVE  /\ exposed[i].size <= MaxFrame
             /\ \E k \in i .. fetched : wire[k].part = "header" /\ wire[k].last
  BY <1>2, <1>3, <1>5, Zenon DEF MayGive
<1>6. ASSUME stream.rejected
      PROVE  /\ Len(exposed) + 1 \in DOMAIN wire
             /\ wire[Len(exposed) + 1].part = "header" /\ wire[Len(exposed) + 1].size > MaxFrame
  <2>. DEFINE c == cut[j]
              length == sizes[j + 1]
  <2>1. j < n /\ Refused(stream, fetched, Len(exposed), c, length) /\ j \in 0 .. n /\ c \in Nat
    BY <1>1, <1>6 DEF Past, Before, Giving, SentAs
  <2>2. HeaderBytes \in Nat /\ 1 \in 1 .. HeaderBytes
    BY FramesAssumption
  <2>3. \A i \in 1 .. HeaderBytes : c + i <= Len(wire) => wire[c + i] = HeaderUnit(length, i)
    BY <1>1, <2>1 DEF SentAs
  <2>. HIDE DEF c, length
  <2>4. Len(exposed) = c /\ fetched = c + HeaderBytes /\ length > MaxFrame
    BY <2>1 DEF Refused
  <2>5. c + 1 <= Len(wire) /\ c + 1 \in 1 .. Len(wire)
    BY <1>3, <2>1, <2>2, <2>4
  <2>6. wire[c + 1] = HeaderUnit(length, 1)
    BY <2>2, <2>3, <2>5
  <2>. QED BY <1>3, <2>4, <2>5, <2>6, UnitsKnown
<1>. QED BY <1>4, <1>5, <1>6 DEF FramesAreBounded

(* FramesAreBounded: for every size of a header, limit of a frame, size of a piece and of
   the decoder's buffer, and whatever the target sends, wherever it is cut and however it
   arrives, what poll_read gives the decoder is the beginning of it, a header only once it
   was there whole and declared no more than MAX_SFTP_FRAME_BYTES, and a stream is refused
   only at a header that declares more, after all before it was given. *)
THEOREM FramesAlwaysBounded == FramesSpec => []FramesAreBounded
<1>1. FramesInit => FrameInv
  <2>1. SUFFICES ASSUME FramesInit PROVE FrameInv
    OBVIOUS
  <2>2. PICK n, sizes, cut : SentAs(wire, cut, sizes, n)
    BY <2>1, WiresAreSent DEF FramesInit
  <2>3. stream = FreshFrame /\ fetched = 0 /\ exposed = <<>> /\ Len(<<>>) = 0 /\ <<>> \in Seq(Units)
    BY <2>1 DEF FramesInit
  <2>4. HeaderBytes \in Nat \ {0} /\ n \in Nat /\ Len(wire) \in Nat /\ cut[0] = 0
    BY <2>2, FramesAssumption, LenProperties DEF SentAs
  <2>5. FreshFrame \in FrameStreams /\ Len(FreshFrame.header) = 0
    BY <2>3 DEF FreshFrame, FrameStreams
  <2>6. Before(FreshFrame, 0, 0, cut[0])
    BY <2>3, <2>4, <2>5 DEF Before, FreshFrame
  <2>7. 0 \in 0 .. n /\ 0 \in 0 .. Len(wire) /\ \A i \in 1 .. Len(FreshFrame.header) : FALSE
    BY <2>4, <2>5
  <2>8. Past(FreshFrame, wire, 0, 0, cut, sizes, n, 0)
    BY <2>5, <2>6, <2>7 DEF Past
  <2>9. Given(exposed, wire, fetched)
    BY <2>3 DEF Given
  <2>. QED BY <2>2, <2>3, <2>8, <2>9 DEF FrameInv
<1>2. FrameInv /\ [FramesNext]_frameVars => FrameInv'
  <2>1. SUFFICES ASSUME FrameInv, [FramesNext]_frameVars PROVE FrameInv'
    OBVIOUS
  <2>2. ASSUME NEW room \in 1 .. BufferBytes, NEW ready \in 0 .. HeaderBytes, PollHeader(room, ready)
        PROVE  FrameInv'
    <3>1. room \in Nat /\ ready \in Nat
      BY FramesAssumption
    <3>. QED BY <2>1, <2>2, <3>1, HeaderKeeps
  <2>3. ASSUME NEW room \in 1 .. BufferBytes, NEW ready \in 1 .. PieceBytes, PollBody(room, ready)
        PROVE  FrameInv'
    <3>1. room \in Nat /\ ready \in Nat
      BY FramesAssumption
    <3>. QED BY <2>1, <2>3, <3>1, BodyKeeps
  <2>4. CASE UNCHANGED frameVars
    BY <2>1, <2>4 DEF frameVars, FrameInv
  <2>. QED BY <2>1, <2>2, <2>3, <2>4 DEF FramesNext
<1>3. FrameInv => FramesAreBounded
  BY FramesArePrefix
<1>. QED BY <1>1, <1>2, <1>3, PTL DEF FramesSpec
=============================================================================
