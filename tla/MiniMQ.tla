------------------------------- MODULE MiniMQ -------------------------------
(***************************************************************************)
(* The stage6 mini-mq broker: one topic ("events") of NumPartitions       *)
(* partitions, each a list of segment files, as cmd/broker and             *)
(* cmd/consumer create it; producers appending through Broker.Produce,     *)
(* consumers polling through Broker.Fetch and committing to the offset     *)
(* manager, and a restart of the process, which keeps only the files.     *)
(*                                                                         *)
(* A message is an id 1..MaxMessages (its key and value are never looked  *)
(* at by the broker).  Sizes are counted in messages: a segment is full    *)
(* when it holds SegmentMessages whole records (LogSize >= MaxBytes).      *)
(***************************************************************************)
EXTENDS Integers, Sequences, SequencesExt, FiniteSets, FiniteSetsExt

CONSTANTS
    NumPartitions,     \* TopicConfig.NumPartitions
    SegmentMessages,   \* TopicConfig.SegmentBytes, in encoded messages
    BatchSize,         \* producer.NewClient batchSize
    Consumers,         \* consumer.Client objects of group "group-1"
    MaxMessages,       \* bound: messages produced over all lifetimes
    MaxRestarts,       \* bound: process restarts
    MaxTornWrites      \* bound: LogFile.Write calls failing part-way

Partitions == 0 .. NumPartitions - 1
Offsets == 0 .. MaxMessages
MsgIds == 1 .. MaxMessages

\* A record of a segment file: an encoded message, or the bytes a failed
\* Write left behind, which decodeMessage rejects (crc mismatch or a short
\* read that is not io.EOF).
Torn == [off |-> -1, msg |-> 0]
Record == [off : Offsets, msg : MsgIds] \cup {Torn}

\* Results of Segment.Read and Partition.Read: a message id, or an error.
NotFound == -1     \* ErrOffsetNotFound
Corrupt == -2      \* any other decode error
NoReply == 0

VARIABLES
    files,      \* files[p][b]: the records of segment file base b of partition p (on disk)
    segs,       \* segs[p]: Partition.Segments, [base, next, size] each; the last is ActiveSeg
    counter,    \* RoundRobinPartitioner.counter (one per Send of a lifetime)
    batch,      \* len(BatchBuffer.messages)
    offsets,    \* offsets[c][p]: consumer.Client.offsets
    committed,  \* committed[p]: OffsetManager offset of group-1
    rd,         \* rd[c]: the consumer's Poll in progress, or its last reply
    acked,      \* ghost: acked[p][o], the last message acknowledged at offset o (0 = none)
    sent,       \* ghost: messages produced so far
    delivered,  \* ghost: delivered[c][p], messages Poll returned in this lifetime
    restarts,   \* ghost: restarts so far
    torn        \* ghost: failed writes so far

vars == <<files, segs, counter, batch, offsets, committed, rd, acked, sent,
          delivered, restarts, torn>>

Segment == [base : Offsets, next : Offsets, size : 0 .. MaxMessages + MaxTornWrites]
Reader == [st : {"idle", "reading"}, p : Partitions, off : Offsets,
           snap : Seq(Offsets), i : 0 .. MaxMessages + 1,
           exp : 0 .. MaxMessages, res : {NoReply, NotFound, Corrupt} \cup MsgIds]

TypeOK ==
    /\ files \in [Partitions -> [Offsets -> Seq(Record)]]
    /\ segs \in [Partitions -> Seq(Segment)]
    /\ counter \in 0 .. MaxMessages
    /\ batch \in 0 .. BatchSize - 1
    /\ offsets \in [Consumers -> [Partitions -> Offsets]]
    /\ committed \in [Partitions -> Offsets]
    /\ rd \in [Consumers -> Reader]
    /\ acked \in [Partitions -> [Offsets -> 0 .. MaxMessages]]
    /\ sent \in 0 .. MaxMessages
    /\ delivered \in [Consumers -> [Partitions -> Seq(MsgIds)]]
    /\ restarts \in 0 .. MaxRestarts
    /\ torn \in 0 .. MaxTornWrites

-----------------------------------------------------------------------------
(* Storage: segment.go and partition.go.                                   *)

\* NewSegment(dir, base, maxBytes): open (or create) the file with
\* O_APPEND; LogSize is the file's size, NextOffset is the base offset.
NewSegment(p, base) == [base |-> base, next |-> base, size |-> Len(files[p][base])]

\* Segment.IsFull
IsFull(s) == s.size >= SegmentMessages

\* Mutant: the new segment is based at the active one's BaseOffset.
RollFromActiveBase(p) ==
    LET act == Last(segs[p])
    IN IF IsFull(act) THEN Append(segs[p], NewSegment(p, act.base)) ELSE segs[p]

\* The head of Partition.Append: roll to a new segment, based at the
\* active segment's NextOffset, when the active one is full.
RollIfFull(p) ==
    LET act == Last(segs[p])
    IN IF IsFull(act) THEN Append(segs[p], NewSegment(p, act.next)) ELSE segs[p]

\* Segment.Read: scan the file from the start; the first record carrying
\* the offset wins, and a record that does not decode ends the scan.
SegmentRead(recs, off) ==
    LET hits == {j \in 1 .. Len(recs) : recs[j] = Torn \/ recs[j].off = off}
    IN IF hits = {} THEN NotFound
       ELSE IF recs[Min(hits)] = Torn THEN Corrupt ELSE recs[Min(hits)].msg

\* Partition.Append (and Segment.Append inside it), under p.mu: the whole
\* of it is one step.  The message gets the active segment's NextOffset.
PartitionAppend(p) ==
    LET ss == RollIfFull(p)
        a == Last(ss)
        m == sent + 1
    IN /\ sent < MaxMessages
       /\ files' = [files EXCEPT ![p][a.base] = Append(@, [off |-> a.next, msg |-> m])]
       /\ segs' = [segs EXCEPT ![p] = [ss EXCEPT ![Len(ss)] = [a EXCEPT !.next = @ + 1,
                                                                    !.size = @ + 1]]]
       /\ acked' = [acked EXCEPT ![p][a.next] = m]
       /\ sent' = m

\* Partition.Append whose LogFile.Write fails after writing part of the
\* record: the roll has happened, the bytes stay in the file, and neither
\* NextOffset nor LogSize moves.  Produce returns the error.
PartitionAppendTorn(p) ==
    LET ss == RollIfFull(p)
    IN /\ torn < MaxTornWrites
       /\ files' = [files EXCEPT ![p][Last(ss).base] = Append(@, Torn)]
       /\ segs' = [segs EXCEPT ![p] = ss]
       /\ torn' = torn + 1
       /\ UNCHANGED <<acked, sent>>

-----------------------------------------------------------------------------
(* Clients.                                                                *)

\* handler.handleProduce / Broker.Produce with a partition in range (one
\* out of range is an error that changes nothing).
Produce(p) ==
    /\ PartitionAppend(p)
    /\ UNCHANGED <<counter, batch, offsets, committed, rd, delivered, restarts, torn>>

\* RoundRobinPartitioner.Partition: p.counter++, and the partition is the
\* new counter modulo the number of partitions (an int64 that MaxMessages
\* keeps far from overflow).
RoundRobin == (counter + 1) % NumPartitions

\* Mutant: Add reports flush only once the batch is past batchSize.
BatchAddLate == {0} \cup {b \in {batch + 1} : b <= BatchSize}

\* BatchBuffer.Add then, when it says flush, BatchBuffer.Drain: the batch
\* grows by one, and empties when it reaches BatchSize or when its linger
\* time has passed (the clock is not modelled, so at any size).
BatchAfterAdd == {0} \cup {b \in {batch + 1} : b < BatchSize}

\* producer.Client.Send: pick the partition round robin, produce, then add
\* the message to the batch buffer and drain it when it is full or its
\* linger time has passed (a Drain discards the batch).
Send ==
    LET p == RoundRobin
    IN /\ counter' = counter + 1
       /\ PartitionAppend(p)
       /\ batch' \in BatchAfterAdd
       /\ UNCHANGED <<offsets, committed, rd, delivered, restarts, torn>>

\* A write error: handleProduce or Send gets the error back.
ProduceFails(p) ==
    /\ PartitionAppendTorn(p)
    /\ UNCHANGED <<counter, batch, offsets, committed, rd, delivered, restarts>>

\* consumer.Client.Poll, first half: read c.offsets[key], and in
\* Partition.Read copy p.Segments under the read lock.  `exp` is a ghost:
\* the message acknowledged at that offset when the copy is taken.
PollStart(c, p) ==
    LET snap == [j \in 1 .. Len(segs[p]) |-> segs[p][j].base]
    IN /\ rd[c].st = "idle"
       /\ rd' = [rd EXCEPT ![c] = [st |-> "reading", p |-> p, off |-> offsets[c][p],
                                   snap |-> snap, i |-> Len(snap),
                                   exp |-> acked[p][offsets[c][p]], res |-> NoReply]]
       /\ UNCHANGED <<files, segs, counter, batch, offsets, committed, acked, sent,
                      delivered, restarts, torn>>

\* Mutant: c.offsets[key] = offset + 1 before the error check.
PollReturnAlwaysAdvances(c, res) ==
    LET r == rd[c]
    IN /\ rd' = [rd EXCEPT ![c] = [r EXCEPT !.st = "idle", !.res = res]]
       /\ offsets' = [offsets EXCEPT ![c][r.p] = r.off + 1]
       /\ delivered' = IF res > 0 THEN [delivered EXCEPT ![c][r.p] = Append(@, res)]
                                  ELSE delivered

\* The end of Poll: record the reply, and on success advance c.offsets.
PollReturn(c, res) ==
    LET r == rd[c]
    IN /\ rd' = [rd EXCEPT ![c] = [r EXCEPT !.st = "idle", !.res = res]]
       /\ IF res > 0
          THEN /\ offsets' = [offsets EXCEPT ![c][r.p] = r.off + 1]
               /\ delivered' = [delivered EXCEPT ![c][r.p] = Append(@, res)]
          ELSE UNCHANGED <<offsets, delivered>>

\* Mutant: the loop returns every error, ErrOffsetNotFound included.
PollScanStopsAtNotFound(c) ==
    LET r == rd[c]
        res == SegmentRead(files[r.p][r.snap[r.i]], r.off)
    IN /\ r.st = "reading" /\ r.i > 0
       /\ PollReturn(c, res)
       /\ UNCHANGED <<files, segs, counter, batch, committed, acked, sent, restarts, torn>>

\* Partition.Read's loop, newest segment of the copy first: one
\* Segment.Read under that segment's mutex.  ErrOffsetNotFound moves on
\* to the previous segment; a message or another error is returned.
PollScan(c) ==
    LET r == rd[c]
        res == SegmentRead(files[r.p][r.snap[r.i]], r.off)
    IN /\ r.st = "reading" /\ r.i > 0
       /\ IF res = NotFound
          THEN rd' = [rd EXCEPT ![c].i = @ - 1] /\ UNCHANGED <<offsets, delivered>>
          ELSE PollReturn(c, res)
       /\ UNCHANGED <<files, segs, counter, batch, committed, acked, sent, restarts, torn>>

\* Partition.Read after the loop: no segment had the offset.
PollNotFound(c) ==
    /\ rd[c].st = "reading" /\ rd[c].i = 0
    /\ PollReturn(c, NotFound)
    /\ UNCHANGED <<files, segs, counter, batch, committed, acked, sent, restarts, torn>>

\* OffsetManager.Commit under m.mu: the group's offset of partition p is o
\* (one topic and one group, so the key is the partition).
OffsetCommit(p, o) == [committed EXCEPT ![p] = o]

\* consumer.Client.Commit: OffsetManager.Commit of the local offset.
Commit(c, p) ==
    /\ committed' = OffsetCommit(p, offsets[c][p])
    /\ UNCHANGED <<files, segs, counter, batch, offsets, rd, acked, sent, delivered,
                   restarts, torn>>

-----------------------------------------------------------------------------
(* The process.                                                            *)

IdleReader == [st |-> "idle", p |-> 0, off |-> 0, snap |-> <<>>, i |-> 0,
               exp |-> 0, res |-> NoReply]

\* main: NewBroker and CreateTopic("events"): every partition opens the
\* segment file of base 0 and nothing else; the clients start afresh.
BootSegs(f) == [p \in Partitions |-> <<[base |-> 0, next |-> 0, size |-> Len(f[p][0])]>>]
NoOffsets == [c \in Consumers |-> [p \in Partitions |-> 0]]
NoDeliveries == [c \in Consumers |-> [p \in Partitions |-> <<>>]]

Init ==
    /\ files = [p \in Partitions |-> [b \in Offsets |-> <<>>]]
    /\ segs = BootSegs(files)
    /\ counter = 0 /\ batch = 0
    /\ offsets = NoOffsets
    /\ committed = [p \in Partitions |-> 0]
    /\ rd = [c \in Consumers |-> IdleReader]
    /\ delivered = NoDeliveries
    /\ acked = [p \in Partitions |-> [o \in Offsets |-> 0]]
    /\ sent = 0 /\ restarts = 0 /\ torn = 0

\* The process exits and main runs again; the segment files stay.
Restart ==
    /\ restarts < MaxRestarts
    /\ restarts' = restarts + 1
    /\ segs' = BootSegs(files)
    /\ counter' = 0 /\ batch' = 0
    /\ offsets' = NoOffsets
    /\ committed' = [p \in Partitions |-> 0]
    /\ rd' = [c \in Consumers |-> IdleReader]
    /\ delivered' = NoDeliveries
    /\ UNCHANGED <<files, acked, sent, torn>>

\* One lifetime of the process, with every write succeeding.
LifeNext ==
    \/ Send
    \/ \E p \in Partitions : Produce(p)
    \/ \E c \in Consumers : PollScan(c) \/ PollNotFound(c)
    \/ \E c \in Consumers, p \in Partitions : PollStart(c, p) \/ Commit(c, p)

Next ==
    \/ LifeNext
    \/ \E p \in Partitions : ProduceFails(p)
    \/ Restart

LifeSpec == Init /\ [][LifeNext]_vars

Spec == Init /\ [][Next]_vars

\* Partition.Read as one call, now: the copy of p.Segments scanned newest
\* first, the first answer other than ErrOffsetNotFound returned.
PartitionRead(p, o) ==
    LET rs == [i \in 1 .. Len(segs[p]) |-> SegmentRead(files[p][segs[p][i].base], o)]
        hits == {i \in DOMAIN rs : rs[i] # NotFound}
    IN IF hits = {} THEN NotFound ELSE rs[Max(hits)]

-----------------------------------------------------------------------------
(* Properties.                                                             *)

\* The layout Partition.Read relies on: the in-memory segments of a
\* partition start at offset 0 and each begins where the previous one
\* ended (rollSegment's base is ActiveSeg.NextOffset); the file of each
\* holds exactly its offsets, in order, with the acknowledged messages;
\* LogSize is the file's length; no other file has records.
SegmentsTileLog ==
    \A p \in Partitions :
        LET s == segs[p]
            bases == {s[i].base : i \in DOMAIN s}
        IN /\ s[1].base = 0
           /\ \A i \in 1 .. Len(s) - 1 : s[i + 1].base = s[i].next
           /\ \A i \in DOMAIN s :
                 /\ s[i].size = Len(files[p][s[i].base])
                 /\ files[p][s[i].base] =
                       [j \in 1 .. s[i].next - s[i].base |->
                          [off |-> s[i].base + j - 1, msg |-> acked[p][s[i].base + j - 1]]]
           /\ \A b \in Offsets \ bases : files[p][b] = <<>>

\* Consumer.Poll is linearizable against Produce although Partition.Read
\* copies the segment list and then reads each segment under its own lock
\* while appends and rolls go on: a message returned is the one
\* acknowledged at that offset, and an offset acknowledged before the
\* copy was taken is found.
PollLinearizable ==
    \A c \in Consumers :
        LET r == rd[c]
        IN r.st = "idle" /\ r.res # NoReply =>
              /\ r.res > 0 => r.res = acked[r.p][r.off]
              /\ r.exp > 0 => r.res = r.exp

\* Client.Poll advances its offset by one exactly when a message comes
\* back, so a consumer receives the messages of a partition in offset
\* order, from offset 0, with none skipped and none twice.
ConsumedInOrder ==
    \A c \in Consumers, p \in Partitions :
        /\ Len(delivered[c][p]) = offsets[c][p]
        /\ \A j \in DOMAIN delivered[c][p] : delivered[c][p][j] = acked[p][j - 1]

\* What TestPartitionAppendRead and TestBrokerProduceFetch check: the
\* offset Produce returned reads back as the message produced there.
AckedFetchable ==
    \A p \in Partitions, o \in Offsets :
        acked[p][o] > 0 => PartitionRead(p, o) = acked[p][o]

=============================================================================
