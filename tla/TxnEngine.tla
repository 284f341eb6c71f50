----------------------------- MODULE TxnEngine -----------------------------
(***************************************************************************)
(* The statement path of stage4-mini-mysql: executor.Engine driving        *)
(* txn.Manager, txn.LockManager, wal.Writer, the in-memory BPlusTree       *)
(* tables and wal.Recovery, as the TCP server uses them: one goroutine per *)
(* session, each statement run under a 2-second context deadline.          *)
(*                                                                         *)
(* Failures covered: a statement's deadline expiring between any two of    *)
(* its steps (every ctx.Err() check of the code then fails), a crash of    *)
(* the process at any moment (memory lost, the WAL file keeps what was     *)
(* written to it), and bufio spilling buffered WAL records to the file     *)
(* before an explicit Flush.                                               *)
(*                                                                         *)
(* Abstractions: keys, values and tables are model values; a WAL record    *)
(* keeps lsn, tx, type, key and value (the JSON form, PageID and Offset    *)
(* are left out); the file holds whole records (a torn last record is left *)
(* to the WAL module); SELECT statements change nothing and are left out.  *)
(***************************************************************************)
EXTENDS Integers, Sequences, SequencesExt, FiniteSets

CONSTANTS
    Sessions,        \* connections of the TCP server, one goroutine each
    Keys,            \* row keys
    Values,          \* row values
    Tables,          \* table names a statement may name
    KvTable,         \* the table created by BootstrapDefaultTable
    NoValue,         \* a key absent from a table
    NoSession,       \* a lock or Engine.mu nobody holds
    NoTx,            \* Engine.activeTx has no entry for the session
    MaxTxns,         \* bound: transactions begun, over all lifetimes
    MaxWrites,       \* bound: write-set entries per transaction
    MaxCrashes,      \* bound: process crashes
    MaxTimeouts      \* bound: statement deadlines that expire

ASSUME KvTable \in Tables
ASSUME NoValue \notin Values
ASSUME {MaxTxns, MaxWrites, MaxCrashes, MaxTimeouts} \subseteq Nat

VARIABLES
    index,      \* Engine.tables[t].store : table -> key -> value
    created,    \* DOMAIN Engine.tables
    wal,        \* every record appended to the WAL file stream, in order
    durable,    \* how many records of wal are in the file (the rest is in bufio)
    nextLSN,    \* Writer.nextLSN
    nextTxID,   \* Manager.nextTxID
    lockHolder, \* LockManager.locks: key -> session holding its mutex
    engineMu,   \* Engine.mu, held by execTx for the whole BEGIN/COMMIT/ROLLBACK
    activeTx,   \* Engine.activeTx: session -> Transaction
    pc,         \* where each session's statement is
    arg,        \* the statement's table, key, value and commit loop index
    expired,    \* ctx.Err() != nil for the session's current statement
    epoch,      \* ghost: number of restarts, to tell TxIDs of lifetimes apart
    status,     \* ghost: outcome of every transaction, by <<epoch, TxID>>
    writer,     \* ghost: who wrote the value a table holds for a key
    crashes,    \* ghost: crashes so far
    timeouts    \* ghost: deadlines expired so far

vars == <<index, created, wal, durable, nextLSN, nextTxID, lockHolder,
          engineMu, activeTx, pc, arg, expired, epoch, status, writer,
          crashes, timeouts>>

TxIdent == (0..MaxCrashes) \X (1..MaxTxns)
\* Writers other than a transaction, as pairs outside TxIdent.
Direct == <<-1, 0>>     \* a non-transactional INSERT
Initial == <<-2, 0>>    \* nothing written in this lifetime
Writers == TxIdent \union {Direct, Initial}

LogTypes == {"Begin", "Insert", "Delete", "Commit", "Abort"}
LogRecord == [lsn : Nat, tx : 1..MaxTxns, type : LogTypes,
              key : Keys \union {NoValue}, val : Values \union {NoValue}]
WriteRecord == [key : Keys, val : Values, type : {"Insert"}, table : Tables]
Transaction == [id : 1..MaxTxns, state : {"Active", "Committed", "Aborted"},
                ws : Seq(WriteRecord)]
Pcs == {"idle", "begin", "putLock", "putRecord", "direct", "commitLock",
        "commitApply", "commitAppend", "commitRecord", "commitFlush", "abort"}

EmptyTable == [k \in Keys |-> NoValue]
Ident(s) == <<epoch, activeTx[s].id>>
CurWrite(s) == activeTx[s].ws[arg[s].i]
Begun == {x \in TxIdent : status[x] # "none"}

TypeOK ==
    /\ index \in [Tables -> [Keys -> Values \union {NoValue}]]
    /\ created \subseteq Tables
    /\ wal \in Seq(LogRecord)
    /\ durable \in 0..Len(wal)
    /\ nextLSN \in Nat \ {0}
    /\ nextTxID \in 1..MaxTxns + 1
    /\ lockHolder \in [Keys -> Sessions \union {NoSession}]
    /\ engineMu \in Sessions \union {NoSession}
    /\ activeTx \in [Sessions -> Transaction \union {NoTx}]
    /\ pc \in [Sessions -> Pcs]
    /\ expired \in [Sessions -> BOOLEAN]
    /\ status \in [TxIdent -> {"none", "active", "committed", "aborted"}]
    /\ writer \in [Tables -> [Keys -> Writers]]

(***************************************************************************)
(* wal.Writer.Append: the record gets the next LSN and goes into bufio;    *)
(* Append fails before numbering anything when the context has expired.   *)
(***************************************************************************)
AppendRecord(tx, type, key, val) ==
    /\ wal' = Append(wal, [lsn |-> nextLSN, tx |-> tx, type |-> type,
                           key |-> key, val |-> val])
    /\ nextLSN' = nextLSN + 1

(***************************************************************************)
(* Recovery.Replay(1) over the records wal.Writer loaded from the file:    *)
(* Insert records overwrite, Delete records remove (a missing key is      *)
(* ignored), Begin/Commit/Abort records are skipped.                       *)
(***************************************************************************)
ApplyRecord(tbl, r) ==
    CASE r.type = "Insert" -> [tbl EXCEPT ![r.key] = r.val]
      [] r.type = "Delete" -> [tbl EXCEPT ![r.key] = NoValue]
      [] OTHER             -> tbl

ReplayFrom(tbl, log, from) ==
    FoldLeft(ApplyRecord, tbl, SelectSeq(log, LAMBDA r : r.lsn >= from))

DurableLog == SubSeq(wal, 1, durable)

\* NewWriter.loadExisting: numbering resumes one past the highest LSN read.
ResumeLSN(log) ==
    1 + FoldLeft(LAMBDA m, r : IF r.lsn > m THEN r.lsn ELSE m, 0, log)

(***************************************************************************)
(* Statement steps.  Every step that ends a statement puts pc back to     *)
(* "idle"; CommitFail(s) is the error return of a COMMIT step.            *)
(***************************************************************************)
Goto(s, p) == pc' = [pc EXCEPT ![s] = p]

Unlock(k) == lockHolder' = [lockHolder EXCEPT ![k] = NoSession]

ReleaseEngine == engineMu' = NoSession

\* execTx BEGIN: Engine.mu is taken for the whole statement.
StartBegin(s) ==
    /\ pc[s] = "idle" /\ engineMu = NoSession /\ Cardinality(Begun) < MaxTxns
    /\ engineMu' = s
    /\ Goto(s, "begin")
    /\ expired' = [expired EXCEPT ![s] = FALSE]
    /\ UNCHANGED <<index, created, wal, durable, nextLSN, nextTxID, lockHolder,
                   activeTx, arg, epoch, status, writer, crashes, timeouts>>

\* Manager.Begin then activeTx[session] = tx (an earlier tx is dropped).
Begin(s) ==
    /\ pc[s] = "begin"
    /\ ReleaseEngine
    /\ Goto(s, "idle")
    /\ IF expired[s]
       THEN UNCHANGED <<wal, nextLSN, nextTxID, activeTx, status>>
       ELSE /\ AppendRecord(nextTxID, "Begin", NoValue, NoValue)
            /\ nextTxID' = nextTxID + 1
            /\ activeTx' = [activeTx EXCEPT ![s] =
                              [id |-> nextTxID, state |-> "Active", ws |-> <<>>]]
            /\ status' = [status EXCEPT ![<<epoch, nextTxID>>] = "active"]
    /\ UNCHANGED <<index, created, durable, lockHolder, arg, expired, epoch,
                   writer, crashes, timeouts>>

\* execCreateTable under Engine.mu; an existing table is left as it is.
CreateTable(s, t) ==
    /\ pc[s] = "idle" /\ engineMu = NoSession /\ t \notin created
    /\ created' = created \union {t}
    /\ index' = [index EXCEPT ![t] = EmptyTable]
    /\ UNCHANGED <<wal, durable, nextLSN, nextTxID, lockHolder, engineMu,
                   activeTx, pc, arg, expired, epoch, status, writer, crashes,
                   timeouts>>

(***************************************************************************)
(* execInsert: getTable and the read of activeTx take Engine.mu briefly;  *)
(* with an open transaction the row goes to Manager.Put, otherwise        *)
(* straight into the named table.                                          *)
(***************************************************************************)
StartInsert(s, t, k, v) ==
    /\ pc[s] = "idle" /\ engineMu = NoSession /\ t \in created
    /\ activeTx[s] # NoTx => Len(activeTx[s].ws) < MaxWrites
    /\ Goto(s, IF activeTx[s] # NoTx THEN "putLock" ELSE "direct")
    /\ arg' = [arg EXCEPT ![s] = [table |-> t, key |-> k, val |-> v, i |-> 0]]
    /\ expired' = [expired EXCEPT ![s] = FALSE]
    /\ UNCHANGED <<index, created, wal, durable, nextLSN, nextTxID, lockHolder,
                   engineMu, activeTx, epoch, status, writer, crashes, timeouts>>

\* BPlusTree.Insert on the named table.
DirectInsert(s) ==
    LET a == arg[s] IN
    /\ pc[s] = "direct"
    /\ Goto(s, "idle")
    /\ IF expired[s]
       THEN UNCHANGED <<index, writer>>
       ELSE /\ index' = [index EXCEPT ![a.table][a.key] = a.val]
            /\ writer' = [writer EXCEPT ![a.table][a.key] = Direct]
    /\ UNCHANGED <<created, wal, durable, nextLSN, nextTxID, lockHolder,
                   engineMu, activeTx, arg, expired, epoch, status, crashes,
                   timeouts>>

(***************************************************************************)
(* LockManager.LockKey: the ctx check, then lock.Lock() blocks until the  *)
(* key is free and cannot be abandoned.  A deadline that has passed may   *)
(* have passed before the check (the call returns the error) or after it  *)
(* (the call blocks and takes the lock all the same).                     *)
(***************************************************************************)
LockKey(s, k, next) ==
    /\ lockHolder[k] = NoSession
    /\ lockHolder' = [lockHolder EXCEPT ![k] = s]
    /\ Goto(s, next)

\* Manager.Put: ctx checks, then LockManager.LockKey blocks on the key.
PutLock(s) ==
    /\ pc[s] = "putLock"
    /\ \/ expired[s] /\ Goto(s, "idle") /\ UNCHANGED lockHolder
       \/ LockKey(s, arg[s].key, "putRecord")
    /\ UNCHANGED <<index, created, wal, durable, nextLSN, nextTxID, engineMu,
                   activeTx, arg, expired, epoch, status, writer, crashes,
                   timeouts>>

\* Manager.Put: the write is buffered in the write-set; the key is unlocked.
PutRecord(s) ==
    LET a == arg[s] IN
    /\ pc[s] = "putRecord"
    /\ activeTx' = [activeTx EXCEPT ![s].ws = Append(@,
                      [key |-> a.key, val |-> a.val, type |-> "Insert",
                       table |-> a.table])]
    /\ Unlock(a.key)
    /\ Goto(s, "idle")
    /\ UNCHANGED <<index, created, wal, durable, nextLSN, engineMu, nextTxID,
                   arg, expired, epoch, status, writer, crashes, timeouts>>

(***************************************************************************)
(* execTx COMMIT and Manager.Commit.  Engine.mu is held throughout; for   *)
(* each write-set entry: lock the key, insert into the tree the Manager   *)
(* was built with (the kv table), append the Insert record, unlock.  Then *)
(* the Commit record and Flush.  Any failure returns the error with the   *)
(* transaction still Active and still in activeTx.                         *)
(***************************************************************************)
CommitFail(s) ==
    /\ ReleaseEngine
    /\ Goto(s, "idle")

StartCommit(s) ==
    /\ pc[s] = "idle" /\ engineMu = NoSession /\ activeTx[s] # NoTx
    /\ engineMu' = s
    /\ Goto(s, IF activeTx[s].ws = <<>> THEN "commitRecord" ELSE "commitLock")
    /\ arg' = [arg EXCEPT ![s].i = 1]
    /\ expired' = [expired EXCEPT ![s] = FALSE]
    /\ UNCHANGED <<index, created, wal, durable, nextLSN, nextTxID, lockHolder,
                   activeTx, epoch, status, writer, crashes, timeouts>>

CommitLock(s) ==
    /\ pc[s] = "commitLock"
    /\ \/ expired[s] /\ CommitFail(s) /\ UNCHANGED lockHolder
       \/ LockKey(s, CurWrite(s).key, "commitApply") /\ UNCHANGED engineMu
    /\ UNCHANGED <<index, created, wal, durable, nextLSN, nextTxID, activeTx,
                   arg, expired, epoch, status, writer, crashes, timeouts>>

CommitApply(s) ==
    LET w == CurWrite(s) IN
    /\ pc[s] = "commitApply"
    /\ IF expired[s]
       THEN CommitFail(s) /\ Unlock(w.key) /\ UNCHANGED <<index, writer>>
       ELSE /\ index' = [index EXCEPT ![KvTable][w.key] = w.val]
            /\ writer' = [writer EXCEPT ![KvTable][w.key] = Ident(s)]
            /\ Goto(s, "commitAppend")
            /\ UNCHANGED <<lockHolder, engineMu>>
    /\ UNCHANGED <<created, wal, durable, nextLSN, nextTxID, activeTx, arg,
                   expired, epoch, status, crashes, timeouts>>

\* A commit loop that returns on an append error without unlocking the key.
CommitAppendKeepsLock(s) ==
    LET w == CurWrite(s) IN
    /\ pc[s] = "commitAppend"
    /\ IF expired[s]
       THEN CommitFail(s) /\ UNCHANGED <<wal, nextLSN, arg, lockHolder>>
       ELSE /\ AppendRecord(activeTx[s].id, w.type, w.key, w.val)
            /\ Unlock(w.key)
            /\ arg' = [arg EXCEPT ![s].i = @ + 1]
            /\ Goto(s, IF arg[s].i < Len(activeTx[s].ws)
                       THEN "commitLock" ELSE "commitRecord")
            /\ UNCHANGED engineMu
    /\ UNCHANGED <<index, created, durable, nextTxID, activeTx, expired, epoch,
                   status, writer, crashes, timeouts>>

CommitAppend(s) ==
    LET w == CurWrite(s) IN
    /\ pc[s] = "commitAppend"
    /\ Unlock(w.key)
    /\ IF expired[s]
       THEN CommitFail(s) /\ UNCHANGED <<wal, nextLSN, arg>>
       ELSE /\ AppendRecord(activeTx[s].id, w.type, w.key, w.val)
            /\ arg' = [arg EXCEPT ![s].i = @ + 1]
            /\ Goto(s, IF arg[s].i < Len(activeTx[s].ws)
                       THEN "commitLock" ELSE "commitRecord")
            /\ UNCHANGED engineMu
    /\ UNCHANGED <<index, created, durable, nextTxID, activeTx, expired, epoch,
                   status, writer, crashes, timeouts>>

CommitRecord(s) ==
    /\ pc[s] = "commitRecord"
    /\ IF expired[s]
       THEN CommitFail(s) /\ UNCHANGED <<wal, nextLSN>>
       ELSE /\ AppendRecord(activeTx[s].id, "Commit", NoValue, NoValue)
            /\ Goto(s, "commitFlush") /\ UNCHANGED engineMu
    /\ UNCHANGED <<index, created, durable, nextTxID, lockHolder, activeTx, arg,
                   expired, epoch, status, writer, crashes, timeouts>>

\* A commit that reports success without forcing the WAL to the file.
CommitFlushNoSync(s) ==
    /\ pc[s] = "commitFlush"
    /\ IF expired[s]
       THEN CommitFail(s) /\ UNCHANGED <<activeTx, status>>
       ELSE /\ status' = [status EXCEPT ![Ident(s)] = "committed"]
            /\ activeTx' = [activeTx EXCEPT ![s] = NoTx]
            /\ ReleaseEngine /\ Goto(s, "idle")
    /\ UNCHANGED <<durable, index, created, wal, nextLSN, nextTxID, lockHolder,
                   arg, expired, epoch, writer, crashes, timeouts>>

\* Writer.Flush (bufio flush + fsync); then tx.State = Committed and
\* execTx deletes the session's activeTx entry.
CommitFlush(s) ==
    /\ pc[s] = "commitFlush"
    /\ IF expired[s]
       THEN CommitFail(s) /\ UNCHANGED <<durable, activeTx, status>>
       ELSE /\ durable' = Len(wal)
            /\ status' = [status EXCEPT ![Ident(s)] = "committed"]
            /\ activeTx' = [activeTx EXCEPT ![s] = NoTx]
            /\ ReleaseEngine /\ Goto(s, "idle")
    /\ UNCHANGED <<index, created, wal, nextLSN, nextTxID, lockHolder, arg,
                   expired, epoch, writer, crashes, timeouts>>

\* execTx ROLLBACK then Manager.Abort: append Abort, drop the write-set.
StartRollback(s) ==
    /\ pc[s] = "idle" /\ engineMu = NoSession /\ activeTx[s] # NoTx
    /\ engineMu' = s
    /\ Goto(s, "abort")
    /\ expired' = [expired EXCEPT ![s] = FALSE]
    /\ UNCHANGED <<index, created, wal, durable, nextLSN, nextTxID, lockHolder,
                   activeTx, arg, epoch, status, writer, crashes, timeouts>>

Abort(s) ==
    /\ pc[s] = "abort"
    /\ ReleaseEngine /\ Goto(s, "idle")
    /\ IF expired[s]
       THEN UNCHANGED <<wal, nextLSN, activeTx, status>>
       ELSE /\ AppendRecord(activeTx[s].id, "Abort", NoValue, NoValue)
            /\ status' = [status EXCEPT ![Ident(s)] = "aborted"]
            /\ activeTx' = [activeTx EXCEPT ![s] = NoTx]
    /\ UNCHANGED <<index, created, durable, nextTxID, lockHolder, arg, expired,
                   epoch, writer, crashes, timeouts>>

(***************************************************************************)
(* Environment steps.                                                      *)
(***************************************************************************)
\* The 2-second context.WithTimeout of handleConn expires mid-statement.
Timeout(s) ==
    /\ pc[s] # "idle" /\ ~expired[s] /\ timeouts < MaxTimeouts
    /\ expired' = [expired EXCEPT ![s] = TRUE]
    /\ timeouts' = timeouts + 1
    /\ UNCHANGED <<index, created, wal, durable, nextLSN, nextTxID, lockHolder,
                   engineMu, activeTx, pc, arg, epoch, status, writer, crashes>>

\* Mutant: a spill that counts one record more than the buffer holds.
SpillPastEnd ==
    /\ \E n \in durable + 1 .. Len(wal) + 1 : durable' = n
    /\ UNCHANGED <<index, created, wal, nextLSN, nextTxID, lockHolder, engineMu,
                   activeTx, pc, arg, expired, epoch, status, writer, crashes,
                   timeouts>>

\* bufio.Writer spills a full buffer to the file before any Flush.
Spill ==
    /\ \E n \in durable + 1 .. Len(wal) : durable' = n
    /\ UNCHANGED <<index, created, wal, nextLSN, nextTxID, lockHolder, engineMu,
                   activeTx, pc, arg, expired, epoch, status, writer, crashes,
                   timeouts>>

(***************************************************************************)
(* Crash and restart (main): memory is lost; NewWriter opens the file    *)
(* (O_APPEND), loadExisting reads it back and resumes LSNs; Manager        *)
(* restarts TxIDs at 1; main builds an empty tree and never calls         *)
(* Recovery.Replay, so every table starts empty.                           *)
(***************************************************************************)
RestartWith(file, resumeLSN) ==
    /\ crashes < MaxCrashes
    /\ wal' = file
    /\ durable' = Len(file)
    /\ nextLSN' = resumeLSN
    /\ nextTxID' = 1
    /\ index' = [t \in Tables |-> EmptyTable]
    /\ created' = {KvTable}
    /\ writer' = [t \in Tables |-> [k \in Keys |-> Initial]]
    /\ lockHolder' = [k \in Keys |-> NoSession]
    /\ engineMu' = NoSession
    /\ activeTx' = [s \in Sessions |-> NoTx]
    /\ pc' = [s \in Sessions |-> "idle"]
    /\ expired' = [s \in Sessions |-> FALSE]
    /\ epoch' = epoch + 1
    /\ crashes' = crashes + 1
    /\ UNCHANGED <<arg, status, timeouts>>

\* Mutant: a restart that numbers the log from 1 again instead of resuming.
RestartNoResume == RestartWith(DurableLog, 1)

\* Mutant: NewWriter opens the file with O_TRUNC instead of O_APPEND.
RestartTruncates == RestartWith(<<>>, 1)

Restart == RestartWith(DurableLog, ResumeLSN(DurableLog))

Init ==
    /\ index = [t \in Tables |-> EmptyTable]
    /\ created = {KvTable}
    /\ wal = <<>>
    /\ durable = 0
    /\ nextLSN = 1
    /\ nextTxID = 1
    /\ lockHolder = [k \in Keys |-> NoSession]
    /\ engineMu = NoSession
    /\ activeTx = [s \in Sessions |-> NoTx]
    /\ pc = [s \in Sessions |-> "idle"]
    /\ arg = [s \in Sessions |->
                [table |-> KvTable, key |-> CHOOSE k \in Keys : TRUE,
                 val |-> NoValue, i |-> 0]]
    /\ expired = [s \in Sessions |-> FALSE]
    /\ epoch = 0
    /\ status = [x \in TxIdent |-> "none"]
    /\ writer = [t \in Tables |-> [k \in Keys |-> Initial]]
    /\ crashes = 0
    /\ timeouts = 0

SessionStep(s) ==
    \/ StartBegin(s) \/ Begin(s)
    \/ \E t \in Tables : CreateTable(s, t)
    \/ \E t \in Tables, k \in Keys, v \in Values : StartInsert(s, t, k, v)
    \/ DirectInsert(s) \/ PutLock(s) \/ PutRecord(s)
    \/ StartCommit(s) \/ CommitLock(s) \/ CommitApply(s) \/ CommitAppend(s)
    \/ CommitRecord(s) \/ CommitFlush(s)
    \/ StartRollback(s) \/ Abort(s)
    \/ Timeout(s)

Next ==
    \/ \E s \in Sessions : SessionStep(s)
    \/ Spill
    \/ Restart

(***************************************************************************)
(* Fairness: a goroutine that can run does (weak fairness on every step    *)
(* a statement takes once issued); a key mutex that is released again and  *)
(* again is eventually granted (sync.Mutex starvation mode), so the lock   *)
(* acquisitions are strongly fair.  Issuing statements, deadlines, spills  *)
(* and crashes are not guaranteed to happen.                               *)
(***************************************************************************)
Fairness ==
    \A s \in Sessions :
        /\ WF_vars(Begin(s) \/ DirectInsert(s) \/ PutRecord(s)
                   \/ CommitApply(s) \/ CommitAppend(s) \/ CommitRecord(s)
                   \/ CommitFlush(s) \/ Abort(s))
        /\ SF_vars(PutLock(s))
        /\ SF_vars(CommitLock(s))

Spec == Init /\ [][Next]_vars /\ Fairness

-----------------------------------------------------------------------------
(***************************************************************************)
(* Properties.                                                             *)
(***************************************************************************)

(* Durability of commits, the round trip of spec 8 (Manager.Commit's     *)
(* Flush before Committed, the per-key lock held across apply and append, *)
(* Recovery.Replay): whenever the kv table's value for a key was written  *)
(* by a committed transaction, a crash now followed by Replay(1) of the   *)
(* file would give back exactly that value.                               *)
CommittedDurable ==
    \A k \in Keys :
        LET by == writer[KvTable][k] IN
        (by \in TxIdent /\ status[by] = "committed")
        => ReplayFrom(EmptyTable, DurableLog, 1)[k] = index[KvTable][k]

(* Log before acknowledgement (spec 4.5), across crashes: for every TxID, *)
(* the file holds at least as many Commit records of it as COMMITs with   *)
(* that TxID were acknowledged, in every lifetime of the process.  It     *)
(* needs Flush before Committed, bufio spills of only what was appended,  *)
(* and NewWriter keeping the file; Manager reusing TxIDs from 1 after a   *)
(* restart is why it counts rather than looks a record up.                *)
CommitsLogged ==
    \A id \in 1..MaxTxns :
        Cardinality({x \in TxIdent : x[2] = id /\ status[x] = "committed"})
        <= Cardinality({i \in 1..durable : wal[i].type = "Commit" /\ wal[i].tx = id})

(* Writer.Append numbering together with NewWriter.loadExisting: the LSNs *)
(* in the WAL stream strictly increase, across crashes and restarts.      *)
LSNsIncrease ==
    \A i, j \in 1..Len(wal) : i < j => wal[i].lsn < wal[j].lsn

(* Manager.Abort, spec 4.5 and the chaos test TestChaosRollback: no table *)
(* holds a value written by a transaction that ended Aborted.             *)
AbortedInvisible ==
    \A t \in Tables, k \in Keys :
        LET by == writer[t][k] IN
        by \in TxIdent => status[by] # "aborted"

(* Every statement a session issues returns (no lock is left held, no     *)
(* wait on Engine.mu or a key lock lasts forever).                        *)
StatementsReturn ==
    \A s \in Sessions : pc[s] # "idle" ~> pc[s] = "idle"

=============================================================================
