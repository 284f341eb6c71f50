------------------------------- MODULE RedisDB -------------------------------
(***************************************************************************)
(* The keyspace of stage5 mini-redis: db.DB with its typed commands as    *)
(* ExecuteCommand dispatches them, lazy expiry on access, and the TTL     *)
(* manager's ActiveExpire sweep that server.Start runs every 100ms.       *)
(*                                                                         *)
(* Every command holds d.mu for its whole body, and so does ActiveExpire, *)
(* so each is one atomic step; connections only interleave whole         *)
(* commands.  Time is whole seconds: Tick advances the clock, and all     *)
(* calls between two ticks read the same time.Now().                      *)
(*                                                                         *)
(* Abstractions: keys, values, set members and hash fields are model      *)
(* values; a *ds.LinkedList is a sequence, a *ds.SkipList a partial       *)
(* function member -> score, a Go map a set or partial function.  Every  *)
(* Entry has one record shape whose unused payload fields stay blank.     *)
(***************************************************************************)
EXTENDS Integers, Sequences, SequencesExt, FiniteSets, TLC

CONSTANTS
    Keys, Vals, Members, Fields, Scores,
    SetTTLs,       \* seconds after SET .. EX (0: no EX option)
    ExpireTTLs,    \* seconds given to EXPIRE
    SampleLimit,   \* the sampleLimit ActiveExpire is called with
    MaxTime,       \* bound: seconds the clock may advance
    MaxLen,        \* bound: length of a list
    Nil            \* no value: a missing payload, or a reply of nil

ASSUME SampleLimit \in Nat \ {0} /\ MaxTime \in Nat /\ MaxLen \in Nat \ {0}
ASSUME SetTTLs \cup ExpireTTLs \subseteq Int /\ Scores \subseteq Int

ZeroTime == Nil        \* time.Time{}: Entry.ExpireAt when no TTL is set

VARIABLES
    data,   \* DB.data: key -> *Entry (type "none" where the key is absent)
    now,    \* time.Now(), in seconds
    ack,    \* ghost: the last command, if it was an acknowledged write
    dead    \* ghost: keys whose current entry has been expired at some time

vars == <<data, now, ack, dead>>

Types == {"none", "string", "list", "set", "zset", "hash"}
Times == Min(ExpireTTLs \cup {0}) .. (MaxTime + Max(SetTTLs \cup ExpireTTLs))
PartialFns(D, R) == UNION {[S -> R] : S \in SUBSET D}

\* Entry{Type, Value, ExpireAt}, one field per kind of Value.
Blank == [type |-> "none", str |-> Nil, list |-> <<>>, set |-> {},
          zset |-> [m \in {} |-> 0], hash |-> [f \in {} |-> Nil],
          exp |-> ZeroTime]
NoEntry == Blank
Fresh(type, field, val) == [[Blank EXCEPT !.type = type] EXCEPT ![field] = val]

None == [cmd |-> "none", key |-> Nil, x |-> Nil, y |-> Nil]
Ack(c, k, x, y) == [cmd |-> c, key |-> k, x |-> x, y |-> y]

TypeOK ==
    /\ now \in 0 .. MaxTime
    /\ dead \subseteq Keys
    /\ ack \in {None} \cup [cmd : {"SET", "LPUSH", "RPUSH", "SADD", "ZADD", "HSET"},
                            key : Keys, x : Vals \cup Members \cup Fields,
                            y : Scores \cup Vals \cup {Nil}]
    /\ \A k \in Keys :
        LET e == data[k] IN
        /\ e.type \in Types
        /\ e.exp \in Times \cup {ZeroTime}
        /\ e.str \in IF e.type = "string" THEN Vals ELSE {Nil}
        /\ e.list \in Seq(Vals) /\ Len(e.list) <= MaxLen
        /\ e.type # "list" => e.list = <<>>
        /\ e.set \subseteq Members /\ (e.type # "set" => e.set = {})
        /\ e.zset \in PartialFns(Members, Scores)
        /\ e.type # "zset" => DOMAIN e.zset = {}
        /\ e.hash \in PartialFns(Fields, Vals)
        /\ e.type # "hash" => DOMAIN e.hash = {}
        /\ e.type = "none" => e = NoEntry

(***************************************************************************)
(* isExpired: a TTL is set and time.Now() is after it.                    *)
(***************************************************************************)
IsExpired(e, t) == e.exp # ZeroTime /\ t > e.exp

Present(k) == data[k].type # "none"
Live(k) == Present(k) /\ ~IsExpired(data[k], now)
\* The writers' `!ok || d.isExpired(entry)`: the key is treated as new.
Stale(k) == ~Present(k) \/ IsExpired(data[k], now)

\* After every step, at time t: keys written anew leave dead, keys whose
\* entry is expired join it.
Settle(created, t) ==
    dead' = (dead \ created)
            \cup {k \in Keys : data'[k].type # "none" /\ IsExpired(data'[k], t)}

\* ds.LinkedList.Range: start clamped at 0, nothing when stop < start.
ListRange(l, start, stop) ==
    LET s == IF start < 0 THEN 0 ELSE start IN
    IF stop < s THEN <<>>
    ELSE SubSeq(l, s + 1, IF stop + 1 < Len(l) THEN stop + 1 ELSE Len(l))

\* ds.LinkedList.LPush, RPush and LPop, and ds.SkipList.Insert.
ListLPush(l, v) == <<v>> \o l
ListRPush(l, v) == Append(l, v)
ListLPop(l) == Tail(l)
SkipInsert(z, m, s) == (m :> s) @@ z

(***************************************************************************)
(* Replies of the reads, as ExecuteCommand builds them from the DB       *)
(* methods' results.                                                      *)
(***************************************************************************)
Readable(k, type) == Live(k) /\ data[k].type = type

GetReply(k) == IF Readable(k, "string") THEN data[k].str ELSE Nil
LRangeReply(k, start, stop) ==
    IF Readable(k, "list") THEN ListRange(data[k].list, start, stop) ELSE <<>>
SMembersReply(k) == IF Readable(k, "set") THEN data[k].set ELSE {}
ZRangeByScoreReply(k, min, max) ==
    IF Readable(k, "zset")
    THEN {m \in DOMAIN data[k].zset : min <= data[k].zset[m] /\ data[k].zset[m] <= max}
    ELSE {}
HGetReply(k, f) ==
    IF Readable(k, "hash") /\ f \in DOMAIN data[k].hash THEN data[k].hash[f] ELSE Nil

(***************************************************************************)
(* Commands.  A write on a stale key stores a fresh Entry with no TTL; on *)
(* a live key of another type it fails with ErrWrongType and changes     *)
(* nothing; otherwise it updates the Value in place, keeping ExpireAt.    *)
(***************************************************************************)
Put(k, e) == data' = [data EXCEPT ![k] = e]

\* A typed write: `fresh` when the key is stale, `update` of the live entry.
TypedWrite(k, type, fresh, update, a) ==
    /\ IF Stale(k)
       THEN Put(k, fresh) /\ ack' = a /\ Settle({k}, now)
       ELSE IF data[k].type # type
            THEN UNCHANGED data /\ ack' = None /\ Settle({}, now)
            ELSE Put(k, update) /\ ack' = a /\ Settle({}, now)
    /\ UNCHANGED now

\* Mutant: SET assigns the value into an existing entry, keeping its Type.
SetStringInPlace(k, v, ttl) ==
    /\ Put(k, [data[k] EXCEPT !.str = v,
                !.exp = IF ttl > 0 THEN now + ttl ELSE ZeroTime,
                !.type = IF @ = "none" THEN "string" ELSE @])
    /\ ack' = Ack("SET", k, v, Nil)
    /\ Settle({k}, now)
    /\ UNCHANGED now

\* SET key value [EX seconds]: ExpireAt only when ttl > 0.
SetString(k, v, ttl) ==
    /\ Put(k, [Fresh("string", "str", v) EXCEPT
               !.exp = IF ttl > 0 THEN now + ttl ELSE ZeroTime])
    /\ ack' = Ack("SET", k, v, Nil)
    /\ Settle({k}, now)
    /\ UNCHANGED now

\* GET, EXISTS, TTL, LRANGE, SMEMBERS, ZRANGEBYSCORE, HGET, HGETALL: an
\* expired entry found is deleted; nothing else changes.
Lookup(k) ==
    /\ Present(k) /\ IsExpired(data[k], now)
    /\ Put(k, NoEntry) /\ ack' = None /\ Settle({}, now)
    /\ UNCHANGED now

\* DEL: deletes whatever entry is there, expired or not.
Del(k) ==
    /\ Present(k)
    /\ Put(k, NoEntry) /\ ack' = None /\ Settle({}, now)
    /\ UNCHANGED now

\* KEYS pattern: every expired entry met while ranging is deleted.
KeysCmd ==
    /\ \E k \in Keys : Present(k) /\ IsExpired(data[k], now)
    /\ data' = [k \in Keys |-> IF IsExpired(data[k], now) THEN NoEntry ELSE data[k]]
    /\ ack' = None /\ Settle({}, now)
    /\ UNCHANGED now

\* EXPIRE key seconds: ExpireAt := now + ttl on any entry found.
Expire(k, ttl) ==
    /\ Present(k)
    /\ Put(k, [data[k] EXCEPT !.exp = now + ttl])
    /\ ack' = None /\ Settle({}, now)
    /\ UNCHANGED now

LPush(k, v) ==
    /\ Stale(k) \/ Len(data[k].list) < MaxLen
    /\ TypedWrite(k, "list", Fresh("list", "list", <<v>>),
                  [data[k] EXCEPT !.list = ListLPush(@, v)], Ack("LPUSH", k, v, Nil))

RPush(k, v) ==
    /\ Stale(k) \/ Len(data[k].list) < MaxLen
    /\ TypedWrite(k, "list", Fresh("list", "list", <<v>>),
                  [data[k] EXCEPT !.list = ListRPush(@, v)], Ack("RPUSH", k, v, Nil))

\* LPOP: a stale key is deleted; popping the last element leaves the key
\* holding an empty list.
LPop(k) ==
    /\ Present(k)
    /\ \/ /\ IsExpired(data[k], now)
          /\ Put(k, NoEntry)
       \/ /\ ~IsExpired(data[k], now) /\ data[k].type = "list"
          /\ data[k].list # <<>>
          /\ Put(k, [data[k] EXCEPT !.list = ListLPop(@)])
    /\ ack' = None /\ Settle({}, now)
    /\ UNCHANGED now

\* Mutant: SADD checks only `!ok`, so an expired set is added to in place.
SAddNoExpiryCheck(k, m) ==
    /\ IF ~Present(k)
       THEN Put(k, Fresh("set", "set", {m})) /\ ack' = Ack("SADD", k, m, Nil)
            /\ Settle({k}, now)
       ELSE IF data[k].type # "set"
            THEN UNCHANGED data /\ ack' = None /\ Settle({}, now)
            ELSE Put(k, [data[k] EXCEPT !.set = @ \cup {m}])
                 /\ ack' = Ack("SADD", k, m, Nil) /\ Settle({}, now)
    /\ UNCHANGED now

SAdd(k, m) ==
    TypedWrite(k, "set", Fresh("set", "set", {m}),
               [data[k] EXCEPT !.set = @ \cup {m}], Ack("SADD", k, m, Nil))

\* ZADD: SkipList.Insert sets the member's score.
ZAdd(k, m, s) ==
    TypedWrite(k, "zset", Fresh("zset", "zset", m :> s),
               [data[k] EXCEPT !.zset = SkipInsert(@, m, s)], Ack("ZADD", k, m, s))

HSet(k, f, v) ==
    TypedWrite(k, "hash", Fresh("hash", "hash", f :> v),
               [data[k] EXCEPT !.hash = (f :> v) @@ @], Ack("HSET", k, f, v))

(***************************************************************************)
(* ExecuteCommand on a key, with the argument values the parsing admits. *)
(* Argument-count and number-parsing errors return before any DB call    *)
(* and change nothing, as do PING and ECHO.                               *)
(***************************************************************************)
Command(k) ==
    \/ \E v \in Vals, ttl \in SetTTLs : SetString(k, v, ttl)
    \/ Lookup(k)
    \/ Del(k)
    \/ \E ttl \in ExpireTTLs : Expire(k, ttl)
    \/ \E v \in Vals : LPush(k, v) \/ RPush(k, v)
    \/ LPop(k)
    \/ \E m \in Members : SAdd(k, m)
    \/ \E m \in Members, s \in Scores : ZAdd(k, m, s)
    \/ \E f \in Fields, v \in Vals : HSet(k, f, v)

(***************************************************************************)
(* DB.ActiveExpire(ctx, 20), from the TTL manager's ticker: range over    *)
(* d.data, deleting expired entries, and stop after sampleLimit entries.  *)
(* Go starts each range at a random entry; `first` is that entry and the  *)
(* rest of the sample is any other sampleLimit - 1 of them.              *)
(***************************************************************************)
PresentKeys == {k \in Keys : Present(k)}
SampleSize(n) == IF n < SampleLimit THEN n ELSE SampleLimit

Sweep(sample) ==
    /\ data' = [k \in Keys |-> IF k \in sample /\ IsExpired(data[k], now)
                               THEN NoEntry ELSE data[k]]
    /\ Settle({}, now)
    /\ UNCHANGED <<now, ack>>

\* Mutant: the sample is always the same first keys, in a fixed order.
ActiveExpireFixedOrder(first) ==
    /\ first \in PresentKeys
    /\ LET order == SelectSeq(SetToSeq(Keys), LAMBDA k : k \in PresentKeys)
       IN Sweep(ToSet(SubSeq(order, 1, SampleSize(Len(order)))))

\* Mutant: an entry counts as expired at its deadline already.
ActiveExpireAtDeadline(first) ==
    /\ first \in PresentKeys
    /\ \E rest \in SUBSET (PresentKeys \ {first}) :
          /\ Cardinality(rest) = SampleSize(Cardinality(PresentKeys)) - 1
          /\ data' = [k \in Keys |->
                        IF k \in rest \cup {first} /\ data[k].exp # ZeroTime
                           /\ now >= data[k].exp
                        THEN NoEntry ELSE data[k]]
          /\ Settle({}, now)
          /\ UNCHANGED <<now, ack>>

ActiveExpire(first) ==
    /\ first \in PresentKeys
    /\ \E rest \in SUBSET (PresentKeys \ {first}) :
          /\ Cardinality(rest) = SampleSize(Cardinality(PresentKeys)) - 1
          /\ Sweep(rest \cup {first})

\* Time passes.  No claim on visibility carries over a tick.
Tick ==
    /\ now < MaxTime
    /\ now' = now + 1
    /\ ack' = None
    /\ UNCHANGED data
    /\ Settle({}, now + 1)

Init ==
    /\ data = [k \in Keys |-> NoEntry]
    /\ now = 0
    /\ ack = None
    /\ dead = {}

Next ==
    \/ \E k \in Keys : Command(k) \/ ActiveExpire(k)
    \/ KeysCmd
    \/ Tick

\* The ticker fires every 100ms for as long as the server runs, and each
\* range starts at a random entry: every entry is eventually the first of
\* a sweep.  Clients and the clock get no fairness.
Fairness == \A k \in Keys : WF_vars(ActiveExpire(k))

Spec == Init /\ [][Next]_vars /\ Fairness

-----------------------------------------------------------------------------
(***************************************************************************)
(* Properties.                                                             *)
(***************************************************************************)

(* Read your writes: when SET, LPUSH, RPUSH, SADD, ZADD or HSET has been  *)
(* acknowledged, the client's next command, if it is the matching read   *)
(* in the same second, returns what was written: whatever the key held   *)
(* before (an expired entry, a value of another type), and whatever       *)
(* ActiveExpire sweeps ran in between.                                    *)
AckedWriteVisible ==
    ack # None =>
        LET k == ack.key IN
        CASE ack.cmd = "SET"   -> GetReply(k) = ack.x
          [] ack.cmd = "LPUSH" -> LRangeReply(k, 0, 0) = <<ack.x>>
          [] ack.cmd = "RPUSH" -> LET r == LRangeReply(k, 0, MaxLen) IN
                                  r # <<>> /\ Last(r) = ack.x
          [] ack.cmd = "SADD"  -> ack.x \in SMembersReply(k)
          [] ack.cmd = "ZADD"  -> ack.x \in ZRangeByScoreReply(k, ack.y, ack.y)
          [] ack.cmd = "HSET"  -> HGetReply(k, ack.x) = ack.y

(* Lazy expiry on reads, KEYS and the ActiveExpire sweep only ever delete *)
(* expired entries: a live key leaves the keyspace only by DEL.           *)
LiveKeyRemovedOnlyByDel ==
    [][\A k \in Keys : Live(k) /\ data'[k].type = "none" => Del(k)]_vars

(* Memory held by expired keys is reclaimed: an entry that has expired   *)
(* does not stay in DB.data for ever, even if no client touches it again. *)
ExpiredEventuallyReclaimed ==
    \A k \in Keys :
        (Present(k) /\ IsExpired(data[k], now))
        ~> ~(Present(k) /\ IsExpired(data[k], now))

(* Once an entry has expired it stays gone (TestTTLExpire: "key should be *)
(* expired"): the key becomes readable again only through a write that    *)
(* stores a fresh entry, never with its old value.                        *)
ExpiredStaysExpired ==
    \A k \in dead : ~Live(k)

=============================================================================
