---------------------------- MODULE LockService ----------------------------
(***************************************************************************)
(* coord.LockService of stage8 (internal/coord/lock.go): leases kept in a  *)
(* map under s.mu. Acquire reads time.Now() before it takes s.mu, so one   *)
(* Acquire is two steps and other callers run in between; Release is one.  *)
(* Owners are concurrent callers, each making one call at a time.          *)
(***************************************************************************)
EXTENDS Integers, FiniteSetsExt

CONSTANTS
    Owners,       \* callers of the lock service
    NoOwner,      \* owner of no entry
    LockKeys,     \* lock names
    TTLs,         \* ttl arguments of Acquire (<= 0 means one second)
    MaxTime       \* bound: seconds on the clock

Second == 1       \* time.Second in clock units

VARIABLES
    locks,        \* LockService.locks
    now,          \* time.Now() in seconds
    lockCall,     \* lockCall[o]: the Acquire o is in, between Now and Lock
    held          \* ghost: held[o][k], the expiry of the lease o was granted

vars == <<locks, now, lockCall, held>>

LeaseEnds == 0 .. MaxTime + Max(TTLs \cup {Second})
NoLock == [owner |-> NoOwner, expiresAt |-> 0]
NoAcquire == [pc |-> "idle", key |-> NoOwner, ttl |-> 0, t0 |-> 0]

TypeOK ==
    /\ \A k \in LockKeys : locks[k] = NoLock \/ locks[k] \in [owner : Owners, expiresAt : LeaseEnds]
    /\ now \in 0 .. MaxTime
    /\ \A o \in Owners : lockCall[o] = NoAcquire
                         \/ lockCall[o] \in [pc : {"locking"}, key : LockKeys,
                                             ttl : {t \in TTLs : t > 0} \cup {Second},
                                             t0 : 0 .. MaxTime]
    /\ held \in [Owners -> [LockKeys -> LeaseEnds]]

(* NewLockService *)
Init ==
    /\ locks = [k \in LockKeys |-> NoLock]
    /\ now = 0
    /\ lockCall = [o \in Owners |-> NoAcquire]
    /\ held = [o \in Owners |-> [k \in LockKeys |-> 0]]

\* Mutant: a ttl <= 0 is used as given.
AcquireNowKeepsTTL(o, k, ttl) ==
    /\ lockCall[o].pc = "idle"
    /\ lockCall' = [lockCall EXCEPT ![o] = [pc |-> "locking", key |-> k, ttl |-> ttl, t0 |-> now]]
    /\ UNCHANGED <<locks, now, held>>

(* Acquire up to time.Now(): the ctx check (a cancelled context returns    *)
(* before anything changes), the default ttl, then the clock read.         *)
AcquireNow(o, k, ttl) ==
    /\ lockCall[o].pc = "idle"
    /\ lockCall' = [lockCall EXCEPT ![o] = [pc |-> "locking", key |-> k,
                       ttl |-> IF ttl <= 0 THEN Second ELSE ttl, t0 |-> now]]
    /\ UNCHANGED <<locks, now, held>>

(* Acquire under s.mu, with the time read before the lock.                 *)
Acquire(o) ==
    /\ lockCall[o].pc = "locking"
    /\ LET a == lockCall[o]
       IN IF locks[a.key] # NoLock /\ locks[a.key].expiresAt > a.t0
          THEN UNCHANGED <<locks, held>>                      \* ErrLockTaken
          ELSE /\ locks' = [locks EXCEPT ![a.key] = [owner |-> o, expiresAt |-> a.t0 + a.ttl]]
               /\ held' = [held EXCEPT ![o][a.key] = a.t0 + a.ttl]
    /\ lockCall' = [lockCall EXCEPT ![o] = NoAcquire]
    /\ now' = now

\* Mutant: Release deletes the entry without comparing owners.
ReleaseAnyOwner(o, k) ==
    /\ lockCall[o].pc = "idle"
    /\ locks' = [locks EXCEPT ![k] = NoLock]
    /\ held' = [held EXCEPT ![o][k] = 0]
    /\ UNCHANGED <<now, lockCall>>

(* The caller gives the lease up whatever the answer: nil when there is no *)
(* entry or it was the owner, ErrLockOwner when another owner holds it.    *)
Release(o, k) ==
    /\ lockCall[o].pc = "idle"
    /\ locks' = IF locks[k] # NoLock /\ locks[k].owner = o
                THEN [locks EXCEPT ![k] = NoLock]
                ELSE locks
    /\ held' = [held EXCEPT ![o][k] = 0]
    /\ UNCHANGED <<now, lockCall>>

Tick ==
    /\ now < MaxTime
    /\ now' = now + 1
    /\ UNCHANGED <<locks, lockCall, held>>

Next ==
    \/ \E o \in Owners :
          \/ \E k \in LockKeys, ttl \in TTLs : AcquireNow(o, k, ttl)
          \/ Acquire(o)
          \/ \E k \in LockKeys : Release(o, k)
    \/ Tick

Spec == Init /\ [][Next]_vars

-----------------------------------------------------------------------------
(* Lease exclusion: two owners never both hold an unexpired lease on one   *)
(* lock, though Acquire reads the clock before taking s.mu, leases expire  *)
(* without a Release, and a late Release comes from an owner whose lease   *)
(* another owner has taken over.                                           *)
LockExclusive ==
    \A k \in LockKeys, o1, o2 \in Owners :
        o1 # o2 => ~(held[o1][k] > now /\ held[o2][k] > now)
====
