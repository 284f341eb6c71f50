----------------------------- MODULE BufferPool -----------------------------
(***************************************************************************)
(* buffer.BufferPoolManager over buffer.LRUReplacer and                    *)
(* storage.FilePageManager, called by concurrent goroutines (Threads).    *)
(*                                                                         *)
(* BufferPoolManager.mu is released between a FetchPage miss taking a     *)
(* frame and ReadPage, and between FlushPage looking a page up and        *)
(* WritePage; WritePage copies the bytes and then clears Page.Dirty under *)
(* the page manager's own mutex.  Each of these is a step of its own.     *)
(*                                                                         *)
(* Page contents are versions: every write by a caller produces the next  *)
(* version of that page; latest is a ghost holding the newest version     *)
(* written.  *storage.Page objects have identities (Objs), because a      *)
(* caller keeps using the object FetchPage returned while the pool's map  *)
(* may already point at another object for the same id.                    *)
(***************************************************************************)
EXTENDS Integers, Sequences, SequencesExt, FiniteSets

CONSTANTS
    Threads,           \* goroutines calling the pool
    Capacity,          \* NewBufferPoolManager(capacity, ...)
    MaxPages,          \* bound: page ids ever allocated
    MaxVersion,        \* bound: writes per page
    MaxObjs            \* bound: *storage.Page objects alive at once

ASSUME Capacity \in Nat \ {0}
ASSUME {MaxPages, MaxVersion, MaxObjs} \subseteq Nat

Frames == 0 .. Capacity - 1
PageIDs == 0 .. MaxPages - 1
Objs == 1 .. MaxObjs
Versions == 0 .. MaxVersion
NoFrame == -1
NoPage == -1
NoObj == 0
\* LRUReplacer's fields; frame numbers stand for *lruNode, NoFrame for nil.
Replacer == [nodes : SUBSET Frames, head : Frames \union {NoFrame},
             tail : Frames \union {NoFrame},
             prev : [Frames -> Frames \union {NoFrame}],
             next : [Frames -> Frames \union {NoFrame}]]


VARIABLES
    disk,        \* FilePageManager's file: page id -> version stored
    nextPageID,  \* FilePageManager.nextPageID
    objects,     \* *storage.Page objects: id, PinCount, Dirty, Data
    pages,       \* BufferPoolManager.pages: page id -> object
    frameByPID,  \* BufferPoolManager.frameByPID
    pidByFrame,  \* BufferPoolManager.pidByFrame
    freeList,    \* BufferPoolManager.freeList (a stack)
    lru,         \* LRUReplacer: node set, head, tail, prev and next
    pc,          \* where each thread's call is
    loc,         \* locals of the call in progress: pid, frame, obj, data
    held,        \* caller side: the object each thread got for a page
    wrote,       \* caller side: pages the thread changed since fetching
    latest       \* ghost: newest version written of each page

vars == <<disk, nextPageID, objects, pages, frameByPID, pidByFrame, freeList,
          lru, pc, loc, held, wrote, latest>>

PageObj == [pid : PageIDs, pin : Nat, dirty : BOOLEAN, data : Versions]
Pcs == {"idle", "fetchRead", "fetchInstall", "newInstall", "flushWrite",
        "flushClear"}
Resident(p) == pages[p] # NoObj

TypeOK ==
    /\ disk \in [PageIDs -> Versions]
    /\ nextPageID \in 0 .. MaxPages
    /\ objects \in [Objs -> PageObj]
    /\ pages \in [PageIDs -> Objs \union {NoObj}]
    /\ frameByPID \in [PageIDs -> Frames \union {NoFrame}]
    /\ pidByFrame \in [Frames -> PageIDs \union {NoPage}]
    /\ freeList \in Seq(Frames)
    /\ lru \in Replacer
    /\ pc \in [Threads -> Pcs]
    /\ held \in [Threads -> [PageIDs -> Objs \union {NoObj}]]
    /\ wrote \in [Threads -> SUBSET PageIDs]
    /\ latest \in [PageIDs -> Versions]

\* Objects some map entry, caller or call in progress still points to.
Referenced ==
    Range(pages)
    \union UNION {Range(held[t]) : t \in Threads}
    \union {loc[t].obj : t \in Threads}

FreeObj == CHOOSE o \in Objs \ Referenced : TRUE

(***************************************************************************)
(* LRUReplacer: a doubly linked list of frames, newest at head, with the  *)
(* node map as the set of listed frames.  Pointers are frame numbers and  *)
(* nil is NoFrame.  Unpin adds a frame at the head unless it is already  *)
(* listed; Pin unlinks it; Victim unlinks the tail.                        *)
(***************************************************************************)
NewLRUReplacer ==
    [nodes |-> {}, head |-> NoFrame, tail |-> NoFrame,
     prev |-> [f \in Frames |-> NoFrame], next |-> [f \in Frames |-> NoFrame]]

\* ptr[x] := v, skipped when x is nil.
Link(ptr, x, v) == IF x = NoFrame THEN ptr ELSE [ptr EXCEPT ![x] = v]

AddToHead(l, n) ==
    [l EXCEPT !.prev = Link([@ EXCEPT ![n] = NoFrame], l.head, n),
              !.next = [@ EXCEPT ![n] = l.head],
              !.head = n,
              !.tail = IF @ = NoFrame THEN n ELSE @]

\* Mutant: remove forgets r.tail = n.prev when n is the tail.
RemoveKeepsTail(l, n) ==
    LET p == l.prev[n]  q == l.next[n] IN
    [l EXCEPT !.next = [Link(@, p, q) EXCEPT ![n] = NoFrame],
              !.head = IF p = NoFrame THEN q ELSE @,
              !.prev = [Link(@, q, p) EXCEPT ![n] = NoFrame]]

Unlink(l, n) ==
    LET p == l.prev[n]  q == l.next[n] IN
    [l EXCEPT !.next = [Link(@, p, q) EXCEPT ![n] = NoFrame],
              !.head = IF p = NoFrame THEN q ELSE @,
              !.prev = [Link(@, q, p) EXCEPT ![n] = NoFrame],
              !.tail = IF q = NoFrame THEN p ELSE @]

ReplacerVictim(l) == [Unlink(l, l.tail) EXCEPT !.nodes = @ \ {l.tail}]

ReplacerPin(l, f) ==
    IF f \notin l.nodes THEN l ELSE [Unlink(l, f) EXCEPT !.nodes = @ \ {f}]

ReplacerUnpin(l, f) ==
    IF f \in l.nodes THEN l ELSE AddToHead([l EXCEPT !.nodes = @ \union {f}], f)

\* FilePageManager.WritePage: the bytes go to the file, the file grows to
\* cover the page, and the object's Dirty flag is cleared (WriteDirty).
WriteDisk(d, o) == [d EXCEPT ![objects[o].pid] = objects[o].data]
GrowTo(p) == IF p >= nextPageID THEN p + 1 ELSE nextPageID

\* Mutant: takes the free list's length, not its last element, as the frame.
FrameChoicesByLen ==
    IF freeList # <<>> THEN {Len(freeList)}
    ELSE IF lru.tail # NoFrame THEN {lru.tail} ELSE {}


(***************************************************************************)
(* acquireFrameLocked: pop the free list, else evict the replacer's      *)
(* victim, writing it back first when dirty.  That WritePage is taken to *)
(* succeed: the code drops its error, a fault this model leaves out.     *)
(* With neither a free frame nor a victim it                             *)
(* fails with ErrNoFrameAvailable, a step with no effect.                *)
(***************************************************************************)
FrameChoices ==
    IF freeList # <<>> THEN {Last(freeList)}
    ELSE IF lru.tail # NoFrame THEN {lru.tail} ELSE {}

VictimObj(f) ==
    IF freeList = <<>> /\ pidByFrame[f] # NoPage THEN pages[pidByFrame[f]]
    ELSE NoObj

\* Mutant: the victim is dropped without WritePage, dirty or not.
AfterAcquireNoWriteBack(f) ==
    LET q == pidByFrame[f]
        evict == freeList = <<>> /\ q # NoPage
    IN [freeList |-> IF freeList # <<>> THEN Front(freeList) ELSE freeList,
        lru |-> IF freeList # <<>> THEN lru ELSE ReplacerVictim(lru),
        disk |-> disk, nextPageID |-> nextPageID, objects |-> objects,
        pages |-> IF evict THEN [pages EXCEPT ![q] = NoObj] ELSE pages,
        frameByPID |-> IF evict THEN [frameByPID EXCEPT ![q] = NoFrame]
                       ELSE frameByPID,
        pidByFrame |-> IF evict THEN [pidByFrame EXCEPT ![f] = NoPage]
                       ELSE pidByFrame]

\* Mutant: eviction forgets delete(b.frameByPID, pid).
AfterAcquireKeepsFrameByPID(f) ==
    LET q == pidByFrame[f]
        o == VictimObj(f)
        evict == freeList = <<>> /\ q # NoPage
        wb == o # NoObj /\ objects[o].dirty
    IN [freeList |-> IF freeList # <<>> THEN Front(freeList) ELSE freeList,
        lru |-> IF freeList # <<>> THEN lru ELSE ReplacerVictim(lru),
        disk |-> IF wb THEN WriteDisk(disk, o) ELSE disk,
        nextPageID |-> IF wb THEN GrowTo(q) ELSE nextPageID,
        objects |-> IF wb THEN [objects EXCEPT ![o].dirty = FALSE] ELSE objects,
        pages |-> IF evict THEN [pages EXCEPT ![q] = NoObj] ELSE pages,
        frameByPID |-> frameByPID,
        pidByFrame |-> IF evict THEN [pidByFrame EXCEPT ![f] = NoPage]
                       ELSE pidByFrame]


\* The pool after taking frame f, a dirty victim written back first.
AfterAcquire(f) ==
    LET q == pidByFrame[f]
        o == VictimObj(f)
        evict == freeList = <<>> /\ q # NoPage
        wb == o # NoObj /\ objects[o].dirty
    IN [freeList |-> IF freeList # <<>> THEN Front(freeList) ELSE freeList,
        lru |-> IF freeList # <<>> THEN lru ELSE ReplacerVictim(lru),
        disk |-> IF wb THEN WriteDisk(disk, o) ELSE disk,
        nextPageID |-> IF wb THEN GrowTo(q) ELSE nextPageID,
        objects |-> IF wb THEN [objects EXCEPT ![o].dirty = FALSE] ELSE objects,
        pages |-> IF evict THEN [pages EXCEPT ![q] = NoObj] ELSE pages,
        frameByPID |-> IF evict THEN [frameByPID EXCEPT ![q] = NoFrame]
                       ELSE frameByPID,
        pidByFrame |-> IF evict THEN [pidByFrame EXCEPT ![f] = NoPage]
                       ELSE pidByFrame]

\* Install object o for page p in frame f on top of pool state a; the
\* replacer's Pin of the fresh frame finds nothing to remove.
Install(a, p, f, o, obj) ==
    /\ disk' = a.disk
    /\ nextPageID' = a.nextPageID
    /\ freeList' = a.freeList
    /\ lru' = ReplacerPin(a.lru, f)
    /\ objects' = [a.objects EXCEPT ![o] = obj]
    /\ pages' = [a.pages EXCEPT ![p] = o]
    /\ frameByPID' = [a.frameByPID EXCEPT ![p] = f]
    /\ pidByFrame' = [a.pidByFrame EXCEPT ![f] = p]

TakeFrame(a) ==
    /\ disk' = a.disk
    /\ nextPageID' = a.nextPageID
    /\ freeList' = a.freeList
    /\ lru' = a.lru
    /\ objects' = a.objects
    /\ pages' = a.pages
    /\ frameByPID' = a.frameByPID
    /\ pidByFrame' = a.pidByFrame

Idle(t) == pc' = [pc EXCEPT ![t] = "idle"]

\* Mutant: a hit raises PinCount but leaves the frame in the replacer.
FetchHitNoPin(t, p) ==
    /\ pc[t] = "idle" /\ held[t][p] = NoObj /\ Resident(p)
    /\ objects' = [objects EXCEPT ![pages[p]].pin = @ + 1]
    /\ held' = [held EXCEPT ![t][p] = pages[p]]
    /\ UNCHANGED <<disk, nextPageID, pages, frameByPID, pidByFrame, freeList,
                   lru, pc, loc, wrote, latest>>


(***************************************************************************)
(* FetchPage.                                                              *)
(***************************************************************************)
\* The page is resident: PinCount++ and replacer.Pin under b.mu.
FetchHit(t, p) ==
    /\ pc[t] = "idle" /\ held[t][p] = NoObj /\ Resident(p)
    /\ objects' = [objects EXCEPT ![pages[p]].pin = @ + 1]
    /\ lru' = ReplacerPin(lru, frameByPID[p])
    /\ held' = [held EXCEPT ![t][p] = pages[p]]
    /\ UNCHANGED <<disk, nextPageID, pages, frameByPID, pidByFrame, freeList,
                   pc, loc, wrote, latest>>

\* A miss takes a frame under b.mu, then releases b.mu to read the page.
FetchMiss(t, p) ==
    /\ pc[t] = "idle" /\ held[t][p] = NoObj /\ ~Resident(p)
    /\ \E f \in FrameChoices :
          /\ TakeFrame(AfterAcquire(f))
          /\ loc' = [loc EXCEPT ![t] = [pid |-> p, frame |-> f, obj |-> NoObj,
                                        data |-> 0]]
    /\ pc' = [pc EXCEPT ![t] = "fetchRead"]
    /\ UNCHANGED <<held, wrote, latest>>

\* ReadPage: ErrPageNotFound past the end of the file; FetchPage returns
\* the error without giving the frame back.
FetchRead(t) ==
    LET p == loc[t].pid IN
    /\ pc[t] = "fetchRead"
    /\ IF p >= nextPageID
       THEN Idle(t) /\ loc' = [loc EXCEPT ![t].frame = NoFrame]
       ELSE /\ pc' = [pc EXCEPT ![t] = "fetchInstall"]
            /\ loc' = [loc EXCEPT ![t].data = disk[p]]
    /\ UNCHANGED <<disk, nextPageID, objects, pages, frameByPID, pidByFrame,
                   freeList, lru, held, wrote, latest>>

\* Back under b.mu: a new object is installed with PinCount = 1, whatever
\* the maps hold for the page by now.
FetchInstall(t) ==
    LET p == loc[t].pid
        pool == [disk |-> disk, nextPageID |-> nextPageID, freeList |-> freeList,
                 lru |-> lru, objects |-> objects, pages |-> pages,
                 frameByPID |-> frameByPID, pidByFrame |-> pidByFrame]
    IN
    /\ pc[t] = "fetchInstall"
    /\ Install(pool, p, loc[t].frame, FreeObj,
               [pid |-> p, pin |-> 1, dirty |-> FALSE, data |-> loc[t].data])
    /\ held' = [held EXCEPT ![t][p] = FreeObj]
    /\ Idle(t)
    /\ loc' = [loc EXCEPT ![t].frame = NoFrame]
    /\ UNCHANGED <<wrote, latest>>

(***************************************************************************)
(* NewPage: AllocatePage first (the id is lost if no frame is found),    *)
(* then a dirty, pinned, zeroed page in a frame taken under b.mu.        *)
(***************************************************************************)
NewAlloc(t) ==
    /\ pc[t] = "idle" /\ nextPageID < MaxPages
    /\ nextPageID' = nextPageID + 1
    /\ loc' = [loc EXCEPT ![t] = [pid |-> nextPageID, frame |-> NoFrame,
                                  obj |-> NoObj, data |-> 0]]
    /\ pc' = [pc EXCEPT ![t] = "newInstall"]
    /\ UNCHANGED <<disk, objects, pages, frameByPID, pidByFrame, freeList, lru,
                   held, wrote, latest>>

NewInstall(t) ==
    LET p == loc[t].pid IN
    /\ pc[t] = "newInstall"
    /\ Idle(t)
    /\ IF FrameChoices = {}
       THEN UNCHANGED <<disk, nextPageID, objects, pages, frameByPID,
                        pidByFrame, freeList, lru, loc, held>>
       ELSE \E f \in FrameChoices :
              /\ Install(AfterAcquire(f), p, f, FreeObj,
                         [pid |-> p, pin |-> 1, dirty |-> TRUE, data |-> 0])
              /\ held' = [held EXCEPT ![t][p] = FreeObj]
              /\ UNCHANGED loc
    /\ UNCHANGED <<wrote, latest>>

(***************************************************************************)
(* The caller changes the bytes of a page it holds pinned.               *)
(***************************************************************************)
Modify(t, p) ==
    LET o == held[t][p] IN
    /\ pc[t] = "idle" /\ o # NoObj /\ latest[p] < MaxVersion
    /\ objects' = [objects EXCEPT ![o].data = latest[p] + 1]
    /\ latest' = [latest EXCEPT ![p] = @ + 1]
    /\ wrote' = [wrote EXCEPT ![t] = @ \union {p}]
    /\ UNCHANGED <<disk, nextPageID, pages, frameByPID, pidByFrame, freeList,
                   lru, pc, loc, held>>

(***************************************************************************)
(* UnpinPage(id, isDirty): the caller gives up the page it holds; the    *)
(* pool decrements the PinCount of whatever object pages[id] is, ORs in  *)
(* the dirty flag, and hands the frame to the replacer at PinCount 0.    *)
(***************************************************************************)
UnpinPage(t, p) ==
    LET o == pages[p]
        pin == IF objects[o].pin > 0 THEN objects[o].pin - 1 ELSE 0
    IN
    /\ pc[t] = "idle" /\ held[t][p] # NoObj
    /\ held' = [held EXCEPT ![t][p] = NoObj]
    /\ wrote' = [wrote EXCEPT ![t] = @ \ {p}]
    /\ IF ~Resident(p)
       THEN UNCHANGED <<objects, lru>>
       ELSE /\ objects' = [objects EXCEPT ![o].pin = pin,
                                          ![o].dirty = @ \/ p \in wrote[t]]
            /\ lru' = IF pin = 0 THEN ReplacerUnpin(lru, frameByPID[p]) ELSE lru
    /\ UNCHANGED <<disk, nextPageID, pages, frameByPID, pidByFrame, freeList,
                   pc, loc, latest>>

(***************************************************************************)
(* FlushPage: look the object up under b.mu, then WritePage without b.mu:*)
(* the bytes are written, and then Dirty is cleared.                      *)
(***************************************************************************)
FlushStart(t, p) ==
    /\ pc[t] = "idle" /\ Resident(p)
    /\ loc' = [loc EXCEPT ![t] = [pid |-> p, frame |-> NoFrame,
                                  obj |-> pages[p], data |-> 0]]
    /\ pc' = [pc EXCEPT ![t] = "flushWrite"]
    /\ UNCHANGED <<disk, nextPageID, objects, pages, frameByPID, pidByFrame,
                   freeList, lru, held, wrote, latest>>

FlushWrite(t) ==
    LET o == loc[t].obj IN
    /\ pc[t] = "flushWrite"
    /\ disk' = WriteDisk(disk, o)
    /\ nextPageID' = GrowTo(objects[o].pid)
    /\ pc' = [pc EXCEPT ![t] = "flushClear"]
    /\ UNCHANGED <<objects, pages, frameByPID, pidByFrame, freeList, lru, loc,
                   held, wrote, latest>>

FlushClear(t) ==
    /\ pc[t] = "flushClear"
    /\ objects' = [objects EXCEPT ![loc[t].obj].dirty = FALSE]
    /\ Idle(t)
    /\ loc' = [loc EXCEPT ![t].obj = NoObj]
    /\ UNCHANGED <<disk, nextPageID, pages, frameByPID, pidByFrame, freeList,
                   lru, held, wrote, latest>>

Init ==
    /\ disk = [p \in PageIDs |-> 0]
    /\ nextPageID = 0
    /\ objects = [o \in Objs |-> [pid |-> 0, pin |-> 0, dirty |-> FALSE,
                                  data |-> 0]]
    /\ pages = [p \in PageIDs |-> NoObj]
    /\ frameByPID = [p \in PageIDs |-> NoFrame]
    /\ pidByFrame = [f \in Frames |-> NoPage]
    /\ freeList = [i \in 1 .. Capacity |-> i - 1]
    /\ lru = NewLRUReplacer
    /\ pc = [t \in Threads |-> "idle"]
    /\ loc = [t \in Threads |-> [pid |-> 0, frame |-> NoFrame, obj |-> NoObj,
                                 data |-> 0]]
    /\ held = [t \in Threads |-> [p \in PageIDs |-> NoObj]]
    /\ wrote = [t \in Threads |-> {}]
    /\ latest = [p \in PageIDs |-> 0]

Next ==
    \E t \in Threads :
        \/ \E p \in PageIDs :
              FetchHit(t, p) \/ FetchMiss(t, p) \/ Modify(t, p)
              \/ UnpinPage(t, p) \/ FlushStart(t, p)
        \/ FetchRead(t) \/ FetchInstall(t)
        \/ NewAlloc(t) \/ NewInstall(t)
        \/ FlushWrite(t) \/ FlushClear(t)

Spec == Init /\ [][Next]_vars

-----------------------------------------------------------------------------
(***************************************************************************)
(* Refinement: the linked list, read from head along next, is the order   *)
(* LRUOrder specifies, provided every link agrees: no cycle, the listed   *)
(* frames are the node map, tail is the last one and prev mirrors next.   *)
(* A list that disagrees maps to a sequence LRUOrder never reaches.       *)
(***************************************************************************)
RECURSIVE Walk(_, _, _)
Walk(l, n, k) ==
    IF n = NoFrame \/ k = 0 THEN <<>> ELSE <<n>> \o Walk(l, l.next[n], k - 1)

WellLinked(l) ==
    LET s == Walk(l, l.head, Capacity + 1) IN
    /\ Len(s) <= Capacity
    /\ ToSet(s) = l.nodes
    /\ l.tail = IF s = <<>> THEN NoFrame ELSE Last(s)
    /\ \A i \in 1 .. Len(s) : l.prev[s[i]] = IF i = 1 THEN NoFrame ELSE s[i - 1]

ListOrder(l) == IF WellLinked(l) THEN Walk(l, l.head, Capacity) ELSE <<NoFrame>>

LRU == INSTANCE LRUOrder WITH order <- ListOrder(lru)

-----------------------------------------------------------------------------
(***************************************************************************)
(* Properties.                                                             *)
(***************************************************************************)

(* No lost update (spec 4.2: a dirty victim is written back before its   *)
(* frame is reused): the newest version of every page is in the file, or *)
(* in the page's resident object which is dirty or about to be unpinned  *)
(* dirty by the caller that changed it.                                   *)
NoLostUpdate ==
    \A p \in PageIDs :
        \/ disk[p] = latest[p]
        \/ /\ Resident(p)
           /\ objects[pages[p]].data = latest[p]
           /\ \/ objects[pages[p]].dirty
              \/ \E t \in Threads : held[t][p] = pages[p] /\ p \in wrote[t]

(* A page a caller holds pinned is never in the replacer, so it cannot be *)
(* chosen as a victim (spec 3: a page with pin count > 0 is never evicted).*)
HeldNotEvictable ==
    \A t \in Threads, p \in PageIDs :
        held[t][p] # NoObj /\ pages[p] = held[t][p]
        => frameByPID[p] \notin lru.nodes

(* The page table is a bijection over resident pages (spec 3: Frame), and *)
(* the object it names is the page's.                                     *)
PageTableConsistent ==
    \A p \in PageIDs :
        /\ Resident(p) <=> frameByPID[p] # NoFrame
        /\ Resident(p) => /\ pidByFrame[frameByPID[p]] = p
                          /\ objects[pages[p]].pid = p
        /\ \A f \in Frames : pidByFrame[f] = p => frameByPID[p] = f

(* LRUReplacer implements LRUOrder: every Victim, Pin and Unpin the pool *)
(* makes on the linked list (acquireFrameLocked, FetchPage, UnpinPage)    *)
(* moves the list's order exactly as the abstract replacer would.        *)
LRURefinement == LRU!Spec

=============================================================================
