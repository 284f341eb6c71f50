------------------------------- MODULE EShop -------------------------------
(***************************************************************************)
(* The stage11 mini-ecommerce as cmd/server runs it: every POST           *)
(* /api/orders is served by its own goroutine, which calls                 *)
(* App.CreateOrderAndPay, that is order.Service.Create and then            *)
(* order.Service.Pay.  Those call inventory.Service (Deduct, Rollback,    *)
(* Confirm), payment.Service (Create, Callback) and two                    *)
(* infra.Snowflake generators, node 1 for order ids and node 2 for        *)
(* payment ids.  Each service call takes its service's mutex once, so it   *)
(* is one step; the Snowflake busy-wait for the next millisecond holds     *)
(* s.mu and is a step of its own.                                          *)
(*                                                                         *)
(* The request context is the one net/http cancels when the client goes   *)
(* away; every service method returns ctx.Err() first, and the callers     *)
(* ignore the errors of Rollback and Confirm.  Prices, totals, user ids    *)
(* and timestamps are never looked at by a decision of the code and are    *)
(* left out; an id is the integer NextID packs (formatOrderID and          *)
(* formatID are injective, so the map keys are the integers).             *)
(***************************************************************************)
EXTENDS Integers, Sequences, FiniteSets, Functions, TLC

CONSTANTS
    Requests,    \* concurrent POST /api/orders requests
    Products,    \* product ids seeded in the inventory
    Seed,        \* Seed[p]: the stock inventory.Service.Seed gave p
    ItemLists,   \* item lists a request body can carry (non-empty)
    SeqBits,     \* width of the Snowflake sequence (seqBits, 12 in the code)
    MaxTime,     \* bound of the wall clock Tick advances
    MaxBacks,    \* bound of the steps the wall clock moves backwards
    MaxDisconnects  \* bound of the requests whose client goes away

NodeBits == 10                       \* snowflake.go nodeBits
MaxSeq == 2^SeqBits - 1              \* snowflake.go maxSeq
\* app.New: idGen1 (node 1) for orders, idGen2 (node 2) for payments.
GenOf == [order |-> 1, payment |-> 2]
Gens == {1, 2}
\* NextID's packing of (now - epoch), the node id and the sequence.
IdOf(t, node, seq) == t * 2^(NodeBits + SeqBits) + node * 2^SeqBits + seq
Item == [product : Products, quantity : Nat]
Statuses == {"pending", "paid"}       \* model.OrderPending, model.OrderPaid

\* Quantity of product p in an item list.
QtyOf(list, p) ==
    FoldFunction(LAMBDA it, acc : IF it.product = p THEN acc + it.quantity ELSE acc,
                 0, list)
Clamp0(x) == IF x < 0 THEN 0 ELSE x

VARIABLES
    \* inventory.Service.items
    stock,      \* stock[p]: Inventory.Stock
    locked,     \* locked[p]: Inventory.Locked
    orders,     \* order.Service.orders: id -> [items, status]
    payments,   \* payment.Service.payments: id -> Success
    gen,        \* gen[g]: Snowflake g's lastTime and seq
    holder,     \* holder[g]: the request holding Snowflake g's mu in the busy-wait
    clock,      \* the wall clock time.Now().UnixMilli() reads, minus epoch
    backs,      \* steps the clock has moved backwards so far
    \* one request goroutine each
    pc,         \* where it is in CreateOrderAndPay
    items,      \* the items of its request body
    idx,        \* the item its current loop is at
    ids,        \* ids[r].order, ids[r].payment: ids NextID returned (0: none)
    seen,       \* the order record Pay read under s.mu.RLock
    ctxDone,    \* r.Context() was cancelled: the client went away
    resp        \* the status the handler wrote: "none", "ok", "err" or "bad"

invVars == <<stock, locked>>
genVars == <<gen, holder, clock, backs>>
reqVars == <<pc, items, idx, ids, seen, ctxDone, resp>>
vars == <<stock, locked, orders, payments, genVars, reqVars>>

Pcs == {"idle", "deduct", "orderid", "orderspin", "rollback", "insert",
        "payread", "payid", "payspin", "payinsert", "callback", "payrollback",
        "confirm", "paywrite", "get", "done"}

TypeOK ==
    /\ stock \in [Products -> Nat] /\ locked \in [Products -> Nat]
    /\ DOMAIN orders \subseteq Nat /\ DOMAIN payments \subseteq Nat
    /\ \A o \in DOMAIN orders : orders[o].status \in Statuses
    /\ \A o \in DOMAIN payments : payments[o] \in BOOLEAN
    /\ gen \in [Gens -> [last : Int, seq : 0 .. MaxSeq]]
    /\ holder \in [Gens -> Requests \cup {"none"}]
    /\ clock \in Nat /\ backs \in 0 .. MaxBacks
    /\ pc \in [Requests -> Pcs]
    /\ ids \in [Requests -> [order : Nat, payment : Nat]]
    /\ ctxDone \in [Requests -> BOOLEAN]
    /\ resp \in [Requests -> {"none", "ok", "err", "bad"}]

Init ==
    \* cmd/server main: app.New, then InventorySvc.Seed
    /\ stock = Seed
    /\ locked = [p \in Products |-> 0]
    /\ orders = <<>>
    /\ payments = <<>>
    \* lastTime 0 is long before any time.Now(): before clock 0 here
    /\ gen = [g \in Gens |-> [last |-> -1, seq |-> 0]]
    /\ holder = [g \in Gens |-> "none"]
    /\ clock = 0
    /\ backs = 0
    /\ pc = [r \in Requests |-> "idle"]
    /\ items = [r \in Requests |-> <<>>]
    /\ idx = [r \in Requests |-> 1]
    /\ ids = [r \in Requests |-> [order |-> 0, payment |-> 0]]
    /\ seen = [r \in Requests |-> [items |-> <<>>, status |-> "pending"]]
    /\ ctxDone = [r \in Requests |-> FALSE]
    /\ resp = [r \in Requests |-> "none"]

-----------------------------------------------------------------------------
(* The wall clock, and net/http cancelling a request's context.            *)

Tick ==
    /\ clock < MaxTime
    /\ clock' = clock + 1
    /\ UNCHANGED <<stock, locked, orders, payments, gen, holder, backs, reqVars>>

\* An NTP step or a VM migration sets the clock back.
ClockBack ==
    /\ backs < MaxBacks /\ clock > 0
    /\ clock' = clock - 1 /\ backs' = backs + 1
    /\ UNCHANGED <<stock, locked, orders, payments, gen, holder, reqVars>>

Disconnect(r) ==
    /\ pc[r] \notin {"idle", "done"} /\ ~ctxDone[r]
    /\ Cardinality({q \in Requests : ctxDone[q]}) < MaxDisconnects
    /\ ctxDone' = [ctxDone EXCEPT ![r] = TRUE]
    /\ UNCHANGED <<stock, locked, orders, payments, genVars, pc, items, idx, ids, seen, resp>>

-----------------------------------------------------------------------------
(* Helpers of the request goroutine.                                       *)

\* The handler writes its response and the goroutine ends.
Return(r, code) ==
    /\ pc' = [pc EXCEPT ![r] = "done"]
    /\ resp' = [resp EXCEPT ![r] = code]
    /\ idx' = [idx EXCEPT ![r] = 1]

\* One iteration of a `for _, item := range list` loop: after the last item
\* the goroutine goes on at nextPc, writing code when that ends it.
LoopNext(r, list, nextPc, code) ==
    IF idx[r] = Len(list)
    THEN /\ pc' = [pc EXCEPT ![r] = nextPc]
         /\ idx' = [idx EXCEPT ![r] = 1]
         /\ resp' = [resp EXCEPT ![r] = code]
    ELSE /\ idx' = [idx EXCEPT ![r] = @ + 1]
         /\ UNCHANGED <<pc, resp>>

\* inventory.Service.Rollback: ctx.Err() first, then Locked -= q clamped at 0.
InvRollback(r, it) ==
    locked' = IF ctxDone[r] THEN locked
              ELSE [locked EXCEPT ![it.product] = Clamp0(@ - it.quantity)]

-----------------------------------------------------------------------------
(* infra.Snowflake.NextID, called by request r for the id w ("order" or    *)
(* "payment"), going on at next with the id, or at fail with the error.    *)

SpinPc == [order |-> "orderspin", payment |-> "payspin"]

\* NextID without the `& maxSeq` mask on the incremented sequence.
NextIDUnmasked(r, w, next, fail) ==
    LET g == GenOf[w]
        s == gen[g].seq + 1
    IN  /\ holder[g] = "none"
        /\ \/ /\ clock < gen[g].last
              /\ pc' = [pc EXCEPT ![r] = fail]
              /\ UNCHANGED <<gen, holder, ids>>
           \/ /\ clock = gen[g].last
              /\ gen' = [gen EXCEPT ![g] = [last |-> clock, seq |-> s]]
              /\ ids' = [ids EXCEPT ![r][w] = IdOf(clock, g, s)]
              /\ pc' = [pc EXCEPT ![r] = next]
              /\ UNCHANGED holder
           \/ /\ clock > gen[g].last
              /\ gen' = [gen EXCEPT ![g] = [last |-> clock, seq |-> 0]]
              /\ ids' = [ids EXCEPT ![r][w] = IdOf(clock, g, 0)]
              /\ pc' = [pc EXCEPT ![r] = next]
              /\ UNCHANGED holder

\* NextID without the `now < s.lastTime` check: a clock set back is taken
\* as a new millisecond.
NextIDIgnoresClockBack(r, w, next, fail) ==
    LET g == GenOf[w]
        s == (gen[g].seq + 1) % 2^SeqBits
    IN  /\ holder[g] = "none"
        /\ \/ /\ clock = gen[g].last /\ s = 0
              /\ gen' = [gen EXCEPT ![g].seq = 0]
              /\ holder' = [holder EXCEPT ![g] = r]
              /\ pc' = [pc EXCEPT ![r] = SpinPc[w]]
              /\ UNCHANGED ids
           \/ /\ clock = gen[g].last /\ s # 0
              /\ gen' = [gen EXCEPT ![g] = [last |-> clock, seq |-> s]]
              /\ ids' = [ids EXCEPT ![r][w] = IdOf(clock, g, s)]
              /\ pc' = [pc EXCEPT ![r] = next]
              /\ UNCHANGED holder
           \/ /\ clock # gen[g].last
              /\ gen' = [gen EXCEPT ![g] = [last |-> clock, seq |-> 0]]
              /\ ids' = [ids EXCEPT ![r][w] = IdOf(clock, g, 0)]
              /\ pc' = [pc EXCEPT ![r] = next]
              /\ UNCHANGED holder

\* The step that takes s.mu and either fails (clock moved backwards),
\* returns an id, or, when the sequence wrapped to 0 within the same
\* millisecond, enters the busy-wait still holding s.mu.
NextID(r, w, next, fail) ==
    LET g == GenOf[w]
        s == (gen[g].seq + 1) % 2^SeqBits
    IN  /\ holder[g] = "none"
        /\ \/ /\ clock < gen[g].last
              /\ pc' = [pc EXCEPT ![r] = fail]
              /\ UNCHANGED <<gen, holder, ids>>
           \/ /\ clock = gen[g].last /\ s = 0
              /\ gen' = [gen EXCEPT ![g].seq = 0]
              /\ holder' = [holder EXCEPT ![g] = r]
              /\ pc' = [pc EXCEPT ![r] = SpinPc[w]]
              /\ UNCHANGED ids
           \/ /\ clock = gen[g].last /\ s # 0
              /\ gen' = [gen EXCEPT ![g] = [last |-> clock, seq |-> s]]
              /\ ids' = [ids EXCEPT ![r][w] = IdOf(clock, g, s)]
              /\ pc' = [pc EXCEPT ![r] = next]
              /\ UNCHANGED holder
           \/ /\ clock > gen[g].last
              /\ gen' = [gen EXCEPT ![g] = [last |-> clock, seq |-> 0]]
              /\ ids' = [ids EXCEPT ![r][w] = IdOf(clock, g, 0)]
              /\ pc' = [pc EXCEPT ![r] = next]
              /\ UNCHANGED holder

\* A busy-wait that compares a `now` it never reads again.
SpinStale(r, w, next) ==
    LET g == GenOf[w] IN
    /\ pc[r] = SpinPc[w] /\ holder[g] = r
    /\ clock > gen[g].last
    /\ gen' = [gen EXCEPT ![g].last = clock]
    /\ ids' = [ids EXCEPT ![r][w] = IdOf(clock, g, gen[g].seq)]
    /\ holder' = [holder EXCEPT ![g] = "none"]
    /\ pc' = [pc EXCEPT ![r] = next]
    /\ UNCHANGED clock

\* `for now <= s.lastTime { now = time.Now().UnixMilli() }`: the loop reads
\* the clock until it passes lastTime, which takes the time it takes.
Spin(r, w, next) ==
    LET g == GenOf[w]
        now == IF clock > gen[g].last THEN clock ELSE gen[g].last + 1
    IN  /\ pc[r] = SpinPc[w] /\ holder[g] = r
        /\ clock' = now
        /\ gen' = [gen EXCEPT ![g].last = now]
        /\ ids' = [ids EXCEPT ![r][w] = IdOf(now, g, gen[g].seq)]
        /\ holder' = [holder EXCEPT ![g] = "none"]
        /\ pc' = [pc EXCEPT ![r] = next]

-----------------------------------------------------------------------------
(* The request goroutine: httpserver.createOrder, App.CreateOrderAndPay.  *)

\* A POST whose body decodes: CreateOrderAndPay starts order.Service.Create.
Arrive(r) ==
    /\ pc[r] = "idle"
    /\ \E l \in ItemLists : items' = [items EXCEPT ![r] = l]
    /\ pc' = [pc EXCEPT ![r] = "deduct"]
    /\ UNCHANGED <<stock, locked, orders, payments, genVars, idx, ids, seen, ctxDone, resp>>

\* Another method (405), or a body that does not decode (400).
Reject(r) ==
    /\ pc[r] = "idle"
    /\ Return(r, "bad")
    /\ UNCHANGED <<stock, locked, orders, payments, genVars, items, ids, seen, ctxDone>>

\* Create rolling back every item of the order on a Deduct error, the
\* items it never deducted included.
CreateDeductRollsBackAll(r) ==
    LET it == items[r][idx[r]]
        p == it.product
    IN
    /\ pc[r] = "deduct"
    /\ \/ /\ ctxDone[r] \/ stock[p] - locked[p] < it.quantity
          /\ locked' = [q \in Products |-> Clamp0(locked[q] - QtyOf(items[r], q))]
          /\ Return(r, "err")
       \/ /\ ~ctxDone[r] /\ stock[p] - locked[p] >= it.quantity
          /\ locked' = [locked EXCEPT ![p] = @ + it.quantity]
          /\ LoopNext(r, items[r], "orderid", "none")
    /\ UNCHANGED <<stock, orders, payments, genVars, items, ids, seen, ctxDone>>

\* inventory.Service.Deduct checking Stock alone, not Stock - Locked.
CreateDeductIgnoresLocked(r) ==
    LET it == items[r][idx[r]]
        p == it.product
    IN
    /\ pc[r] = "deduct"
    /\ \/ /\ ctxDone[r] \/ stock[p] < it.quantity
          /\ Return(r, "err")
          /\ UNCHANGED locked
       \/ /\ ~ctxDone[r] /\ stock[p] >= it.quantity
          /\ locked' = [locked EXCEPT ![p] = @ + it.quantity]
          /\ LoopNext(r, items[r], "orderid", "none")
    /\ UNCHANGED <<stock, orders, payments, genVars, items, ids, seen, ctxDone>>

\* One iteration of Create's loop: inventory.Service.Deduct of the item.
\* On its error (ctx cancelled, or insufficient stock) Create returns at
\* once: what the earlier items locked stays locked.
CreateDeduct(r) ==
    LET it == items[r][idx[r]]
        p == it.product
    IN
    /\ pc[r] = "deduct"
    /\ \/ /\ ctxDone[r] \/ stock[p] - locked[p] < it.quantity
          /\ Return(r, "err")
          /\ UNCHANGED locked
       \/ /\ ~ctxDone[r] /\ stock[p] - locked[p] >= it.quantity
          /\ locked' = [locked EXCEPT ![p] = @ + it.quantity]
          /\ LoopNext(r, items[r], "orderid", "none")
    /\ UNCHANGED <<stock, orders, payments, genVars, items, ids, seen, ctxDone>>

\* Create: s.idGen.NextID().
CreateNextID(r) ==
    /\ pc[r] = "orderid"
    /\ NextID(r, "order", "insert", "rollback")
    /\ UNCHANGED <<stock, locked, orders, payments, clock, backs, items, idx, seen, ctxDone, resp>>

CreateSpin(r) ==
    /\ Spin(r, "order", "insert")
    /\ UNCHANGED <<stock, locked, orders, payments, backs, items, idx, seen, ctxDone, resp>>

\* Create after a NextID error: Rollback of every item, errors ignored.
CreateRollback(r) ==
    /\ pc[r] = "rollback"
    /\ InvRollback(r, items[r][idx[r]])
    /\ LoopNext(r, items[r], "done", "err")
    /\ UNCHANGED <<stock, orders, payments, genVars, items, ids, seen, ctxDone>>

\* Create stores the pending order under s.mu; CreateOrderAndPay calls Pay.
CreateInsert(r) ==
    /\ pc[r] = "insert"
    /\ orders' = (ids[r].order :> [items |-> items[r], status |-> "pending"]) @@ orders
    /\ pc' = [pc EXCEPT ![r] = "payread"]
    /\ UNCHANGED <<stock, locked, payments, genVars, items, idx, ids, seen, ctxDone, resp>>

\* Pay: ctx.Err(), then the order read under s.mu.RLock.  The order was
\* stored by this goroutine, so the ErrOrderNotFound branch is not taken.
PayRead(r) ==
    /\ pc[r] = "payread"
    /\ \/ /\ ctxDone[r]
          /\ Return(r, "err")
          /\ UNCHANGED seen
       \/ /\ ~ctxDone[r] /\ ids[r].order \in DOMAIN orders
          /\ seen' = [seen EXCEPT ![r] = orders[ids[r].order]]
          /\ pc' = [pc EXCEPT ![r] = "payid"]
          /\ UNCHANGED <<idx, resp>>
    /\ UNCHANGED <<stock, locked, orders, payments, genVars, items, ids, ctxDone>>

\* payment.Service.Create: ctx.Err(), then its Snowflake's NextID; on an
\* error Pay rolls back the order's items.
PayNextID(r) ==
    /\ pc[r] = "payid"
    /\ \/ /\ ctxDone[r]
          /\ pc' = [pc EXCEPT ![r] = "payrollback"]
          /\ UNCHANGED <<gen, holder, ids>>
       \/ /\ ~ctxDone[r]
          /\ NextID(r, "payment", "payinsert", "payrollback")
    /\ UNCHANGED <<stock, locked, orders, payments, clock, backs, items, idx, seen, ctxDone, resp>>

PaySpin(r) ==
    /\ Spin(r, "payment", "payinsert")
    /\ UNCHANGED <<stock, locked, orders, payments, backs, items, idx, seen, ctxDone, resp>>

\* payment.Service.Create stores the payment, Success false.
PayInsert(r) ==
    /\ pc[r] = "payinsert"
    /\ payments' = (ids[r].payment :> FALSE) @@ payments
    /\ pc' = [pc EXCEPT ![r] = "callback"]
    /\ UNCHANGED <<stock, locked, orders, genVars, items, idx, ids, seen, ctxDone, resp>>

\* Pay after payment.Service.Create failed: Rollback of the order's items.
PayRollback(r) ==
    /\ pc[r] = "payrollback"
    /\ InvRollback(r, seen[r].items[idx[r]])
    /\ LoopNext(r, seen[r].items, "done", "err")
    /\ UNCHANGED <<stock, orders, payments, genVars, items, ids, seen, ctxDone>>

\* payment.Service.Callback(p.ID, true).  On its ctx error Pay returns with
\* the order pending and its items still locked.  The payment was stored
\* by this goroutine, so the not-found branch is not taken.
PayCallback(r) ==
    /\ pc[r] = "callback"
    /\ \/ /\ ctxDone[r]
          /\ Return(r, "err")
          /\ UNCHANGED payments
       \/ /\ ~ctxDone[r]
          /\ payments' = [payments EXCEPT ![ids[r].payment] = TRUE]
          /\ pc' = [pc EXCEPT ![r] = "confirm"]
          /\ UNCHANGED <<idx, resp>>
    /\ UNCHANGED <<stock, locked, orders, genVars, items, ids, seen, ctxDone>>

\* One iteration of Pay's loop: inventory.Service.Confirm, error ignored.
PayConfirm(r) ==
    LET it == seen[r].items[idx[r]]
        p == it.product
    IN
    /\ pc[r] = "confirm"
    /\ IF ctxDone[r]
       THEN UNCHANGED <<stock, locked>>
       ELSE /\ locked' = [locked EXCEPT ![p] = Clamp0(@ - it.quantity)]
            /\ stock' = [stock EXCEPT ![p] = Clamp0(@ - it.quantity)]
    /\ LoopNext(r, seen[r].items, "paywrite", "none")
    /\ UNCHANGED <<orders, payments, genVars, items, ids, seen, ctxDone>>

\* Pay stores its copy of the order with Status OrderPaid under s.mu.
PayWrite(r) ==
    /\ pc[r] = "paywrite"
    /\ orders' = (ids[r].order :> [seen[r] EXCEPT !.status = "paid"]) @@ orders
    /\ pc' = [pc EXCEPT ![r] = "get"]
    /\ UNCHANGED <<stock, locked, payments, genVars, items, idx, ids, seen, ctxDone, resp>>

\* CreateOrderAndPay's OrderSvc.Get, whose error it ignores; the handler
\* writes 200.
Respond(r) ==
    /\ pc[r] = "get"
    /\ Return(r, "ok")
    /\ UNCHANGED <<stock, locked, orders, payments, genVars, items, ids, seen, ctxDone>>

Step(r) ==
    \/ CreateDeduct(r) \/ CreateNextID(r) \/ CreateSpin(r) \/ CreateRollback(r)
    \/ CreateInsert(r) \/ PayRead(r) \/ PayNextID(r) \/ PaySpin(r)
    \/ PayInsert(r) \/ PayRollback(r) \/ PayCallback(r) \/ PayConfirm(r)
    \/ PayWrite(r) \/ Respond(r)

Next ==
    \/ Tick \/ ClockBack
    \/ \E r \in Requests : Arrive(r) \/ Reject(r) \/ Disconnect(r) \/ Step(r)

\* Each request goroutine runs while it can (the Go scheduler); the clock,
\* the clients and their disconnects are the environment.
Spec == Init /\ [][Next]_vars /\ \A r \in Requests : WF_vars(Step(r))

-----------------------------------------------------------------------------
(* Properties.                                                             *)

\* The quantity of p request r has locked and not yet released: the items
\* its Deduct loop has passed, all of them until a loop that releases them
\* (Rollback or Confirm) starts, and the items that loop has still to reach.
Held(r, p) ==
    CASE pc[r] = "deduct" -> QtyOf(SubSeq(items[r], 1, idx[r] - 1), p)
      [] pc[r] \in {"orderid", "orderspin", "insert", "payread", "payid",
                    "payspin", "payinsert", "callback"} -> QtyOf(items[r], p)
      [] pc[r] \in {"rollback", "payrollback", "confirm"} ->
             QtyOf(SubSeq(items[r], idx[r], Len(items[r])), p)
      [] OTHER -> 0

\* Quantity of p in the orders order.Service holds as paid.
Sold(p) ==
    FoldFunction(LAMBDA o, acc : IF o.status = "paid" THEN acc + QtyOf(o.items, p) ELSE acc,
                 0, orders)

\* Every id Snowflake.NextID returns is larger than every id the same
\* generator returned before (TestSnowflake: "id should increase"), across
\* the sequence wrap-around, the busy-wait and a clock set back; so no two
\* orders and no two payments share an id, and no Create overwrites, and
\* no Pay reads, another request's order.
IdsIncrease ==
    [][\A r \in Requests, w \in {"order", "payment"} :
         ids'[r][w] # ids[r][w] => \A q \in Requests : ids'[r][w] > ids[q][w]]_vars

\* Inventory.Locked of every product covers what the requests in flight
\* have deducted and not yet released, so a later Confirm or Rollback never
\* has its decrement clamped at 0.  Errors of Create, Rollback and Confirm
\* may leave more locked than that (stock leaked), never less.
ReservationsBacked ==
    \A p \in Products :
        locked[p] >= FoldFunction(LAMBDA h, acc : acc + h, 0, [r \in Requests |-> Held(r, p)])

\* However concurrent orders, failed ids and disconnects interleave, the
\* paid orders never hold more of a product than was seeded.
NoOversell == \A p \in Products : Sold(p) <= Seed[p]

\* Every POST /api/orders that has started is answered, including when it
\* waits in NextID for the next millisecond behind another request.
RequestsReturn == \A r \in Requests : pc[r] \notin {"idle", "done"} ~> pc[r] = "done"

\* Once every request has been answered, nothing is left locked: what a
\* request deducted was confirmed or rolled back.  Create returns on a
\* Deduct error without rolling back the items before it, and Pay ignores
\* the ctx errors of Callback, Confirm and Rollback.
NoStockLeak ==
    (\A r \in Requests : pc[r] \in {"idle", "done"}) => \A p \in Products : locked[p] = 0

=============================================================================
