----------------------------- MODULE Inventory -----------------------------
(***************************************************************************)
(* SKUs, their inventory and the ledger of movements: services/skus.py,    *)
(* services/inventory.py, the status changes of services/products.py and   *)
(* services/stores.py, and the sku_inventory part of services/imports.py,  *)
(* for one product of one store.                                           *)
(*                                                                         *)
(* A request is one transaction.  Its first query (the one that            *)
(* authenticates the user) fixes the read view that every plain SELECT of  *)
(* the request answers from; SELECT ... FOR UPDATE and UPDATE work on the  *)
(* latest row.  A request is therefore two steps here: Begin fixes the     *)
(* view, and the action that commits reads statuses from the view and the  *)
(* locked inventory rows from the current state.  Reads and uploads decide *)
(* nothing about rows others change, so each is one step.                  *)
(*                                                                         *)
(* An operator whose name extends that of the next one is a slip of the    *)
(* code that the properties below must notice; no action uses it.          *)
(***************************************************************************)
EXTENDS Naturals, Sequences, FiniteSets

CONSTANTS
    Skus,           \* sku codes of the product
    Users,          \* users, each with at most one writing request at a time
    Batches,        \* idempotency keys of sku_inventory imports
    Configs,        \* values of (warning_threshold, location_text)
    NewConfig,      \* the pair a new inventory row starts with
    MaxQty,         \* bound on quantities
    MaxMovements,   \* bound on the movements of a SKU
    NoView, NoVersion, NoRow, NoBatch

ASSUME BoundsAssumption == MaxQty \in Nat /\ MaxMovements \in Nat
ASSUME ConfigAssumption == NewConfig \in Configs
ASSUME BatchAssumption == NoBatch \notin Batches

VARIABLES
    account,    \* each SKU with its inventory row and its movements
    product,    \* status of the product
    store,      \* status of the store
    batch,      \* import batches
    view,       \* the read view of each user's request
    held        \* what each user last read of an inventory row, while its version_no is current

vars == <<account, product, store, batch, view, held>>

(***************************************************************************)
(* Inventory rows and movements.                                           *)
(***************************************************************************)
Quantities == {"stock", "locked"}
SkuStatuses == {"active", "inactive"}
ProductStatuses == {"draft", "active", "inactive"}
StoreStatuses == {"active", "inactive"}
Amounts == 0..MaxQty

Movements == [quantity: Quantities, before: Amounts, after: Amounts, batch: Batches \cup {NoBatch}]

Accounts == [
    status: SkuStatuses \cup {"absent"},
    qty:    [Quantities -> Amounts],
    config: Configs,
    log:    Seq(Movements)]

NewAccount == [
    status |-> "absent", qty |-> [k \in Quantities |-> 0], config |-> NewConfig, log |-> <<>>]

(* What a response shows of the inventory row beside its version.           *)
Shown(a) == [qty |-> a.qty, config |-> a.config]

(* One change of a quantity writes one movement.                            *)
ChangeUnlogged(a, k, n, b) == [a EXCEPT !.qty[k] = n]

Change(a, k, n, b) ==
    [a EXCEPT !.qty[k] = n,
              !.log = Append(@, [quantity |-> k, before |-> a.qty[k], after |-> n, batch |-> b])]

(* _movement of an import: no movement when nothing changes.                *)
Move(a, k, n, b) == IF a.qty[k] = n THEN a ELSE Change(a, k, n, b)

(***************************************************************************)
(* Requests.                                                               *)
(***************************************************************************)
Views == [sku: [Skus -> SkuStatuses \cup {"absent"}], product: ProductStatuses,
          store: StoreStatuses, uploaded: SUBSET Batches]

Begin(u) ==
    /\ view[u] = NoView
    /\ view' = [view EXCEPT ![u] = [
            sku |-> [s \in Skus |-> account[s].status],
            product |-> product,
            store |-> store,
            uploaded |-> {b \in Batches : batch[b].state # "absent"}]]
    /\ UNCHANGED <<account, product, store, batch, held>>

(* The request has changed nothing: refused, rolled back, or a read.        *)
Refuse(u) ==
    /\ view[u] # NoView
    /\ view' = [view EXCEPT ![u] = NoView]
    /\ UNCHANGED <<account, product, store, batch, held>>

Commit(u) == view[u] # NoView /\ view' = [view EXCEPT ![u] = NoView]

(* A status is assigned in the session: an UPDATE is emitted only when it   *)
(* differs from the value that was read.                                    *)
Assigned(seen, value, current) == IF value = seen THEN current ELSE value

OutdateNever(ss) == UNCHANGED held

(* A commit that increments version_no: no user holds the current version   *)
(* of these rows any more.                                                  *)
Outdate(ss) ==
    held' = [u \in Users |-> [s \in Skus |-> IF s \in ss THEN NoVersion ELSE held[u][s]]]

Init ==
    /\ account = [s \in Skus |-> NewAccount]
    /\ product \in {"draft", "active"}
    /\ store = "active"
    /\ batch = [b \in Batches |-> [state |-> "absent", rows |-> [s \in Skus |-> NoRow]]]
    /\ view = [u \in Users |-> NoView]
    /\ held = [u \in Users |-> [s \in Skus |-> NoVersion]]

(***************************************************************************)
(* Products, stores and SKUs.                                              *)
(***************************************************************************)

(* change_product_status, and archive_product, which is the change to       *)
(* inactive.                                                                *)
ChangeProductStatus(u, status) ==
    /\ status = "active" => view[u].store = "active"
    /\ product' = Assigned(view[u].product, status, product)
    /\ UNCHANGED <<account, store, batch, held>>

(* update_store looks at nothing but the store.                             *)
UpdateStore(u, status) ==
    /\ store' = Assigned(view[u].store, status, store)
    /\ UNCHANGED <<account, product, batch, held>>

(* _ensure_product_allows_active_sku                                        *)
AllowsActiveSku(v) == v.product # "inactive" /\ v.store = "active"

(* A code taken since the view was fixed violates the unique key.           *)
CreateSku(u, s, status) ==
    /\ AllowsActiveSku(view[u])
    /\ account[s].status = "absent"
    /\ account' = [account EXCEPT ![s] = [NewAccount EXCEPT !.status = status]]
    /\ UNCHANGED <<product, store, batch, held>>

ChangeSkuStatus(u, s, status) ==
    /\ view[u].sku[s] # "absent"
    /\ status = "active" => AllowsActiveSku(view[u])
    /\ account' = [account EXCEPT ![s].status = Assigned(view[u].sku[s], status, @)]
    /\ UNCHANGED <<product, store, batch, held>>

(***************************************************************************)
(* Inventory.                                                              *)
(***************************************************************************)

(* get_inventory_detail, or a list.                                         *)
Read(u, s) ==
    /\ account[s].status # "absent"
    /\ held' = [held EXCEPT ![u][s] = Shown(account[s])]
    /\ UNCHANGED <<account, product, store, batch, view>>

(* _check_version, on the locked row: any other version is refused.         *)
VersionMatches(u, s) == held[u][s] # NoVersion

MayGrow(v, s) == v.sku[s] = "active" /\ v.product # "inactive" /\ v.store = "active"

Fits(qty) == qty["locked"] <= qty["stock"]

RoomForMovement(s) == Len(account[s].log) < MaxMovements

(* adjust_inventory: n is the quantity that change_qty leads to.            *)
AdjustInventory(u, s, k, n) ==
    LET a == account[s] IN
    /\ view[u].sku[s] # "absent"
    /\ VersionMatches(u, s)
    /\ n # a.qty[k]
    /\ n > a.qty[k] => MayGrow(view[u], s)
    /\ Fits([a.qty EXCEPT ![k] = n])
    /\ RoomForMovement(s)
    /\ account' = [account EXCEPT ![s] = Change(a, k, n, NoBatch)]
    /\ Outdate({s})
    /\ UNCHANGED <<product, store, batch>>

UpdateInventoryConfig(u, s, config) ==
    /\ view[u].sku[s] # "absent"
    /\ VersionMatches(u, s)
    /\ account' = [account EXCEPT ![s].config = config]
    /\ Outdate({s})
    /\ UNCHANGED <<product, store, batch>>

(***************************************************************************)
(* Imports of SKUs with their target quantities.                           *)
(***************************************************************************)
ImportRows == [status: SkuStatuses, qty: [Quantities -> Amounts], config: Configs]

Grows(a, r) == \E k \in Quantities : r.qty[k] > a.qty[k]

(* _validate_sku_inventory; a row it refuses is never imported (NoRow).     *)
ValidRow(s, r) ==
    /\ product # "inactive"
    /\ store = "active"
    /\ Fits(r.qty)
    /\ r.status = "inactive" => ~Grows(account[s], r)

(* upload_and_preview: a file has at most one valid row for a SKU.          *)
Upload(b, rows) ==
    /\ batch[b].state = "absent"
    /\ \A s \in Skus : rows[s] # NoRow => ValidRow(s, rows[s])
    /\ batch' = [batch EXCEPT ![b] = [state |-> "validated", rows |-> rows]]
    /\ UNCHANGED <<account, product, store, view, held>>

(* _import_sku_inventory.  A SKU the view does not show is inserted, which  *)
(* fails when it exists by now; the store is not looked at again.           *)
RowSucceeds(v, s, r) ==
    /\ v.product # "inactive"
    /\ v.sku[s] = "absent" => account[s].status = "absent"
    /\ r.status = "inactive" => ~Grows(account[s], r)

StockFirst(a, r, b) ==
    Move(Move(a, "stock", r.qty["stock"], b), "locked", r.qty["locked"], b)

(* Locked quantity in excess of the new stock goes first, so that no        *)
(* movement leaves more locked than there is.                               *)
QuantitiesImported(a, r, b) ==
    IF a.qty["locked"] > r.qty["stock"]
    THEN Move(Move(a, "locked", r.qty["locked"], b), "stock", r.qty["stock"], b)
    ELSE Move(Move(a, "stock", r.qty["stock"], b), "locked", r.qty["locked"], b)

(* version_no counts the movements; the new configuration leaves it alone.  *)
Imported(v, s, r, b) ==
    [QuantitiesImported(account[s], r, b) EXCEPT
        !.status = Assigned(v.sku[s], r.status, @),
        !.config = r.config]

ConfirmableTwice(b) == batch[b].state # "absent"

Confirmable(b) == batch[b].state = "validated"

AfterImportUnguarded(v, b) ==
    [s \in Skus |->
        LET r == batch[b].rows[s] IN
        CASE r = NoRow             -> account[s]
          [] RowSucceeds(v, s, r)  -> Imported(v, s, r, b)
          [] OTHER                 -> Move(account[s], "stock", r.qty["stock"], b)]

AfterImport(v, b) ==
    [s \in Skus |->
        LET r == batch[b].rows[s] IN
        IF r # NoRow /\ RowSucceeds(v, s, r) THEN Imported(v, s, r, b) ELSE account[s]]

RoomForImport(after) == \A s \in Skus : Len(after[s].log) <= MaxMovements

(* confirm_batch: rows that fail are rolled back to their savepoint, the    *)
(* others are committed with the batch.  The user knows the batch from its  *)
(* preview, so the view shows its rows.                                     *)
ConfirmBatch(u, b) ==
    LET after == AfterImport(view[u], b) IN
    /\ b \in view[u].uploaded
    /\ Confirmable(b)
    /\ RoomForImport(after)
    /\ account' = after
    /\ batch' = [batch EXCEPT ![b].state = "completed"]
    /\ Outdate({s \in Skus : after[s].qty # account[s].qty})
    /\ UNCHANGED <<product, store>>

(***************************************************************************)

Write(u) ==
    \/ \E status \in {"active", "inactive"} : ChangeProductStatus(u, status)
    \/ \E status \in StoreStatuses : UpdateStore(u, status)
    \/ \E s \in Skus, status \in SkuStatuses :
        CreateSku(u, s, status) \/ ChangeSkuStatus(u, s, status)
    \/ \E s \in Skus, k \in Quantities, n \in Amounts : AdjustInventory(u, s, k, n)
    \/ \E s \in Skus, config \in Configs : UpdateInventoryConfig(u, s, config)
    \/ \E b \in Batches : ConfirmBatch(u, b)

Next ==
    \/ \E u \in Users : Begin(u) \/ Refuse(u) \/ (Commit(u) /\ Write(u))
    \/ \E u \in Users, s \in Skus : Read(u, s)
    \/ \E b \in Batches, rows \in [Skus -> ImportRows \cup {NoRow}] : Upload(b, rows)

Spec == Init /\ [][Next]_vars

(***************************************************************************)
(* Properties.                                                             *)
(***************************************************************************)

TypeOK ==
    /\ account \in [Skus -> Accounts]
    /\ product \in ProductStatuses
    /\ store \in StoreStatuses
    /\ batch \in [Batches -> [state: {"absent", "validated", "completed"},
                              rows: [Skus -> ImportRows \cup {NoRow}]]]
    /\ view \in [Users -> Views \cup {NoView}]
    /\ held \in [Users -> [Skus -> [qty: [Quantities -> Amounts], config: Configs]
                                   \cup {NoVersion}]]

(* After the first n movements of a log, quantity k stands at q.            *)
StandsAt(log, n, k, q) ==
    \/ /\ \A i \in 1..n : log[i].quantity # k
       /\ q = 0
    \/ \E i \in 1..n :
        /\ log[i].quantity = k
        /\ \A j \in (i + 1)..n : log[j].quantity # k
        /\ q = log[i].after

Replays(a) ==
    /\ \A k \in Quantities : StandsAt(a.log, Len(a.log), k, a.qty[k])
    /\ \A i \in 1..Len(a.log) : StandsAt(a.log, i - 1, a.log[i].quantity, a.log[i].before)

FitsThroughout(a) ==
    \A n \in 0..Len(a.log) : \A stock, locked \in Amounts :
        StandsAt(a.log, n, "stock", stock) /\ StandsAt(a.log, n, "locked", locked)
            => locked <= stock

(* The ledger explains the inventory: every movement starts from where the  *)
(* movements before it left that quantity, and the last ones left it at     *)
(* what the inventory row says.                                             *)
LedgerReplays == \A s \in Skus : Replays(account[s])

(* Replayed movement by movement, a ledger never has more locked than there *)
(* is in stock, whatever imports and adjustments follow each other.         *)
ReplayFits == \A s \in Skus : FitsThroughout(account[s])

(* Optimistic locking: a user whose version_no is current knows the current *)
(* quantities, so that no adjustment starts from a stale one.               *)
CurrentVersionShowsQuantities ==
    \A u \in Users, s \in Skus : held[u][s] # NoVersion => held[u][s].qty = account[s].qty

(* The same for the warning threshold and the location, which imports do    *)
(* not keep.                                                                *)
CurrentVersionShowsConfig ==
    \A u \in Users, s \in Skus : held[u][s] # NoVersion => held[u][s].config = account[s].config

(* An adjustment starts from quantities that some user had read and that    *)
(* were still current: nobody adjusts what others have changed unseen.      *)
AdjustmentsInformed ==
    [][\A s \in Skus : \A i \in (Len(account[s].log) + 1)..Len(account'[s].log) :
        account'[s].log[i].batch = NoBatch =>
            \E u \in Users : held[u][s] # NoVersion /\ held[u][s].qty = account[s].qty]_vars

(* A batch is booked once: its movements appear with its completion and     *)
(* with nothing else, however often and by whomever it is confirmed.        *)
BatchBookedOnce ==
    [][\A b \in Batches, s \in Skus :
        (\E i \in (Len(account[s].log) + 1)..Len(account'[s].log) : account'[s].log[i].batch = b)
        => batch[b].state = "validated" /\ batch'[b].state = "completed"]_vars

(* A confirmed batch leaves each SKU as its row says or as it was: a row    *)
(* that fails half way leaves nothing behind, and stops no other row.       *)
BatchRowsWhole ==
    [][\A b \in Batches, s \in Skus : LET r == batch[b].rows[s] IN
        batch[b].state = "validated" /\ batch'[b].state = "completed" =>
            \/ account'[s] = account[s]
            \/ /\ r # NoRow
               /\ account'[s].status # "absent"
               /\ account'[s].qty = r.qty
               /\ account'[s].config = r.config]_vars

(* What the design says of SKUs, products and stores that are not active:   *)
(* their quantities may be reduced or unlocked, never increased or locked.  *)
(* Adjustments look at all three; imports only at the product and the SKU   *)
(* when they are confirmed, whatever became of the store since the upload.  *)
GrowsOnlyOnSale ==
    [][\A s \in Skus, k \in Quantities :
        account'[s].qty[k] > account[s].qty[k] =>
            account'[s].status = "active" /\ product # "inactive" /\ store = "active"]_vars
=============================================================================
