-------------------------- MODULE InventoryProofs --------------------------
(***************************************************************************)
(* Proofs about Inventory.  A ledger that replays and fits throughout      *)
(* still does after any change that keeps locked within stock (the first   *)
(* part, about one account); every action is such a change of some         *)
(* accounts, or leaves them alone (the second part).                       *)
(***************************************************************************)
EXTENDS Inventory, TLAPS

(***************************************************************************)
(* Movements.                                                              *)
(***************************************************************************)

(* An appended movement changes nothing about the movements before it.      *)
LEMMA StandsAtBefore ==
    ASSUME NEW log \in Seq(Movements), NEW m \in Movements,
           NEW n \in 0..Len(log), NEW k, NEW q
    PROVE  StandsAt(Append(log, m), n, k, q) <=> StandsAt(log, n, k, q)
<1>1. \A i \in 1..n : Append(log, m)[i] = log[i]
  OBVIOUS
<1>2. \A i \in 1..n : (i + 1)..n \subseteq 1..n
  OBVIOUS
<1> QED
  BY <1>1, <1>2 DEF StandsAt

(* The quantity a movement is about stands where the movement leaves it.    *)
LEMMA StandsAtMoved ==
    ASSUME NEW log \in Seq(Movements), NEW m \in Movements, NEW q,
           StandsAt(Append(log, m), Len(log) + 1, m.quantity, q)
    PROVE  q = m.after
<1> DEFINE new == Append(log, m)
           n == Len(log) + 1
<1>1. new[n] = m /\ n \in 1..n
  OBVIOUS
<1>2. PICK i \in 1..n :
        /\ new[i].quantity = m.quantity
        /\ \A j \in (i + 1)..n : new[j].quantity # m.quantity
        /\ q = new[i].after
  BY <1>1 DEF StandsAt
<1>3. i = n
  BY <1>1, <1>2
<1> QED
  BY <1>1, <1>2, <1>3

(* And it does stand there.                                                 *)
LEMMA StandsAtAfter ==
    ASSUME NEW log \in Seq(Movements), NEW m \in Movements
    PROVE  StandsAt(Append(log, m), Len(log) + 1, m.quantity, m.after)
<1> DEFINE new == Append(log, m)
           n == Len(log) + 1
<1>1. new[n] = m /\ n \in 1..n
  OBVIOUS
<1>2. (n + 1)..n = {}
  OBVIOUS
<1> QED
  BY <1>1, <1>2 DEF StandsAt

(* The other quantity stands where it stood.                                *)
LEMMA StandsAtOther ==
    ASSUME NEW log \in Seq(Movements), NEW m \in Movements, NEW k, NEW q,
           m.quantity # k
    PROVE  StandsAt(Append(log, m), Len(log) + 1, k, q) <=> StandsAt(log, Len(log), k, q)
<1> DEFINE new == Append(log, m)
           n == Len(log)
<1>1. /\ new[n + 1] = m
      /\ \A i \in 1..n : new[i] = log[i]
      /\ n \in Nat
  OBVIOUS
<1>2. 1..(n + 1) = 1..n \cup {n + 1}
  BY <1>1
<1>3. \A i \in 1..n : (i + 1)..(n + 1) = (i + 1)..n \cup {n + 1} /\ (i + 1)..n \subseteq 1..n
  BY <1>1
<1>4. (\A i \in 1..(n + 1) : new[i].quantity # k) <=> (\A i \in 1..n : log[i].quantity # k)
  BY <1>1, <1>2
<1>5. \A i \in 1..n :
        (\A j \in (i + 1)..(n + 1) : new[j].quantity # k)
            <=> (\A j \in (i + 1)..n : log[j].quantity # k)
  BY <1>1, <1>3
<1> QED
  BY <1>1, <1>2, <1>4, <1>5 DEF StandsAt

(* A quantity stands at one amount.                                         *)
LEMMA StandsAtOnce ==
    ASSUME NEW log \in Seq(Movements), NEW n \in 0..Len(log), NEW k, NEW p, NEW q,
           StandsAt(log, n, k, p), StandsAt(log, n, k, q)
    PROVE  p = q
<1>1. CASE \A i \in 1..n : log[i].quantity # k
  BY <1>1 DEF StandsAt
<1>2. CASE \E i \in 1..n : log[i].quantity = k
  <2>1. PICK i \in 1..n :
          log[i].quantity = k /\ (\A j \in (i + 1)..n : log[j].quantity # k) /\ p = log[i].after
    BY <1>2 DEF StandsAt
  <2>2. PICK j \in 1..n :
          log[j].quantity = k /\ (\A h \in (j + 1)..n : log[h].quantity # k) /\ q = log[j].after
    BY <1>2 DEF StandsAt
  <2>3. ~(i < j) /\ ~(j < i)
    BY <2>1, <2>2
  <2> QED
    BY <2>1, <2>2, <2>3
<1> QED
  BY <1>1, <1>2

(***************************************************************************)
(* Accounts.                                                               *)
(***************************************************************************)

(* What every account satisfies.                                            *)
Sound(a) == a \in Accounts /\ Replays(a) /\ FitsThroughout(a) /\ Fits(a.qty)

(* The movement a change writes.                                            *)
MovementOf(a, k, n, b) == [quantity |-> k, before |-> a.qty[k], after |-> n, batch |-> b]

LEMMA ChangeFields ==
    ASSUME NEW a \in Accounts, NEW k \in Quantities, NEW n \in Amounts,
           NEW b \in Batches \cup {NoBatch}
    PROVE  /\ Change(a, k, n, b) \in Accounts
           /\ MovementOf(a, k, n, b) \in Movements
           /\ Change(a, k, n, b).log = Append(a.log, MovementOf(a, k, n, b))
           /\ Len(Change(a, k, n, b).log) = Len(a.log) + 1
           /\ Change(a, k, n, b).qty = [a.qty EXCEPT ![k] = n]
           /\ Change(a, k, n, b).config = a.config
           /\ Change(a, k, n, b).status = a.status
<1>1. a.qty[k] \in Amounts /\ a.log \in Seq(Movements) /\ a.qty \in [Quantities -> Amounts]
  BY DEF Accounts
<1>2. MovementOf(a, k, n, b) \in Movements
  BY <1>1 DEF MovementOf, Movements
<1>3. Append(a.log, MovementOf(a, k, n, b)) \in Seq(Movements)
  BY <1>1, <1>2
<1>4. [a.qty EXCEPT ![k] = n] \in [Quantities -> Amounts]
  BY <1>1
<1>5. /\ Change(a, k, n, b).log = Append(a.log, MovementOf(a, k, n, b))
      /\ Change(a, k, n, b).qty = [a.qty EXCEPT ![k] = n]
      /\ Change(a, k, n, b).config = a.config
      /\ Change(a, k, n, b).status = a.status
  BY DEF Change, MovementOf, Accounts
<1>6. Len(Append(a.log, MovementOf(a, k, n, b))) = Len(a.log) + 1
  BY <1>1
<1>7. Change(a, k, n, b) \in Accounts
  BY <1>3, <1>4 DEF Change, MovementOf, Accounts
<1> QED
  BY <1>2, <1>5, <1>6, <1>7

(* The ledger of a changed account replays.                                 *)
LEMMA ChangeReplays ==
    ASSUME NEW a \in Accounts, NEW k \in Quantities, NEW n \in Amounts,
           NEW b \in Batches \cup {NoBatch}, Replays(a)
    PROVE  Replays(Change(a, k, n, b))
<1> DEFINE c == Change(a, k, n, b)
           m == MovementOf(a, k, n, b)
           len == Len(a.log)
<1>1. /\ m \in Movements /\ m.quantity = k /\ m.after = n /\ m.before = a.qty[k]
      /\ c.log = Append(a.log, m) /\ Len(c.log) = len + 1
      /\ c.qty = [a.qty EXCEPT ![k] = n]
  BY ChangeFields DEF MovementOf
<1>2. a.log \in Seq(Movements) /\ len \in Nat /\ a.qty \in [Quantities -> Amounts]
  BY DEF Accounts
<1>3. ASSUME NEW h \in Quantities
      PROVE  StandsAt(c.log, Len(c.log), h, c.qty[h])
  <2>1. CASE h = k
    BY <1>1, <1>2, <2>1, StandsAtAfter
  <2>2. CASE h # k
    <3>1. StandsAt(a.log, len, h, a.qty[h]) /\ c.qty[h] = a.qty[h]
      BY <1>1, <1>2, <2>2 DEF Replays
    <3> QED
      BY <1>1, <1>2, <2>2, <3>1, StandsAtOther
  <2> QED
    BY <2>1, <2>2
<1>4. ASSUME NEW i \in 1..Len(c.log)
      PROVE  StandsAt(c.log, i - 1, c.log[i].quantity, c.log[i].before)
  <2>1. CASE i = len + 1
    <3>1. c.log[i] = m /\ i - 1 = len
      BY <1>1, <1>2, <2>1
    <3>2. StandsAt(a.log, len, k, a.qty[k])
      BY DEF Replays
    <3>3. StandsAt(Append(a.log, m), len, k, a.qty[k])
      BY <1>1, <1>2, <3>2, StandsAtBefore
    <3> QED
      BY <1>1, <3>1, <3>3
  <2>2. CASE i \in 1..len
    <3>1. c.log[i] = a.log[i] /\ i - 1 \in 0..len
      BY <1>1, <1>2, <2>2
    <3>2. StandsAt(a.log, i - 1, a.log[i].quantity, a.log[i].before)
      BY <2>2 DEF Replays
    <3>3. StandsAt(Append(a.log, m), i - 1, a.log[i].quantity, a.log[i].before)
      BY <1>1, <1>2, <3>1, <3>2, StandsAtBefore
    <3> QED
      BY <1>1, <3>1, <3>3
  <2> QED
    BY <1>1, <1>2, <2>1, <2>2
<1> QED
  BY <1>3, <1>4 DEF Replays

(* And it fits throughout when the new quantities fit.                      *)
LEMMA ChangeFits ==
    ASSUME NEW a \in Accounts, NEW k \in Quantities, NEW n \in Amounts,
           NEW b \in Batches \cup {NoBatch}, Replays(a), FitsThroughout(a),
           Fits([a.qty EXCEPT ![k] = n])
    PROVE  FitsThroughout(Change(a, k, n, b))
<1> DEFINE c == Change(a, k, n, b)
           m == MovementOf(a, k, n, b)
           len == Len(a.log)
<1>1. /\ m \in Movements /\ c \in Accounts
      /\ c.log = Append(a.log, m) /\ Len(c.log) = len + 1
      /\ c.qty = [a.qty EXCEPT ![k] = n]
  BY ChangeFields
<1>2. a.log \in Seq(Movements) /\ len \in Nat
  BY DEF Accounts
<1>3. c.log \in Seq(Movements)
  BY <1>1 DEF Accounts
<1>4. Replays(c)
  BY ChangeReplays
<1> SUFFICES ASSUME NEW i \in 0..Len(c.log), NEW stock \in Amounts, NEW locked \in Amounts,
                    StandsAt(c.log, i, "stock", stock), StandsAt(c.log, i, "locked", locked)
             PROVE  locked <= stock
  BY DEF FitsThroughout
<1>5. CASE i \in 0..len
  <2>1. StandsAt(a.log, i, "stock", stock) /\ StandsAt(a.log, i, "locked", locked)
    BY <1>1, <1>2, <1>5, StandsAtBefore
  <2> QED
    BY <1>5, <2>1 DEF FitsThroughout
<1>6. CASE i = len + 1
  <2>1. StandsAt(c.log, i, "stock", c.qty["stock"]) /\ StandsAt(c.log, i, "locked", c.qty["locked"])
    BY <1>1, <1>4, <1>6 DEF Replays, Quantities
  <2>2. stock = c.qty["stock"] /\ locked = c.qty["locked"]
    BY <1>3, <2>1, StandsAtOnce
  <2> QED
    BY <1>1, <2>2 DEF Fits
<1> QED
  BY <1>1, <1>2, <1>5, <1>6

(* A change of a sound account to quantities that fit is sound.             *)
LEMMA ChangeSound ==
    ASSUME NEW a, Sound(a), NEW k \in Quantities, NEW n \in Amounts,
           NEW b \in Batches \cup {NoBatch}, Fits([a.qty EXCEPT ![k] = n])
    PROVE  Sound(Change(a, k, n, b))
BY ChangeFields, ChangeReplays, ChangeFits DEF Sound

(* So is a move of an import.                                               *)
LEMMA MoveSound ==
    ASSUME NEW a, Sound(a), NEW k \in Quantities, NEW n \in Amounts,
           NEW b \in Batches \cup {NoBatch}, Fits([a.qty EXCEPT ![k] = n])
    PROVE  /\ Sound(Move(a, k, n, b))
           /\ Move(a, k, n, b).qty = [a.qty EXCEPT ![k] = n]
           /\ Move(a, k, n, b).status = a.status
<1>1. a \in Accounts /\ a.qty \in [Quantities -> Amounts]
  BY DEF Sound, Accounts
<1>2. CASE a.qty[k] = n
  BY <1>1, <1>2 DEF Move
<1>3. CASE a.qty[k] # n
  BY <1>1, <1>3, ChangeSound, ChangeFields DEF Move
<1> QED
  BY <1>2, <1>3

(* In the order of _import_sku_inventory both moves are sound, and they     *)
(* lead to the quantities of the row.                                       *)
LEMMA QuantitiesImportedSound ==
    ASSUME NEW a, Sound(a), NEW r \in ImportRows, Fits(r.qty), NEW b \in Batches
    PROVE  /\ Sound(QuantitiesImported(a, r, b))
           /\ QuantitiesImported(a, r, b).qty = r.qty
           /\ QuantitiesImported(a, r, b).status = a.status
<1>1. /\ a.qty \in [Quantities -> Amounts] /\ r.qty \in [Quantities -> Amounts]
      /\ "stock" \in Quantities /\ "locked" \in Quantities
      /\ \A k \in Quantities : k = "stock" \/ k = "locked"
      /\ b \in Batches \cup {NoBatch}
      /\ a.qty["locked"] \in Nat /\ a.qty["stock"] \in Nat
      /\ r.qty["locked"] \in Nat /\ r.qty["stock"] \in Nat
  BY BoundsAssumption DEF Sound, Accounts, ImportRows, Quantities, Amounts
<1>2. a.qty["locked"] <= a.qty["stock"] /\ r.qty["locked"] <= r.qty["stock"]
  BY DEF Sound, Fits
<1>3. r.qty = [[a.qty EXCEPT !["stock"] = r.qty["stock"]] EXCEPT !["locked"] = r.qty["locked"]]
  BY <1>1
<1>4. r.qty = [[a.qty EXCEPT !["locked"] = r.qty["locked"]] EXCEPT !["stock"] = r.qty["stock"]]
  BY <1>1
<1>5. CASE a.qty["locked"] > r.qty["stock"]
  <2> DEFINE first == Move(a, "locked", r.qty["locked"], b)
  <2>1. Fits([a.qty EXCEPT !["locked"] = r.qty["locked"]])
    BY <1>1, <1>2, <1>5 DEF Fits
  <2>2. /\ Sound(first) /\ first.qty = [a.qty EXCEPT !["locked"] = r.qty["locked"]]
        /\ first.status = a.status
    BY <1>1, <2>1, MoveSound
  <2>3. Fits([first.qty EXCEPT !["stock"] = r.qty["stock"]])
    BY <1>4, <2>2
  <2>4. /\ Sound(Move(first, "stock", r.qty["stock"], b))
        /\ Move(first, "stock", r.qty["stock"], b).qty = r.qty
        /\ Move(first, "stock", r.qty["stock"], b).status = a.status
    BY <1>1, <1>4, <2>2, <2>3, MoveSound
  <2> QED
    BY <1>5, <2>4 DEF QuantitiesImported
<1>6. CASE ~(a.qty["locked"] > r.qty["stock"])
  <2> DEFINE first == Move(a, "stock", r.qty["stock"], b)
  <2>1. Fits([a.qty EXCEPT !["stock"] = r.qty["stock"]])
    BY <1>1, <1>2, <1>6 DEF Fits
  <2>2. /\ Sound(first) /\ first.qty = [a.qty EXCEPT !["stock"] = r.qty["stock"]]
        /\ first.status = a.status
    BY <1>1, <2>1, MoveSound
  <2>3. Fits([first.qty EXCEPT !["locked"] = r.qty["locked"]])
    BY <1>3, <2>2
  <2>4. /\ Sound(Move(first, "locked", r.qty["locked"], b))
        /\ Move(first, "locked", r.qty["locked"], b).qty = r.qty
        /\ Move(first, "locked", r.qty["locked"], b).status = a.status
    BY <1>1, <1>3, <2>2, <2>3, MoveSound
  <2> QED
    BY <1>6, <2>4 DEF QuantitiesImported
<1> QED
  BY <1>5, <1>6

(* Status and configuration are no part of it.                              *)
LEMMA RelabelledSound ==
    ASSUME NEW a, Sound(a), NEW c \in Accounts, c.log = a.log, c.qty = a.qty
    PROVE  Sound(c)
BY DEF Sound, Replays, FitsThroughout

(* A new SKU starts with an empty ledger and no stock.                      *)
LEMMA NewAccountSound ==
    ASSUME NEW status \in SkuStatuses \cup {"absent"}
    PROVE  /\ Sound([NewAccount EXCEPT !.status = status])
           /\ [NewAccount EXCEPT !.status = status].status = status
<1> DEFINE a == [NewAccount EXCEPT !.status = status]
<1>1. /\ a.log = <<>> /\ a.qty = [k \in Quantities |-> 0]
      /\ a.config = NewConfig /\ a.status = status
  BY DEF NewAccount
<1>2. a \in Accounts
  <2>1. 0 \in Amounts
    BY BoundsAssumption DEF Amounts
  <2>2. [k \in Quantities |-> 0] \in [Quantities -> Amounts] /\ <<>> \in Seq(Movements)
    BY <2>1
  <2> QED
    BY <2>2, ConfigAssumption DEF NewAccount, Accounts
<1>3. Len(a.log) = 0 /\ 1..0 = {} /\ 0..0 = {0}
  BY <1>1
<1>4. \A k, q : StandsAt(a.log, 0, k, q) <=> q = 0
  BY <1>3 DEF StandsAt
<1>5. Replays(a)
  BY <1>1, <1>3, <1>4 DEF Replays
<1>6. FitsThroughout(a)
  BY <1>3, <1>4 DEF FitsThroughout
<1>7. Fits(a.qty)
  BY <1>1 DEF Fits, Quantities
<1> QED
  BY <1>1, <1>2, <1>5, <1>6, <1>7 DEF Sound

(***************************************************************************)
(* The inductive invariant.                                                *)
(***************************************************************************)
AllSound == \A s \in Skus : Sound(account[s])

RowsFit ==
    \A b \in Batches, s \in Skus :
        batch[b].rows[s] # NoRow => Fits(batch[b].rows[s].qty)

(* A SKU that does not exist has no stock, and no view shows it.            *)
AbsentIsEmpty ==
    \A s \in Skus : account[s].status = "absent" =>
        /\ account[s].qty = NewAccount.qty
        /\ \A u \in Users : view[u] # NoView => view[u].sku[s] = "absent"

IInv == TypeOK /\ AllSound /\ RowsFit /\ AbsentIsEmpty /\ CurrentVersionShowsQuantities

(* The initial state is typed and has nothing in it.                        *)
LEMMA InitIInv == Init => IInv
<1> SUFFICES ASSUME Init PROVE IInv
  OBVIOUS
<1>1. \A s \in Skus : account[s] = [NewAccount EXCEPT !.status = "absent"]
  BY DEF Init, NewAccount
<1>2. \A s \in Skus : Sound(account[s])
  BY <1>1, NewAccountSound
<1>3. \A s \in Skus : account[s] \in Accounts
  BY <1>2 DEF Sound
<1>4. TypeOK
  BY <1>3 DEF Init, TypeOK, ProductStatuses, StoreStatuses
<1>5. AbsentIsEmpty
  BY DEF Init, AbsentIsEmpty
<1> QED
  BY <1>2, <1>4, <1>5 DEF Init, IInv, AllSound, RowsFit, CurrentVersionShowsQuantities

(***************************************************************************)
(* Steps.                                                                  *)
(***************************************************************************)

(* What the writing request of a user leaves: sound accounts, and versions  *)
(* outdated wherever a quantity changed.                                    *)
SafeWrite ==
    /\ account' \in [Skus -> Accounts]
    /\ \A s \in Skus : Sound(account'[s])
    /\ \A s \in Skus : account'[s].status = "absent" =>
        account[s].status = "absent" /\ account'[s].qty = account[s].qty
    /\ product' \in ProductStatuses
    /\ store' \in StoreStatuses
    /\ held' \in [Users -> [Skus -> [qty: [Quantities -> Amounts], config: Configs]
                                    \cup {NoVersion}]]
    /\ \A v \in Users, s \in Skus :
        held'[v][s] # NoVersion => held'[v][s] = held[v][s] /\ account'[s].qty = account[s].qty

(* Outdating a set of SKUs keeps the other versions.                        *)
LEMMA OutdateKeeps ==
    ASSUME TypeOK, NEW ss, Outdate(ss)
    PROVE  /\ held' \in [Users -> [Skus -> [qty: [Quantities -> Amounts], config: Configs]
                                           \cup {NoVersion}]]
           /\ \A v \in Users, s \in Skus :
                held'[v][s] # NoVersion => s \notin ss /\ held'[v][s] = held[v][s]
BY DEF TypeOK, Outdate

(* A status assigned in a request is one of the statuses.                   *)
LEMMA AssignedTyped ==
    ASSUME NEW S, NEW seen, NEW value \in S, NEW current \in S
    PROVE  Assigned(seen, value, current) \in S
BY DEF Assigned

(* Changing the status of a SKU keeps its account sound.                    *)
LEMMA StatusSound ==
    ASSUME NEW a, Sound(a), NEW status \in SkuStatuses \cup {"absent"}
    PROVE  Sound([a EXCEPT !.status = status]) /\ [a EXCEPT !.status = status].qty = a.qty
<1> DEFINE c == [a EXCEPT !.status = status]
<1>1. a \in Accounts
  BY DEF Sound
<1>2. c \in Accounts /\ c.log = a.log /\ c.qty = a.qty
  BY <1>1 DEF Accounts
<1> QED
  BY <1>2, RelabelledSound

(* Changing its configuration does.                                         *)
LEMMA ConfigSound ==
    ASSUME NEW a, Sound(a), NEW config \in Configs
    PROVE  Sound([a EXCEPT !.config = config]) /\ [a EXCEPT !.config = config].qty = a.qty
<1> DEFINE c == [a EXCEPT !.config = config]
<1>1. a \in Accounts
  BY DEF Sound
<1>2. c \in Accounts /\ c.log = a.log /\ c.qty = a.qty
  BY <1>1 DEF Accounts
<1> QED
  BY <1>2, RelabelledSound

LEMMA ChangeProductStatusSafe ==
    ASSUME IInv, NEW u \in Users, NEW status \in {"active", "inactive"},
           ChangeProductStatus(u, status)
    PROVE  SafeWrite /\ UNCHANGED batch
<1>1. product' \in ProductStatuses
  BY AssignedTyped DEF IInv, TypeOK, ChangeProductStatus, ProductStatuses
<1> QED
  BY <1>1 DEF IInv, TypeOK, AllSound, ChangeProductStatus, SafeWrite

LEMMA UpdateStoreSafe ==
    ASSUME IInv, NEW u \in Users, NEW status \in StoreStatuses, UpdateStore(u, status)
    PROVE  SafeWrite /\ UNCHANGED batch
<1>1. store' \in StoreStatuses
  BY AssignedTyped DEF IInv, TypeOK, UpdateStore
<1> QED
  BY <1>1 DEF IInv, TypeOK, AllSound, UpdateStore, SafeWrite

(* One account is replaced by a sound one, with its quantities, or after    *)
(* its versions are outdated.                                               *)
LEMMA OneAccountSafe ==
    ASSUME IInv, NEW t \in Skus, NEW c, Sound(c), c.status # "absent", account' = [account EXCEPT ![t] = c],
           UNCHANGED <<product, store>>,
           \/ Outdate({t})
           \/ UNCHANGED held /\ (c.qty = account[t].qty \/ \A v \in Users : held[v][t] = NoVersion)
    PROVE  SafeWrite
<1>1. c \in Accounts
  BY DEF Sound
<1>2. /\ account' \in [Skus -> Accounts] /\ \A s \in Skus : Sound(account'[s])
      /\ \A s \in Skus : account'[s].status = "absent" =>
            account[s].status = "absent" /\ account'[s].qty = account[s].qty
  BY <1>1 DEF IInv, TypeOK, AllSound
<1>3. /\ held' \in [Users -> [Skus -> [qty: [Quantities -> Amounts], config: Configs]
                                       \cup {NoVersion}]]
      /\ \A v \in Users, s \in Skus :
            held'[v][s] # NoVersion => held'[v][s] = held[v][s] /\ account'[s].qty = account[s].qty
  <2>1. CASE Outdate({t})
    BY <2>1, OutdateKeeps DEF IInv, TypeOK
  <2>2. CASE UNCHANGED held /\ (c.qty = account[t].qty \/ \A v \in Users : held[v][t] = NoVersion)
    BY <2>2 DEF IInv, TypeOK
  <2> QED
    BY <2>1, <2>2
<1> QED
  BY <1>2, <1>3 DEF SafeWrite, IInv, TypeOK
LEMMA CreateSkuSafe ==
    ASSUME IInv, NEW u \in Users, NEW s \in Skus, NEW status \in SkuStatuses,
           CreateSku(u, s, status)
    PROVE  SafeWrite /\ UNCHANGED batch
<1> DEFINE c == [NewAccount EXCEPT !.status = status]
<1>1. Sound(c) /\ c.status # "absent"
  BY NewAccountSound DEF SkuStatuses
<1>2. c.qty = account[s].qty
  BY DEF CreateSku, IInv, AbsentIsEmpty, NewAccount
<1>3. account' = [account EXCEPT ![s] = c] /\ UNCHANGED <<product, store, batch, held>>
  BY DEF CreateSku
<1> HIDE DEF c
<1> QED
  BY <1>1, <1>2, <1>3, OneAccountSafe

(* A SKU that a view shows exists.                                          *)
LEMMA SeenExists ==
    ASSUME IInv, NEW u \in Users, view[u] # NoView, NEW s \in Skus, view[u].sku[s] # "absent"
    PROVE  account[s].status \in SkuStatuses /\ account[s].status # "absent"
BY DEF IInv, AbsentIsEmpty, TypeOK, Accounts

LEMMA ChangeSkuStatusSafe ==
    ASSUME IInv, NEW u \in Users, view[u] # NoView, NEW s \in Skus,
           NEW status \in SkuStatuses, ChangeSkuStatus(u, s, status)
    PROVE  SafeWrite /\ UNCHANGED batch
<1> DEFINE new == Assigned(view[u].sku[s], status, account[s].status)
           c == [account[s] EXCEPT !.status = new]
<1>1. account[s].status \in SkuStatuses
  BY SeenExists DEF ChangeSkuStatus
<1>2. new \in SkuStatuses
  BY <1>1, AssignedTyped
<1>3. Sound(account[s]) /\ account[s] \in Accounts
  BY DEF IInv, AllSound, Sound
<1>4. Sound(c) /\ c.qty = account[s].qty
  BY <1>2, <1>3, StatusSound
<1>5. c.status # "absent"
  BY <1>2, <1>3 DEF Accounts, SkuStatuses
<1>6. account' = [account EXCEPT ![s] = c] /\ UNCHANGED <<product, store, batch, held>>
  BY DEF ChangeSkuStatus
<1> HIDE DEF c
<1> QED
  BY <1>4, <1>5, <1>6, OneAccountSafe

LEMMA AdjustInventorySafe ==
    ASSUME IInv, NEW u \in Users, view[u] # NoView, NEW s \in Skus, NEW k \in Quantities,
           NEW n \in Amounts, AdjustInventory(u, s, k, n)
    PROVE  SafeWrite /\ UNCHANGED batch
<1> DEFINE c == Change(account[s], k, n, NoBatch)
<1>1. Sound(account[s]) /\ account[s] \in Accounts
  BY DEF IInv, AllSound, Sound
<1>2. Sound(c)
  BY <1>1, ChangeSound DEF AdjustInventory
<1>3. account[s].status # "absent"
  BY SeenExists DEF AdjustInventory
<1>4. c.status # "absent"
  <2>1. Change(account[s], k, n, NoBatch).status = account[s].status
    BY <1>1 DEF Change, Accounts
  <2> QED
    BY <1>3, <2>1
<1>5. /\ account' = [account EXCEPT ![s] = c] /\ Outdate({s})
      /\ UNCHANGED <<product, store, batch>>
  BY DEF AdjustInventory
<1> HIDE DEF c
<1> QED
  BY <1>2, <1>4, <1>5, OneAccountSafe

LEMMA UpdateInventoryConfigSafe ==
    ASSUME IInv, NEW u \in Users, view[u] # NoView, NEW s \in Skus, NEW config \in Configs,
           UpdateInventoryConfig(u, s, config)
    PROVE  SafeWrite /\ UNCHANGED batch
<1> DEFINE c == [account[s] EXCEPT !.config = config]
<1>1. Sound(account[s]) /\ account[s] \in Accounts
  BY DEF IInv, AllSound, Sound
<1>2. Sound(c)
  BY <1>1, ConfigSound
<1>3. account[s].status # "absent"
  BY SeenExists DEF UpdateInventoryConfig
<1>4. c.status # "absent"
  BY <1>1, <1>3 DEF Accounts
<1>5. /\ account' = [account EXCEPT ![s] = c] /\ Outdate({s})
      /\ UNCHANGED <<product, store, batch>>
  BY DEF UpdateInventoryConfig
<1> HIDE DEF c
<1> QED
  BY <1>2, <1>4, <1>5, OneAccountSafe

(* A row that succeeds leaves its account sound.                            *)
LEMMA ImportedSound ==
    ASSUME IInv, NEW u \in Users, view[u] # NoView, NEW s \in Skus, NEW b \in Batches,
           NEW r \in ImportRows, Fits(r.qty)
    PROVE  /\ Sound(Imported(view[u], s, r, b))
           /\ Imported(view[u], s, r, b).status # "absent"
<1> DEFINE q == QuantitiesImported(account[s], r, b)
           new == Assigned(view[u].sku[s], r.status, q.status)
           t == [q EXCEPT !.status = new]
<1>1. Sound(account[s]) /\ account[s] \in Accounts
  BY DEF IInv, AllSound, Sound
<1>2. Sound(q) /\ q \in Accounts
  BY <1>1, QuantitiesImportedSound DEF Sound
<1>3. q.status = account[s].status
  BY <1>1, QuantitiesImportedSound
<1>4. new \in SkuStatuses
  <2>1. r.status \in SkuStatuses
    BY DEF ImportRows
  <2>2. CASE r.status = view[u].sku[s]
    <3>1. view[u].sku[s] # "absent"
      BY <2>1, <2>2 DEF SkuStatuses
    <3> QED
      BY <1>3, <2>2, <3>1, SeenExists DEF Assigned
  <2>3. CASE r.status # view[u].sku[s]
    BY <2>1, <2>3 DEF Assigned
  <2> QED
    BY <2>2, <2>3
<1>5. Sound(t)
  BY <1>2, <1>4, StatusSound
<1>6. t \in Accounts /\ t.status = new
  BY <1>2, <1>5 DEF Sound, Accounts
<1>7. r.config \in Configs
  BY DEF ImportRows
<1>8. Sound([t EXCEPT !.config = r.config])
  BY <1>5, <1>7, ConfigSound
<1>9. [t EXCEPT !.config = r.config].status = new
  BY <1>6 DEF Accounts
<1>10. Imported(view[u], s, r, b) = [t EXCEPT !.config = r.config]
  BY DEF Imported
<1> HIDE DEF t, q, new
<1> QED
  BY <1>4, <1>8, <1>9, <1>10 DEF SkuStatuses

LEMMA ConfirmBatchSafe ==
    ASSUME IInv, NEW u \in Users, view[u] # NoView, NEW b \in Batches, ConfirmBatch(u, b)
    PROVE  /\ SafeWrite
           /\ batch' = [batch EXCEPT ![b].state = "completed"]
<1> DEFINE after == AfterImport(view[u], b)
           moved == {s \in Skus : after[s].qty # account[s].qty}
<1>1. /\ account' = after /\ Outdate(moved) /\ UNCHANGED <<product, store>>
      /\ batch' = [batch EXCEPT ![b].state = "completed"]
  BY DEF ConfirmBatch
<1>2. ASSUME NEW s \in Skus
      PROVE  /\ Sound(after[s])
             /\ after[s].status = "absent" => after[s] = account[s]
  <2> DEFINE r == batch[b].rows[s]
  <2>1. Sound(account[s])
    BY DEF IInv, AllSound
  <2>2. CASE r # NoRow /\ RowSucceeds(view[u], s, r)
    <3>1. r \in ImportRows /\ Fits(r.qty)
      BY <2>2 DEF IInv, TypeOK, RowsFit
    <3>2. after[s] = Imported(view[u], s, r, b)
      BY <2>2 DEF AfterImport
    <3> HIDE DEF r, after
    <3> QED
      BY <3>1, <3>2, ImportedSound
  <2>3. CASE ~(r # NoRow /\ RowSucceeds(view[u], s, r))
    BY <2>1, <2>3 DEF AfterImport
  <2> QED
    BY <2>2, <2>3
<1>3. after = [s \in Skus |-> after[s]]
  BY DEF AfterImport
<1> HIDE DEF after
<1>4. account' \in [Skus -> Accounts] /\ \A s \in Skus : Sound(account'[s])
  BY <1>1, <1>2, <1>3 DEF Sound
<1>5. \A v \in Users, s \in Skus :
        held'[v][s] # NoVersion => held'[v][s] = held[v][s] /\ account'[s].qty = account[s].qty
  BY <1>1, OutdateKeeps DEF IInv
<1>6. held' \in [Users -> [Skus -> [qty: [Quantities -> Amounts], config: Configs]
                                  \cup {NoVersion}]]
  BY <1>1, OutdateKeeps DEF IInv
<1> QED
  BY <1>1, <1>2, <1>4, <1>5, <1>6 DEF SafeWrite, IInv, TypeOK

(* A write of any kind is safe, and of the batches it changes at most the   *)
(* state of one.                                                            *)
LEMMA WriteSafe ==
    ASSUME IInv, NEW u \in Users, Commit(u), Write(u)
    PROVE  /\ SafeWrite
           /\ \/ UNCHANGED batch
              \/ \E b \in Batches : batch' = [batch EXCEPT ![b].state = "completed"]
<1>1. view[u] # NoView
  BY DEF Commit
<1>2. CASE \E status \in {"active", "inactive"} : ChangeProductStatus(u, status)
  BY <1>2, ChangeProductStatusSafe
<1>3. CASE \E status \in StoreStatuses : UpdateStore(u, status)
  BY <1>3, UpdateStoreSafe
<1>4. CASE \E s \in Skus, status \in SkuStatuses : CreateSku(u, s, status)
  BY <1>4, CreateSkuSafe
<1>5. CASE \E s \in Skus, status \in SkuStatuses : ChangeSkuStatus(u, s, status)
  BY <1>1, <1>5, ChangeSkuStatusSafe
<1>6. CASE \E s \in Skus, k \in Quantities, n \in Amounts : AdjustInventory(u, s, k, n)
  BY <1>1, <1>6, AdjustInventorySafe
<1>7. CASE \E s \in Skus, config \in Configs : UpdateInventoryConfig(u, s, config)
  BY <1>1, <1>7, UpdateInventoryConfigSafe
<1>8. CASE \E b \in Batches : ConfirmBatch(u, b)
  BY <1>1, <1>8, ConfirmBatchSafe
<1> QED
  BY <1>2, <1>3, <1>4, <1>5, <1>6, <1>7, <1>8 DEF Write
(* After a safe write the invariant holds again; the request is over.       *)
LEMMA WriteKeepsIInv ==
    ASSUME IInv, NEW u \in Users, Commit(u), Write(u)
    PROVE  IInv'
<1>1. /\ SafeWrite
      /\ \/ UNCHANGED batch
         \/ \E b \in Batches : batch' = [batch EXCEPT ![b].state = "completed"]
  BY WriteSafe
<1>2. view' = [view EXCEPT ![u] = NoView]
  BY DEF Commit
<1>3. /\ batch' \in [Batches -> [state: {"absent", "validated", "completed"},
                                rows: [Skus -> ImportRows \cup {NoRow}]]]
      /\ \A b \in Batches : batch'[b].rows = batch[b].rows
  <2> DEFINE S == {"absent", "validated", "completed"}
             R == [Skus -> ImportRows \cup {NoRow}]
  <2>1. batch \in [Batches -> [state: S, rows: R]]
    BY DEF IInv, TypeOK
  <2>2. CASE batch' = batch
    <3>1. batch' \in [Batches -> [state: S, rows: R]]
      BY <2>1, <2>2
    <3>2. \A c \in Batches : batch'[c].rows = batch[c].rows
      BY <2>2
    <3> QED
      BY <3>1, <3>2
  <2>3. ASSUME NEW b \in Batches, batch' = [batch EXCEPT ![b].state = "completed"]
        PROVE  /\ batch' \in [Batches -> [state: S, rows: R]]
               /\ \A c \in Batches : batch'[c].rows = batch[c].rows
    <3>1. batch[b] \in [state: S, rows: R]
      BY <2>1
    <3>2. /\ [batch[b] EXCEPT !.state = "completed"] \in [state: S, rows: R]
          /\ [batch[b] EXCEPT !.state = "completed"].rows = batch[b].rows
      BY <3>1
    <3> QED
      BY <2>1, <2>3, <3>2
  <2> QED
    BY <1>1, <2>2, <2>3
<1>4. TypeOK'
  BY <1>1, <1>2, <1>3 DEF IInv, TypeOK, SafeWrite
<1>5. AllSound'
  BY <1>1 DEF SafeWrite, AllSound
<1>6. RowsFit'
  BY <1>3 DEF IInv, RowsFit
<1>7. AbsentIsEmpty'
  <2> SUFFICES ASSUME NEW s \in Skus, account'[s].status = "absent"
               PROVE  /\ account'[s].qty = NewAccount.qty
                      /\ \A v \in Users : view'[v] # NoView => view'[v].sku[s] = "absent"
    BY DEF AbsentIsEmpty, NewAccount
  <2>1. account[s].status = "absent" /\ account'[s].qty = account[s].qty
    BY <1>1 DEF SafeWrite
  <2> QED
    BY <1>2, <2>1 DEF IInv, AbsentIsEmpty, TypeOK
<1>8. CurrentVersionShowsQuantities'
  BY <1>1 DEF IInv, CurrentVersionShowsQuantities, SafeWrite
<1> QED
  BY <1>4, <1>5, <1>6, <1>7, <1>8 DEF IInv

(* A request begins: its view shows the SKUs there are.                     *)
LEMMA BeginKeepsIInv ==
    ASSUME IInv, NEW u \in Users, Begin(u)
    PROVE  IInv'
<1> DEFINE new == [sku |-> [s \in Skus |-> account[s].status], product |-> product,
                   store |-> store, uploaded |-> {b \in Batches : batch[b].state # "absent"}]
<1>1. view' = [view EXCEPT ![u] = new] /\ UNCHANGED <<account, product, store, batch, held>>
  BY DEF Begin
<1>2. \A s \in Skus : account[s].status \in SkuStatuses \cup {"absent"}
  BY DEF IInv, TypeOK, Accounts
<1>3. new \in Views
  BY <1>2 DEF Views, IInv, TypeOK
<1>4. TypeOK'
  BY <1>1, <1>3 DEF IInv, TypeOK
<1>5. \A s \in Skus : new.sku[s] = account[s].status
  OBVIOUS
<1> HIDE DEF new
<1>6. AbsentIsEmpty'
  BY <1>1, <1>5 DEF IInv, AbsentIsEmpty, TypeOK, NewAccount
<1> QED
  BY <1>1, <1>4, <1>6 DEF IInv, AllSound, RowsFit, CurrentVersionShowsQuantities

LEMMA RefuseKeepsIInv ==
    ASSUME IInv, NEW u \in Users, Refuse(u)
    PROVE  IInv'
BY DEF Refuse, IInv, TypeOK, AllSound, RowsFit, AbsentIsEmpty, NewAccount,
       CurrentVersionShowsQuantities

LEMMA ReadKeepsIInv ==
    ASSUME IInv, NEW u \in Users, NEW s \in Skus, Read(u, s)
    PROVE  IInv'
<1>1. held' = [held EXCEPT ![u][s] = Shown(account[s])]
      /\ UNCHANGED <<account, product, store, batch, view>>
  BY DEF Read
<1>2. /\ Shown(account[s]) \in [qty: [Quantities -> Amounts], config: Configs]
      /\ Shown(account[s]).qty = account[s].qty
  BY DEF Shown, IInv, TypeOK, Accounts
<1>3. TypeOK'
  BY <1>1, <1>2 DEF IInv, TypeOK
<1>4. CurrentVersionShowsQuantities'
  BY <1>1, <1>2 DEF IInv, TypeOK, CurrentVersionShowsQuantities
<1> QED
  BY <1>1, <1>3, <1>4 DEF IInv, AllSound, RowsFit, AbsentIsEmpty, NewAccount

LEMMA UploadKeepsIInv ==
    ASSUME IInv, NEW b \in Batches, NEW rows \in [Skus -> ImportRows \cup {NoRow}],
           Upload(b, rows)
    PROVE  IInv'
<1>1. /\ batch' = [batch EXCEPT ![b] = [state |-> "validated", rows |-> rows]]
      /\ UNCHANGED <<account, product, store, view, held>>
      /\ \A s \in Skus : rows[s] # NoRow => Fits(rows[s].qty)
  BY DEF Upload, ValidRow
<1>2. TypeOK'
  BY <1>1 DEF IInv, TypeOK
<1>3. RowsFit'
  BY <1>1 DEF IInv, RowsFit, TypeOK
<1> QED
  BY <1>1, <1>2, <1>3 DEF IInv, AllSound, AbsentIsEmpty, NewAccount,
                          CurrentVersionShowsQuantities

LEMMA NextIInv == IInv /\ [Next]_vars => IInv'
<1> SUFFICES ASSUME IInv, [Next]_vars PROVE IInv'
  OBVIOUS
<1>1. CASE \E u \in Users : Begin(u)
  BY <1>1, BeginKeepsIInv
<1>2. CASE \E u \in Users : Refuse(u)
  BY <1>2, RefuseKeepsIInv
<1>3. CASE \E u \in Users : Commit(u) /\ Write(u)
  BY <1>3, WriteKeepsIInv
<1>4. CASE \E u \in Users, s \in Skus : Read(u, s)
  BY <1>4, ReadKeepsIInv
<1>5. CASE \E b \in Batches, rows \in [Skus -> ImportRows \cup {NoRow}] : Upload(b, rows)
  BY <1>5, UploadKeepsIInv
<1>6. CASE UNCHANGED vars
  BY <1>6 DEF vars, IInv, TypeOK, AllSound, RowsFit, AbsentIsEmpty, NewAccount,
              CurrentVersionShowsQuantities
<1> QED
  BY <1>1, <1>2, <1>3, <1>4, <1>5, <1>6 DEF Next

(* The inductive invariant holds in every reachable state.                  *)
THEOREM Invariance == Spec => []IInv
BY InitIInv, NextIInv, PTL DEF Spec

(* Every variable keeps its type.                                           *)
THEOREM TypeCorrect == Spec => []TypeOK
<1>1. IInv => TypeOK
  BY DEF IInv
<1> QED
  BY <1>1, Invariance, PTL

(* Whatever adjustments and imports follow each other, the ledger of a SKU  *)
(* explains its quantities.                                                 *)
THEOREM LedgersReplay == Spec => []LedgerReplays
<1>1. IInv => LedgerReplays
  BY DEF IInv, AllSound, Sound, LedgerReplays
<1> QED
  BY <1>1, Invariance, PTL

(* No prefix of a ledger has more locked than in stock.                     *)
THEOREM LedgersFit == Spec => []ReplayFits
<1>1. IInv => ReplayFits
  BY DEF IInv, AllSound, Sound, ReplayFits
<1> QED
  BY <1>1, Invariance, PTL

(* A user with the current version_no knows the current quantities.         *)
THEOREM VersionsCurrent == Spec => []CurrentVersionShowsQuantities
<1>1. IInv => CurrentVersionShowsQuantities
  BY DEF IInv
<1> QED
  BY <1>1, Invariance, PTL

(***************************************************************************)
(* Steps of the ledger: what each write adds to it.                        *)
(***************************************************************************)

(* From a to c the log only grew, by movements of batch b.                  *)
AddsOnly(a, c, b) ==
    /\ Len(a.log) <= Len(c.log)
    /\ \A i \in (Len(a.log) + 1)..Len(c.log) : c.log[i].batch = b

(* What ChangeFields says of the log.                                       *)
LEMMA ChangeLog ==
    ASSUME NEW a \in Accounts, NEW k \in Quantities, NEW n \in Amounts,
           NEW b \in Batches \cup {NoBatch}
    PROVE  /\ Change(a, k, n, b) \in Accounts
           /\ MovementOf(a, k, n, b) \in Movements
           /\ MovementOf(a, k, n, b).batch = b
           /\ Change(a, k, n, b).log = Append(a.log, MovementOf(a, k, n, b))
           /\ Change(a, k, n, b).config = a.config
<1>1. Change(a, k, n, b) \in Accounts /\ MovementOf(a, k, n, b) \in Movements
  BY ChangeFields
<1>2. /\ Change(a, k, n, b).log = Append(a.log, MovementOf(a, k, n, b))
      /\ Change(a, k, n, b).config = a.config
      /\ MovementOf(a, k, n, b).batch = b
  BY DEF Change, MovementOf, Accounts
<1> QED
  BY <1>1, <1>2

(* A change adds one movement, of its batch.                                *)
LEMMA ChangeAdds ==
    ASSUME NEW a \in Accounts, NEW k \in Quantities, NEW n \in Amounts,
           NEW b \in Batches \cup {NoBatch}
    PROVE  AddsOnly(a, Change(a, k, n, b), b)
<1> DEFINE c == Change(a, k, n, b)
           m == MovementOf(a, k, n, b)
<1> HIDE DEF c, m
<1>1. c.log = Append(a.log, m) /\ m \in Movements /\ m.batch = b
  BY ChangeLog DEF c, m
<1>2. a.log \in Seq(Movements) /\ Len(a.log) \in Nat /\ Len(c.log) = Len(a.log) + 1
  BY <1>1 DEF Accounts
<1>3. \A i \in (Len(a.log) + 1)..Len(c.log) : i = Len(a.log) + 1
  BY <1>1, <1>2
<1>4. c.log[Len(a.log) + 1] = m
  BY <1>1, <1>2
<1> QED
  BY <1>1, <1>2, <1>3, <1>4 DEF AddsOnly, c

(* A move of an import adds one or none.                                    *)
LEMMA MoveAdds ==
    ASSUME NEW a \in Accounts, NEW k \in Quantities, NEW n \in Amounts,
           NEW b \in Batches \cup {NoBatch}
    PROVE  /\ AddsOnly(a, Move(a, k, n, b), b)
           /\ Move(a, k, n, b) \in Accounts
           /\ Move(a, k, n, b).config = a.config
           /\ \A i \in 1..Len(a.log) : Move(a, k, n, b).log[i] = a.log[i]
<1>1. a.log \in Seq(Movements) /\ Len(a.log) \in Nat
  BY DEF Accounts
<1>2. CASE a.qty[k] = n
  BY <1>1, <1>2 DEF Move, AddsOnly
<1>3. CASE a.qty[k] # n
  <2>1. Move(a, k, n, b) = Change(a, k, n, b)
    BY <1>3 DEF Move
  <2>2. /\ Change(a, k, n, b).log = Append(a.log, MovementOf(a, k, n, b))
        /\ MovementOf(a, k, n, b) \in Movements
        /\ Change(a, k, n, b) \in Accounts /\ Change(a, k, n, b).config = a.config
    BY ChangeLog
  <2>3. \A i \in 1..Len(a.log) : Change(a, k, n, b).log[i] = a.log[i]
    BY <1>1, <2>2
  <2>4. AddsOnly(a, Change(a, k, n, b), b)
    BY ChangeAdds
  <2> QED
    BY <2>1, <2>2, <2>3, <2>4
<1> QED
  BY <1>2, <1>3

(* So do two moves one after the other.                                     *)
LEMMA MovesAdd ==
    ASSUME NEW a \in Accounts, NEW k \in Quantities, NEW n \in Amounts,
           NEW h \in Quantities, NEW l \in Amounts, NEW b \in Batches \cup {NoBatch}
    PROVE  /\ AddsOnly(a, Move(Move(a, k, n, b), h, l, b), b)
           /\ Move(Move(a, k, n, b), h, l, b) \in Accounts
<1> DEFINE f == Move(a, k, n, b)
           c == Move(f, h, l, b)
<1>1. AddsOnly(a, f, b) /\ f \in Accounts
  BY MoveAdds
<1>2. AddsOnly(f, c, b) /\ c \in Accounts /\ \A i \in 1..Len(f.log) : c.log[i] = f.log[i]
  BY <1>1, MoveAdds
<1>3. Len(a.log) \in Nat /\ Len(f.log) \in Nat /\ Len(c.log) \in Nat
  BY <1>1, <1>2 DEF Accounts
<1> HIDE DEF f, c
<1>4. ASSUME NEW i \in (Len(a.log) + 1)..Len(c.log)
      PROVE  c.log[i].batch = b
  <2>1. CASE i <= Len(f.log)
    BY <1>1, <1>2, <1>3, <2>1 DEF AddsOnly
  <2>2. CASE ~(i <= Len(f.log))
    BY <1>2, <1>3, <2>2 DEF AddsOnly
  <2> QED
    BY <2>1, <2>2
<1>5. AddsOnly(a, c, b)
  BY <1>1, <1>2, <1>3, <1>4 DEF AddsOnly
<1> QED
  BY <1>2, <1>5 DEF f, c

(* A row that succeeds books its batch and leaves the SKU as it says.       *)
LEMMA ImportedAsRow ==
    ASSUME IInv, NEW u \in Users, view[u] # NoView, NEW s \in Skus, NEW b \in Batches,
           NEW r \in ImportRows, Fits(r.qty)
    PROVE  /\ AddsOnly(account[s], Imported(view[u], s, r, b), b)
           /\ Imported(view[u], s, r, b).qty = r.qty
           /\ Imported(view[u], s, r, b).config = r.config
<1> DEFINE a == account[s]
           q == QuantitiesImported(a, r, b)
<1>1. Sound(a) /\ a \in Accounts
  BY DEF IInv, AllSound, Sound
<1>2. q.qty = r.qty
  BY <1>1, QuantitiesImportedSound
<1>3. /\ r.qty["stock"] \in Amounts /\ r.qty["locked"] \in Amounts
      /\ "stock" \in Quantities /\ "locked" \in Quantities
      /\ b \in Batches \cup {NoBatch}
  BY DEF ImportRows, Quantities
<1>4. AddsOnly(a, q, b) /\ q \in Accounts
  <2>1. CASE a.qty["locked"] > r.qty["stock"]
    BY <1>1, <1>3, <2>1, MovesAdd DEF QuantitiesImported
  <2>2. CASE ~(a.qty["locked"] > r.qty["stock"])
    BY <1>1, <1>3, <2>2, MovesAdd DEF QuantitiesImported
  <2> QED
    BY <2>1, <2>2
<1> HIDE DEF q, a
<1>5. /\ Imported(view[u], s, r, b).log = q.log
      /\ Imported(view[u], s, r, b).qty = q.qty
      /\ Imported(view[u], s, r, b).config = r.config
  BY <1>4 DEF Imported, Accounts, q, a
<1> QED
  BY <1>2, <1>4, <1>5 DEF AddsOnly, a

(* What a step books: nothing, one adjustment by a user who knew what it    *)
(* started from, or one batch, row by row.                                  *)
NothingBooked == \A s \in Skus : Len(account'[s].log) <= Len(account[s].log)

SomeoneKnows(s) == \E u \in Users : held[u][s] # NoVersion /\ held[u][s].qty = account[s].qty

Adjusted(s) ==
    /\ SomeoneKnows(s)
    /\ AddsOnly(account[s], account'[s], NoBatch)
    /\ \A t \in Skus \ {s} : account'[t] = account[t]

NoBatchConfirmed ==
    \A b \in Batches : ~(batch[b].state = "validated" /\ batch'[b].state = "completed")

RowWhole(s, r) ==
    \/ account'[s] = account[s]
    \/ /\ r # NoRow
       /\ account'[s].status # "absent"
       /\ account'[s].qty = r.qty
       /\ account'[s].config = r.config

Confirmed(b) ==
    /\ batch[b].state = "validated" /\ batch'[b].state = "completed"
    /\ \A c \in Batches \ {b} : batch'[c] = batch[c]
    /\ \A s \in Skus : /\ account'[s] = account[s] \/ AddsOnly(account[s], account'[s], b)
                       /\ RowWhole(s, batch[b].rows[s])

LedgerStep ==
    \/ NoBatchConfirmed /\ (NothingBooked \/ \E s \in Skus : Adjusted(s))
    \/ \E b \in Batches : Confirmed(b)

(* confirm_batch books its batch and no other.                              *)
LEMMA ConfirmBatchBooks ==
    ASSUME IInv, NEW u \in Users, view[u] # NoView, NEW b \in Batches, ConfirmBatch(u, b)
    PROVE  Confirmed(b)
<1> DEFINE after == AfterImport(view[u], b)
<1>1. /\ account' = after /\ batch[b].state = "validated"
      /\ batch' = [batch EXCEPT ![b].state = "completed"]
  BY DEF ConfirmBatch, Confirmable
<1>2. /\ batch'[b].state = "completed"
      /\ \A c \in Batches \ {b} : batch'[c] = batch[c]
  <2>1. batch \in [Batches -> [state: {"absent", "validated", "completed"},
                               rows: [Skus -> ImportRows \cup {NoRow}]]]
    BY DEF IInv, TypeOK
  <2> QED
    BY <1>1, <2>1
<1>3. ASSUME NEW s \in Skus
      PROVE  /\ after[s] = account[s] \/ AddsOnly(account[s], after[s], b)
             /\ \/ after[s] = account[s]
                \/ /\ batch[b].rows[s] # NoRow
                   /\ after[s].status # "absent"
                   /\ after[s].qty = batch[b].rows[s].qty
                   /\ after[s].config = batch[b].rows[s].config
  <2> DEFINE r == batch[b].rows[s]
  <2>1. CASE r # NoRow /\ RowSucceeds(view[u], s, r)
    <3>1. r \in ImportRows /\ Fits(r.qty)
      BY <2>1 DEF IInv, TypeOK, RowsFit
    <3>2. after[s] = Imported(view[u], s, r, b)
      BY <2>1 DEF AfterImport
    <3>3. r # NoRow
      BY <2>1
    <3> HIDE DEF r, after
    <3>4. /\ AddsOnly(account[s], after[s], b)
          /\ after[s].status # "absent" /\ after[s].qty = r.qty /\ after[s].config = r.config
      BY <3>1, <3>2, ImportedSound, ImportedAsRow
    <3> QED
      BY <3>3, <3>4 DEF r
  <2>2. CASE ~(r # NoRow /\ RowSucceeds(view[u], s, r))
    BY <2>2 DEF AfterImport
  <2> QED
    BY <2>1, <2>2
<1> HIDE DEF after
<1> QED
  BY <1>1, <1>2, <1>3 DEF Confirmed, RowWhole

(* adjust_inventory is by a user who holds the current version.             *)
LEMMA AdjustInventoryBooks ==
    ASSUME IInv, NEW u \in Users, NEW s \in Skus, NEW k \in Quantities, NEW n \in Amounts,
           AdjustInventory(u, s, k, n)
    PROVE  Adjusted(s)
<1>1. account \in [Skus -> Accounts] /\ account[s] \in Accounts
  BY DEF IInv, TypeOK
<1>2. AddsOnly(account[s], Change(account[s], k, n, NoBatch), NoBatch)
  BY <1>1, ChangeAdds
<1>3. account' = [account EXCEPT ![s] = Change(account[s], k, n, NoBatch)]
  BY DEF AdjustInventory
<1>4. held[u][s] # NoVersion /\ held[u][s].qty = account[s].qty
  BY DEF AdjustInventory, VersionMatches, IInv, CurrentVersionShowsQuantities
<1>5. account'[s] = Change(account[s], k, n, NoBatch)
      /\ \A t \in Skus \ {s} : account'[t] = account[t]
  BY <1>1, <1>3
<1> QED
  BY <1>2, <1>4, <1>5 DEF Adjusted, SomeoneKnows

(* Statuses and configurations are in no ledger, and a new SKU has an empty *)
(* one.                                                                     *)
LEMMA QuietWriteBooksNothing ==
    ASSUME IInv, NEW u \in Users,
           \/ \E status \in {"active", "inactive"} : ChangeProductStatus(u, status)
           \/ \E status \in StoreStatuses : UpdateStore(u, status)
           \/ \E s \in Skus, status \in SkuStatuses :
                CreateSku(u, s, status) \/ ChangeSkuStatus(u, s, status)
           \/ \E s \in Skus, config \in Configs : UpdateInventoryConfig(u, s, config)
    PROVE  NothingBooked /\ UNCHANGED batch
<1>1. /\ account \in [Skus -> Accounts]
      /\ \A s \in Skus : account[s].log \in Seq(Movements) /\ Len(account[s].log) \in Nat
  BY DEF IInv, TypeOK, Accounts
<1>2. CASE \E status \in {"active", "inactive"} : ChangeProductStatus(u, status)
  BY <1>1, <1>2 DEF ChangeProductStatus, NothingBooked
<1>3. CASE \E status \in StoreStatuses : UpdateStore(u, status)
  BY <1>1, <1>3 DEF UpdateStore, NothingBooked
<1>4. ASSUME NEW s \in Skus, NEW status \in SkuStatuses, CreateSku(u, s, status)
      PROVE  NothingBooked /\ UNCHANGED batch
  <2> DEFINE c == [NewAccount EXCEPT !.status = status]
  <2>1. account' = [account EXCEPT ![s] = c] /\ UNCHANGED batch
    BY <1>4 DEF CreateSku
  <2>2. Len(c.log) = 0
    BY DEF NewAccount
  <2> HIDE DEF c
  <2> QED
    BY <1>1, <2>1, <2>2 DEF NothingBooked
<1>5. ASSUME NEW s \in Skus, NEW status \in SkuStatuses, ChangeSkuStatus(u, s, status)
      PROVE  NothingBooked /\ UNCHANGED batch
  <2> DEFINE c == [account[s] EXCEPT !.status = Assigned(view[u].sku[s], status, account[s].status)]
  <2>1. account' = [account EXCEPT ![s] = c] /\ UNCHANGED batch
    BY <1>5 DEF ChangeSkuStatus
  <2>2. c.log = account[s].log
    BY <1>1 DEF Accounts
  <2> HIDE DEF c
  <2> QED
    BY <1>1, <2>1, <2>2 DEF NothingBooked
<1>6. ASSUME NEW s \in Skus, NEW config \in Configs, UpdateInventoryConfig(u, s, config)
      PROVE  NothingBooked /\ UNCHANGED batch
  <2> DEFINE c == [account[s] EXCEPT !.config = config]
  <2>1. account' = [account EXCEPT ![s] = c] /\ UNCHANGED batch
    BY <1>6 DEF UpdateInventoryConfig
  <2>2. c.log = account[s].log
    BY <1>1 DEF Accounts
  <2> HIDE DEF c
  <2> QED
    BY <1>1, <2>1, <2>2 DEF NothingBooked
<1> QED
  BY <1>2, <1>3, <1>4, <1>5, <1>6

(* Where the batches stay as they are, none is confirmed.                   *)
LEMMA SameBatchesConfirmNone ==
    ASSUME UNCHANGED batch
    PROVE  NoBatchConfirmed
BY DEF NoBatchConfirmed

(* Every step is one of the three.                                          *)
LEMMA NextLedger == IInv /\ [Next]_vars => LedgerStep
<1> SUFFICES ASSUME IInv, [Next]_vars PROVE LedgerStep
  OBVIOUS
<1>1. \A s \in Skus : Len(account[s].log) \in Nat
  BY DEF IInv, TypeOK, Accounts
<1>2. CASE UNCHANGED <<account, batch>>
  BY <1>1, <1>2, SameBatchesConfirmNone DEF LedgerStep, NothingBooked
<1>3. ASSUME NEW u \in Users, Commit(u), Write(u)
      PROVE  LedgerStep
  <2>1. CASE \E b \in Batches : ConfirmBatch(u, b)
    BY <1>3, <2>1, ConfirmBatchBooks DEF LedgerStep, Commit
  <2>2. CASE \E s \in Skus, k \in Quantities, n \in Amounts : AdjustInventory(u, s, k, n)
    <3>1. PICK s \in Skus : \E k \in Quantities, n \in Amounts : AdjustInventory(u, s, k, n)
      BY <2>2
    <3>2. Adjusted(s) /\ UNCHANGED batch
      BY <3>1, AdjustInventoryBooks DEF AdjustInventory
    <3> QED
      BY <3>2, SameBatchesConfirmNone DEF LedgerStep
  <2>3. CASE \/ \E status \in {"active", "inactive"} : ChangeProductStatus(u, status)
             \/ \E status \in StoreStatuses : UpdateStore(u, status)
             \/ \E s \in Skus, status \in SkuStatuses :
                  CreateSku(u, s, status) \/ ChangeSkuStatus(u, s, status)
             \/ \E s \in Skus, config \in Configs : UpdateInventoryConfig(u, s, config)
    BY <2>3, QuietWriteBooksNothing, SameBatchesConfirmNone DEF LedgerStep
  <2> QED
    BY <1>3, <2>1, <2>2, <2>3 DEF Write
<1>4. ASSUME NEW b \in Batches, NEW rows \in [Skus -> ImportRows \cup {NoRow}], Upload(b, rows)
      PROVE  LedgerStep
  <2>1. /\ batch' = [batch EXCEPT ![b] = [state |-> "validated", rows |-> rows]]
        /\ UNCHANGED account
    BY <1>4 DEF Upload
  <2>2. batch \in [Batches -> [state: {"absent", "validated", "completed"},
                               rows: [Skus -> ImportRows \cup {NoRow}]]]
    BY DEF IInv, TypeOK
  <2>3. \A c \in Batches : batch'[c].state = "validated" \/ batch'[c] = batch[c]
    BY <2>1, <2>2
  <2>4. NoBatchConfirmed
    BY <2>3 DEF NoBatchConfirmed
  <2> QED
    BY <1>1, <2>1, <2>4 DEF LedgerStep, NothingBooked
<1> QED
  BY <1>2, <1>3, <1>4 DEF Next, vars, Begin, Refuse, Read

(* The movements of a batch appear with its completion and never again.     *)
THEOREM BatchesBookedOnce == Spec => BatchBookedOnce
<1> DEFINE Once == \A b \in Batches, s \in Skus :
        (\E i \in (Len(account[s].log) + 1)..Len(account'[s].log) : account'[s].log[i].batch = b)
        => batch[b].state = "validated" /\ batch'[b].state = "completed"
<1>1. IInv /\ [Next]_vars => [Once]_vars
  <2> SUFFICES ASSUME IInv, [Next]_vars,
                      NEW b \in Batches, NEW s \in Skus,
                      NEW i \in (Len(account[s].log) + 1)..Len(account'[s].log),
                      account'[s].log[i].batch = b
               PROVE  batch[b].state = "validated" /\ batch'[b].state = "completed"
    OBVIOUS
  <2>1. LedgerStep
    BY NextLedger
  <2>2. Len(account[s].log) \in Nat /\ Len(account'[s].log) \in Nat
    BY NextIInv DEF IInv, TypeOK, Accounts
  <2>3. ~NothingBooked
    BY <2>2 DEF NothingBooked
  <2>4. account'[s] # account[s]
    BY <2>2
  <2>5. \A t \in Skus : ~Adjusted(t)
    BY <2>4, BatchAssumption DEF Adjusted, AddsOnly
  <2>6. PICK c \in Batches : Confirmed(c)
    BY <2>1, <2>3, <2>5 DEF LedgerStep
  <2>7. b = c
    BY <2>4, <2>6 DEF Confirmed, AddsOnly
  <2> QED
    BY <2>6, <2>7 DEF Confirmed
<1> QED
  BY <1>1, Invariance, PTL DEF Spec, BatchBookedOnce

(* A confirmed batch leaves each SKU as its row says or as it was.          *)
THEOREM RowsWhole == Spec => BatchRowsWhole
<1> DEFINE AllWhole == \A b \in Batches, s \in Skus : LET r == batch[b].rows[s] IN
        batch[b].state = "validated" /\ batch'[b].state = "completed" =>
            \/ account'[s] = account[s]
            \/ /\ r # NoRow
               /\ account'[s].status # "absent"
               /\ account'[s].qty = r.qty
               /\ account'[s].config = r.config
<1>1. IInv /\ [Next]_vars => [AllWhole]_vars
  <2> SUFFICES ASSUME IInv, [Next]_vars, NEW b \in Batches, NEW s \in Skus,
                      batch[b].state = "validated", batch'[b].state = "completed"
               PROVE  RowWhole(s, batch[b].rows[s])
    BY DEF RowWhole
  <2>1. PICK c \in Batches : Confirmed(c)
    BY NextLedger DEF LedgerStep, NoBatchConfirmed
  <2>2. b = c
    BY <2>1 DEF Confirmed
  <2> QED
    BY <2>1, <2>2 DEF Confirmed
<1> QED
  BY <1>1, Invariance, PTL DEF Spec, BatchRowsWhole

(* Nobody adjusts quantities that changed since they were read.             *)
THEOREM AdjustmentsAreInformed == Spec => AdjustmentsInformed
<1> DEFINE AllInformed == \A s \in Skus :
        \A i \in (Len(account[s].log) + 1)..Len(account'[s].log) :
            account'[s].log[i].batch = NoBatch =>
                \E u \in Users : held[u][s] # NoVersion /\ held[u][s].qty = account[s].qty
<1>1. IInv /\ [Next]_vars => [AllInformed]_vars
  <2> SUFFICES ASSUME IInv, [Next]_vars, NEW s \in Skus,
                      NEW i \in (Len(account[s].log) + 1)..Len(account'[s].log),
                      account'[s].log[i].batch = NoBatch
               PROVE  SomeoneKnows(s)
    BY DEF SomeoneKnows
  <2>1. LedgerStep
    BY NextLedger
  <2>2. Len(account[s].log) \in Nat /\ Len(account'[s].log) \in Nat
    BY NextIInv DEF IInv, TypeOK, Accounts
  <2>3. ~NothingBooked /\ account'[s] # account[s]
    BY <2>2 DEF NothingBooked
  <2>4. \A b \in Batches : ~Confirmed(b)
    BY <2>3, BatchAssumption DEF Confirmed, AddsOnly
  <2>5. PICK t \in Skus : Adjusted(t)
    BY <2>1, <2>3, <2>4 DEF LedgerStep
  <2>6. t = s
    BY <2>3, <2>5 DEF Adjusted
  <2> QED
    BY <2>5, <2>6 DEF Adjusted
<1> QED
  BY <1>1, Invariance, PTL DEF Spec, AdjustmentsInformed
=============================================================================
