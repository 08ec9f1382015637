----------------------------- MODULE OrbExitProofs -----------------------------
(****************************************************************************)
(* Proofs about OrbExit, for any number of shares, of pairs and of          *)
(* restarts, and any scenes.                                                *)
(*                                                                          *)
(* The argument has two layers.  What is recorded needs no promise: the     *)
(* pair at the broker is the one the record calls base, the reconciler      *)
(* plans on that record (PairInv), one closer owns the claim from its first *)
(* check to its one sell, and a sell has its row (ClaimInv).                *)
(*                                                                          *)
(* What is owned does.  A closer sizes its sell from the books after the    *)
(* pair's end is proved, and nothing it reads afterwards tells it of a pair *)
(* that a slow reconciler attaches meanwhile; NoPairBeside is the promise   *)
(* that none is.  Under it at most one order is open at any time, every     *)
(* pair but the recorded one is over and booked (Proved), what the open     *)
(* order may still sell is owned at the broker (Backed), and the books only *)
(* lack fills, so a size taken from them after the release is exactly what  *)
(* is left (SizedSale).  BookInv says so, and the promises of the closers   *)
(* follow from it.                                                          *)
(****************************************************************************)
EXTENDS OrbExit, TotalsProofs

------------------------------------------------------------------------------
(* The invariants.                                                          *)

Places == {"idle", "claimed", "claiming", "entered", "binding", "dispatching", "release", "cancel",
           "probe", "proved", "released", "sized", "journal", "submit", "validate", "wire", "posted",
           "known", "targets", "target", "plan", "prewire", "post", "accepted", "seen"}

Phases == LivePhases \cup {"none", "released"}

\* What TypeOK says, but that the quantities are any integers.
Shape ==
  /\ scene \in Scenes
  /\ pair \in [Pairs -> [st : {"none", "working", "gone"}, qty : Int, sold : Int, asked : BOOLEAN]]
  /\ sale \in [st : {"none", "working", "gone", "refused"}, qty : Int, sold : Int]
  /\ booked \in [{0} \cup Pairs -> Int]
  /\ prot \in [phase : Phases, base : 0..MaxPairs, qty : Int, latched : BOOLEAN,
               proof : {"none", "receipts", "unsent"}, child : BOOLEAN]
  /\ claim \in [phase : Resolved \cup {"none", "checking", "submitting", "submitted", "needs_attention",
                                       "exit_working", "terminal_exit_remaining"},
                owner : {"none"} \cup Sellers, bound : 0..MaxPairs]
  /\ row \in [st : {"none", "pending", "open", "over"}, qty : Int]
  /\ journal \in [native : {"none", "prepared", "sent", "unknown", "terminal"},
                  exit : {"none", "prepared", "sent", "working", "terminal"}]
  /\ settled \in BOOLEAN
  /\ pc \in [Actors -> Places]
  /\ holder \in {"none"} \cup Sellers
  /\ size \in [Sellers -> Int]
  /\ plan \in [q : Int, base : 0..MaxPairs, phase : Phases]
  /\ clear \in BOOLEAN /\ boot \in BOOLEAN
  /\ crashes \in 0..MaxCrash

\* The pair at the broker is the one the record calls base, and a pair about to be posted
\* is recorded already.
Recorded ==
  /\ prot.phase = "none" <=> prot.base = 0
  /\ \A b \in Pairs : pair[b].st = "working" => prot.base = b
  /\ \A b \in Pairs : b > prot.base => pair[b].st = "none"
  /\ prot.phase \in {"none", "released"} => \A b \in Pairs : pair[b].st # "working"

Planned ==
  /\ pc[Recon] \in {"plan", "seen"} => plan.base = prot.base
  /\ pc[Recon] = "plan" => plan.base < scene.pairs /\ plan.phase \in {"none", "released"}
  /\ pc[Recon] = "seen" => prot.base # 0
  /\ pc[Recon] \in {"prewire", "post", "accepted"} => prot.base = plan.base + 1
  /\ pc[Recon] \in {"prewire", "post"} => prot.phase = "submitting" /\ pair[prot.base].st = "none"

PairInv == Recorded /\ Planned

Early == {"claimed", "entered", "binding", "dispatching", "release", "cancel", "probe", "proved",
          "released", "sized"}
Late  == {"journal", "submit", "validate", "wire"}

\* One closer owns the claim from its first check to its sell, and the sell has its row.
Owner ==
  \A s \in Sellers :
    pc[s] \in Early \cup Late \cup {"posted"} => claim.owner = s /\ claim.phase # "none"

Fenced ==
  \A s \in Sellers :
    /\ pc[s] \in Early => sale.st = "none" /\ row.st = "none"
    /\ pc[s] \in Late => sale.st = "none" /\ row = [st |-> "pending", qty |-> size[s]]
    /\ pc[s] = "posted" => sale.st # "none"

Rowed ==
  /\ claim.phase = "none" => sale.st = "none" /\ row.st = "none"
  /\ sale.st = "none" => sale.qty = 0 /\ sale.sold = 0 /\ row.st \in {"none", "pending"}
  /\ sale.st # "none" => row.st # "none"
  /\ row.st = "over" => SaleOver
  /\ sale.st = "working" => row.qty = sale.qty

ClaimInv == Owner /\ Fenced /\ Rowed

Orders == {0} \cup Pairs
Sold   == [i \in Orders |-> IF i = 0 THEN sale.sold ELSE pair[i].sold]
AllSold == Total(Sold, Orders)

Settles(b) == pair[b].st # "working" /\ booked[b] = pair[b].sold
AllSettle  == \A b \in Pairs : Settles(b)

\* Never more is booked than was sold.
Booked == \A i \in Orders : booked[i] >= 0 /\ booked[i] <= Sold[i]

\* What an order may still sell is owned at the broker.
Backed(o) == o.st = "working" => o.sold < o.qty /\ AllSold + (o.qty - o.sold) <= Qty

Ordered ==
  /\ \A b \in Pairs : Backed(pair[b])
  /\ Backed(sale)
  /\ AllSold <= Qty
  /\ \A b \in Pairs : /\ pair[b].qty \in 0..Qty /\ pair[b].sold \in 0..Qty
                      /\ pair[b].st = "none" => pair[b].sold = 0
  /\ sale.qty \in 0..Qty /\ sale.sold \in 0..Qty

Bare   == prot.phase \in {"none", "released"}
Unsent == PastRelease \ {"posted"}
Sizing == {"sized"} \cup Late

\* Pairs of the past, and the last one once its release is recorded, are over and booked.
Proved ==
  /\ \A b \in Pairs : b # prot.base => Settles(b)
  /\ Bare => AllSettle
  /\ \A s \in Sellers : pc[s] \in Unsent => AllSettle

SizedSale ==
  \A s \in Sellers : size[s] \in 0..Qty /\ (pc[s] \in Sizing => size[s] = Owned /\ size[s] > 0)

SizedPair ==
  /\ plan.q \in 0..Qty
  /\ pc[Recon] \in {"plan", "prewire", "post"} => plan.q > 0
  /\ pc[Recon] = "post" /\ sale.st = "none" => plan.q = Owned

Limits ==
  /\ prot.qty \in 0..Qty /\ row.qty \in 0..Qty
  /\ settled => AllSold = Qty

BookInv == Booked /\ Ordered /\ Proved /\ SizedSale /\ SizedPair /\ Limits

\* The promise of the reconciler: no live pair beside a closer that is past its release, nor
\* beside its sell.  (NoFreshPair is its first half, and the code can break it: then the
\* pair and the sell are two orders over the same shares.)
NoPairBeside ==
  (\E s \in Sellers : pc[s] \in PastRelease) \/ sale.st # "none"
    => \A b \in Pairs : pair[b].st # "working"

\* Entries that no pair can be attached to once a close has begun.
NoLatePair == \A sc \in Scenes : sc.closers = {} \/ (sc.attached /\ sc.pairs = 1)

\* What such an entry keeps.
Unclosed == scene.closers = {} /\ claim.phase = "none" /\ \A s \in Sellers : pc[s] = "idle"
OnePair  == prot.base = 1 /\ scene.pairs = 1 /\ pc[Recon] \notin {"plan", "prewire", "post"}
Guarded  == Unclosed \/ (OnePair /\ NoPairBeside)

------------------------------------------------------------------------------
(* Quantities.                                                              *)

\* The entry's orders: the sell under 0, and its pairs.
LEMMA FiniteOrders ==
  IsFiniteSet(Orders) /\ IsFiniteSet(Pairs) /\ 0 \notin Pairs /\ Pairs = Orders \ {0}
<1>1. IsFiniteSet(Pairs)  BY OrbExitConstants, FS_Interval DEF Pairs
<1>2. IsFiniteSet({0})  BY FS_Singleton
<1>3. IsFiniteSet(Orders)  BY <1>1, <1>2, FS_Union DEF Orders
<1>4. 0 \notin Pairs  BY OrbExitConstants DEF Pairs
<1>5. Pairs = Orders \ {0}  BY <1>4 DEF Orders
<1> QED  BY <1>1, <1>3, <1>4, <1>5

\* The quantities are integers.
LEMMA Quantities ==
  ASSUME Shape
  PROVE  /\ \A i \in Orders : booked[i] \in Int /\ Sold[i] \in Int
         /\ Sold[0] = sale.sold /\ \A b \in Pairs : Sold[b] = pair[b].sold
         /\ AllSold \in Int
         /\ Owned \in Int /\ Owned = Qty - Total(booked, Orders)
<1>1. \A i \in Orders : booked[i] \in Int  BY DEF Shape, Orders
<1>2. Sold[0] = sale.sold /\ \A b \in Pairs : Sold[b] = pair[b].sold
  BY FiniteOrders DEF Sold, Orders
<1>3. \A i \in Orders : Sold[i] \in Int  BY <1>2 DEF Shape, Orders
<1>4. AllSold \in Int  BY <1>3, FiniteOrders, TotalInt DEF AllSold
<1>5. Owned = Qty - Total(booked, Orders)  BY DEF Owned, Sum, Shape, Orders
<1>6. Total(booked, Orders) \in Int  BY <1>1, FiniteOrders, TotalInt
<1> QED  BY <1>1, <1>2, <1>3, <1>4, <1>5, <1>6, OrbExitConstants

\* No more is booked than was sold, so the books never own less than the broker holds.
LEMMA OwnedBounds ==
  ASSUME Shape, Booked, AllSold <= Qty
  PROVE  Owned \in 0..Qty /\ Owned >= Qty - AllSold
<1>1. Total(booked, Orders) <= AllSold
  <2>1. \A i \in Orders : booked[i] \in Int /\ Sold[i] \in Int /\ booked[i] <= Sold[i]
    BY Quantities DEF Booked
  <2> QED  BY <2>1, FiniteOrders, TotalOrder DEF AllSold
<1>2. Total(booked, Orders) \in Nat
  <2>1. \A i \in Orders : booked[i] \in Nat  BY Quantities DEF Booked
  <2> QED  BY <2>1, FiniteOrders, TotalNat
<1>3. AllSold \in Int /\ Owned = Qty - Total(booked, Orders) /\ Qty \in Int
  BY Quantities, OrbExitConstants
<1> QED  BY <1>1, <1>2, <1>3

\* A fill that is not booked yet is owned on the books and not at the broker.
LEMMA Unbooked ==
  ASSUME Shape, Booked, NEW i \in Orders
  PROVE  Sold[i] - booked[i] <= AllSold - (Qty - Owned)
<1> DEFINE g == [j \in Orders |-> IF j = i THEN Sold[i] ELSE booked[j]]
<1>1. \A j \in Orders : booked[j] \in Int /\ Sold[j] \in Int /\ booked[j] <= Sold[j]
  BY Quantities DEF Booked
<1>2. \A j \in Orders : g[j] \in Int /\ g[j] <= Sold[j]  BY <1>1
<1>3. g[i] = Sold[i] /\ \A j \in Orders \ {i} : g[j] = booked[j]  OBVIOUS
<1> HIDE DEF g
<1>4. Total(g, Orders) = Total(booked, Orders) + (g[i] - booked[i])
  BY <1>1, <1>2, <1>3, FiniteOrders, TotalChange
<1>5. Total(g, Orders) <= AllSold  BY <1>1, <1>2, FiniteOrders, TotalOrder DEF AllSold
<1>6. Total(booked, Orders) \in Int /\ Total(g, Orders) \in Int
  BY <1>1, <1>2, FiniteOrders, TotalInt
<1>7. AllSold \in Int /\ Owned = Qty - Total(booked, Orders) /\ Qty \in Int
  BY Quantities, OrbExitConstants
<1> QED  BY <1>1, <1>3, <1>4, <1>5, <1>6, <1>7

\* Where all is booked, the books own what the broker holds.
LEMMA AllBooked ==
  ASSUME Shape, \A i \in Orders : booked[i] = Sold[i]
  PROVE  Owned = Qty - AllSold
<1>1. \A i \in Orders : booked[i] \in Int /\ booked[i] = Sold[i]  BY Quantities
<1>2. Total(booked, Orders) = AllSold  BY <1>1, FiniteOrders, TotalSame DEF AllSold
<1> QED  BY <1>2, Quantities

\* Nothing owned on the books: everything was sold, and every sale is booked.
LEMMA NothingOwned ==
  ASSUME Shape, Booked, AllSold <= Qty, Owned = 0
  PROVE  AllSold = Qty /\ \A i \in Orders : booked[i] = Sold[i]
<1>1. AllSold = Qty  BY OwnedBounds, Quantities, OrbExitConstants
<1>2. ASSUME NEW i \in Orders PROVE booked[i] = Sold[i]
  <2>1. Sold[i] - booked[i] <= AllSold - (Qty - Owned)  BY Unbooked
  <2>2. booked[i] <= Sold[i] /\ booked[i] \in Int /\ Sold[i] \in Int  BY Quantities DEF Booked
  <2> QED  BY <1>1, <2>1, <2>2, OrbExitConstants
<1> QED  BY <1>1, <1>2

\* A step in which no order fills.
LEMMA SoldKept ==
  ASSUME Shape, Shape', sale'.sold = sale.sold, \A b \in Pairs : pair'[b].sold = pair[b].sold
  PROVE  AllSold' = AllSold /\ \A i \in Orders : Sold'[i] = Sold[i]
<1>1. Sold' = Sold  BY DEF Sold, Orders
<1> QED  BY <1>1 DEF AllSold, Orders, Pairs

\* A step in which one order fills by one share.
LEMMA SoldOne ==
  ASSUME Shape, Shape', NEW i \in Orders,
         Sold'[i] = Sold[i] + 1, \A j \in Orders \ {i} : Sold'[j] = Sold[j]
  PROVE  AllSold' = AllSold + 1
<1>1. \A j \in Orders : Sold[j] \in Int /\ Sold'[j] \in Int
  <2>1. \A j \in Orders : Sold[j] \in Int  BY Quantities
  <2> QED  BY <2>1
<1>2. Total(Sold', Orders) = Total(Sold, Orders) + (Sold'[i] - Sold[i])
  BY <1>1, FiniteOrders, TotalChange
<1>3. AllSold \in Int  BY Quantities
<1> QED  BY <1>1, <1>2, <1>3 DEF AllSold, Orders, Pairs

\* What the orders have sold, as SoldAll adds it up.
LEMMA SoldAllIs == ASSUME Shape PROVE SoldAll = AllSold
<1> DEFINE f == [b \in Pairs |-> pair[b].sold]
<1>1. AllSold = Sold[0] + Total(Sold, Pairs)
  <2>1. 0 \in Orders /\ \A i \in Orders : Sold[i] \in Int  BY Quantities DEF Orders
  <2> QED  BY <2>1, FiniteOrders, TotalApart DEF AllSold
<1>2. \A b \in Pairs : f[b] \in Int /\ f[b] = Sold[b]  BY Quantities, FiniteOrders
<1>3. DOMAIN f = Pairs  OBVIOUS
<1>6. Total(f, Pairs) \in Int
  <2> HIDE DEF f
  <2> QED  BY <1>2, FiniteOrders, TotalInt
<1>4. Total(f, Pairs) = Total(Sold, Pairs)
  <2> HIDE DEF f
  <2> QED  BY <1>2, FiniteOrders, TotalSame
<1>5. SoldAll = Total(f, Pairs) + sale.sold  BY <1>3 DEF SoldAll, Sum
<1>7. sale.sold \in Int  BY DEF Shape
<1> QED  BY <1>1, <1>4, <1>5, <1>6, <1>7, Quantities

\* The orders stand still.
LEMMA OrderedKept ==
  ASSUME Shape, Shape', Ordered, UNCHANGED <<pair, sale>>
  PROVE  AllSold' = AllSold /\ Ordered' /\ \A i \in Orders : Sold'[i] = Sold[i]
<1>1. AllSold' = AllSold /\ \A i \in Orders : Sold'[i] = Sold[i]  BY SoldKept
<1>2. Ordered'  BY <1>1 DEF Ordered, Backed
<1> QED  BY <1>1, <1>2

LEMMA OwnedKept == ASSUME Shape, Shape', booked' = booked PROVE Owned' = Owned
BY DEF Owned, Sum

------------------------------------------------------------------------------
(* The shape of the state.                                                  *)

\* A pair, and the software sell, as the broker keeps them.
PairOrder == [st : {"none", "working", "gone"}, qty : Int, sold : Int, asked : BOOLEAN]
SaleOrder == [st : {"none", "working", "gone", "refused"}, qty : Int, sold : Int]

\* The record of the protection.
Protection == [phase : Phases, base : 0..MaxPairs, qty : Int, latched : BOOLEAN,
               proof : {"none", "receipts", "unsent"}, child : BOOLEAN]

\* The books.
Ledger == [{0} \cup Pairs -> Int]

\* A fill leaves a pair a pair, and a sell a sell.
LEMMA FilledPair == ASSUME NEW o \in PairOrder PROVE Filled(o) \in PairOrder
<1>1. o.sold + 1 \in Int /\ o.qty \in Int  BY DEF PairOrder
<1>2. CASE o.sold + 1 = o.qty
  <2>1. Filled(o) = [[o EXCEPT !.sold = o.sold + 1] EXCEPT !.st = "gone"]  BY <1>2 DEF Filled
  <2> QED  BY <1>1, <2>1 DEF PairOrder
<1>3. CASE o.sold + 1 # o.qty
  <2>1. Filled(o) = [[o EXCEPT !.sold = o.sold + 1] EXCEPT !.st = "working"]  BY <1>3 DEF Filled
  <2> QED  BY <1>1, <2>1 DEF PairOrder
<1> QED  BY <1>2, <1>3

LEMMA FilledSale == ASSUME NEW o \in SaleOrder PROVE Filled(o) \in SaleOrder
<1>1. o.sold + 1 \in Int /\ o.qty \in Int  BY DEF SaleOrder
<1>2. CASE o.sold + 1 = o.qty
  <2>1. Filled(o) = [[o EXCEPT !.sold = o.sold + 1] EXCEPT !.st = "gone"]  BY <1>2 DEF Filled
  <2> QED  BY <1>1, <2>1 DEF SaleOrder
<1>3. CASE o.sold + 1 # o.qty
  <2>1. Filled(o) = [[o EXCEPT !.sold = o.sold + 1] EXCEPT !.st = "working"]  BY <1>3 DEF Filled
  <2> QED  BY <1>1, <2>1 DEF SaleOrder
<1> QED  BY <1>2, <1>3

\* What a fill changes.
LEMMA FilledIs ==
  /\ \A o \in PairOrder : /\ Filled(o).sold = o.sold + 1 /\ Filled(o).qty = o.qty
                          /\ Filled(o).st = IF o.sold + 1 = o.qty THEN "gone" ELSE "working"
  /\ \A o \in SaleOrder : /\ Filled(o).sold = o.sold + 1 /\ Filled(o).qty = o.qty
                          /\ Filled(o).st = IF o.sold + 1 = o.qty THEN "gone" ELSE "working"
<1>1. ASSUME NEW o \in PairOrder PROVE
        /\ Filled(o).sold = o.sold + 1 /\ Filled(o).qty = o.qty
        /\ Filled(o).st = IF o.sold + 1 = o.qty THEN "gone" ELSE "working"
  BY DEF Filled, PairOrder
<1>2. ASSUME NEW o \in SaleOrder PROVE
        /\ Filled(o).sold = o.sold + 1 /\ Filled(o).qty = o.qty
        /\ Filled(o).st = IF o.sold + 1 = o.qty THEN "gone" ELSE "working"
  BY DEF Filled, SaleOrder
<1> QED  BY <1>1, <1>2

\* The shape is kept where an action builds a record: the broker's side.
LEMMA ShapePairFills == ASSUME Shape, NEW b \in Pairs, PairFills(b), scene' = scene PROVE Shape'
<1>1. pair \in [Pairs -> PairOrder] /\ pair[b] \in PairOrder  BY DEF Shape, PairOrder
<1>2. pair' \in [Pairs -> PairOrder]  BY <1>1, FilledPair DEF PairFills
<1> QED  BY <1>2 DEF Shape, PairFills, PairOrder, durable

LEMMA ShapeSaleFills == ASSUME Shape, SaleFills, scene' = scene PROVE Shape'
<1>1. sale \in SaleOrder  BY DEF Shape, SaleOrder
<1>2. sale' \in SaleOrder  BY <1>1, FilledSale DEF SaleFills
<1> QED  BY <1>2 DEF Shape, SaleFills, SaleOrder, durable

LEMMA ShapeCancel == ASSUME Shape, NEW a \in Actors, Cancel(a), scene' = scene PROVE Shape'
<1>1. pair \in [Pairs -> PairOrder]  BY DEF Shape, PairOrder
<1>2. ASSUME NEW b, NEW o \in PairOrder PROVE [pair EXCEPT ![b] = o] \in [Pairs -> PairOrder]
  BY <1>1
<1>3. pair' \in [Pairs -> PairOrder]
  <2> DEFINE b == prot.base
  <2>0. CASE b \notin Pairs  BY <1>1, <2>0 DEF Cancel
  <2>1. CASE b \in Pairs
   <3>1. pair[b] \in PairOrder  BY <1>1, <2>1
   <3>2. (IF pair[b].st = "working" THEN [pair[b] EXCEPT !.st = "gone"] ELSE pair[b]) \in PairOrder
     BY <3>1 DEF PairOrder
   <3>3. [pair[b] EXCEPT !.asked = (pair[b].st = "working")] \in PairOrder  BY <3>1 DEF PairOrder
   <3> QED  BY <1>1, <2>1, <3>2, <3>3 DEF Cancel
  <2> QED  BY <2>0, <2>1
<1>4. pc' \in [Actors -> Places]  BY DEF Shape, Cancel, Goto, Places
<1> QED  BY <1>3, <1>4 DEF Shape, Cancel, PairOrder, durable

LEMMA ShapeReconPost == ASSUME Shape, ReconPost, scene' = scene PROVE Shape'
<1>1. pair \in [Pairs -> PairOrder]  BY DEF Shape, PairOrder
<1>2. [st |-> "working", qty |-> plan.q, sold |-> 0, asked |-> FALSE] \in PairOrder
  BY DEF Shape, PairOrder
<1>3. pair' \in [Pairs -> PairOrder]  BY <1>1, <1>2 DEF ReconPost
<1>4. pc' \in [Actors -> Places]  BY DEF Shape, ReconPost, Goto, Places, Actors
<1> QED  BY <1>3, <1>4 DEF Shape, ReconPost, PairOrder, durable

\* The record of the protection keeps its shape whatever field is set.
LEMMA ProtTyped ==
  /\ \A p \in Protection, ph \in Phases : [p EXCEPT !.phase = ph] \in Protection
  /\ \A p \in Protection, c \in BOOLEAN : [p EXCEPT !.child = c] \in Protection
  /\ \A p \in Protection, c \in BOOLEAN : [p EXCEPT !.latched = c] \in Protection
  /\ \A p \in Protection, pf \in {"none", "receipts", "unsent"} : [p EXCEPT !.proof = pf] \in Protection
BY DEF Protection

LEMMA Named == "released" \in Phases /\ LivePhases \subseteq Phases /\ "none" \in Phases
BY DEF Phases, LivePhases

LEMMA ProtReleased ==
  ASSUME prot \in Protection
  PROVE  [prot EXCEPT !.phase = "released", !.proof = "receipts", !.child = FALSE] \in Protection
<1> DEFINE q == [[prot EXCEPT !.phase = "released"] EXCEPT !.proof = "receipts"]
<1>1. [q EXCEPT !.child = FALSE] \in Protection  BY ProtTyped, Named
<1>2. [q EXCEPT !.child = FALSE]
        = [prot EXCEPT !.phase = "released", !.proof = "receipts", !.child = FALSE]
  BY DEF Protection
<1> QED  BY <1>1, <1>2

\* The same for the record of the protection.
LEMMA ShapeRelease == ASSUME Shape, NEW a \in Actors, Release(a), scene' = scene PROVE Shape'
<1>0. prot \in Protection  BY DEF Shape, Protection
<1>1. prot' \in Protection  BY <1>0, ProtTyped DEF Release
<1>4. pc' \in [Actors -> Places]  BY DEF Shape, Release, Released, Goto, Places, Actors
<1> QED  BY <1>1, <1>4 DEF Shape, Release, Released, Protection, wires, durable

LEMMA ShapeReconUnsent == ASSUME Shape, ReconUnsent, scene' = scene PROVE Shape'
<1>0. prot \in Protection  BY DEF Shape, Protection
<1>1. prot' \in Protection
  <2>1. [prot EXCEPT !.phase = "released"] \in Protection  BY <1>0, ProtTyped, Named
  <2>2. [[prot EXCEPT !.phase = "released"] EXCEPT !.proof = "unsent"] \in Protection
    BY <2>1, ProtTyped
  <2>3. prot' = [[prot EXCEPT !.phase = "released"] EXCEPT !.proof = "unsent"]
    BY <1>0 DEF ReconUnsent, Protection
  <2> QED  BY <2>2, <2>3
<1>4. pc' \in [Actors -> Places]  BY DEF Shape, ReconUnsent, Goto, Places, Actors
<1> QED  BY <1>1, <1>4 DEF Shape, ReconUnsent, Protection, wires, durable

LEMMA ShapeReconPrepare ==
  ASSUME OrbExitConstants, Shape, Planned, ReconPrepare, scene' = scene
  PROVE  Shape'
<1>0. prot \in Protection  BY DEF Shape, Protection
<1>1. prot' \in Protection
  <2>1. plan.base + 1 \in 0..MaxPairs  BY DEF ReconPrepare, Planned, Shape, OrbExitConstants, Scene
  <2>2. "submitting" \in Phases  BY DEF Phases, LivePhases
  <2>3. plan.q \in Int  BY DEF Shape
  <2>4. [phase |-> "submitting", base |-> plan.base + 1, qty |-> plan.q,
         latched |-> FALSE, proof |-> "none", child |-> FALSE] \in Protection
           BY <2>1, <2>2, <2>3 DEF Protection
  <2> QED  BY <1>0, <2>4 DEF ReconPrepare
<1>4. pc' \in [Actors -> Places]  BY DEF Shape, ReconPrepare, Goto, Places, Actors
<1> QED  BY <1>1, <1>4 DEF Shape, ReconPrepare, Protection, wires, durable

\* What record_protection_reports books is a book.
LEMMA BookTyped == ASSUME Shape, NEW b \in 0..MaxPairs PROVE BookPair(b) \in Ledger
<1>1. booked \in Ledger  BY DEF Shape, Ledger
<1>2. CASE b = 0  BY <1>1, <1>2 DEF BookPair, Bookable
<1>3. CASE b \in Pairs
  <2>1. pair[b].sold \in Int  BY <1>3 DEF Shape
  <2> QED  BY <1>1, <2>1 DEF BookPair, Ledger
<1>4. b = 0 \/ b \in Pairs  BY OrbExitConstants DEF Pairs
<1> QED  BY <1>2, <1>3, <1>4

LEMMA ShapeProbe == ASSUME Shape, NEW a \in Actors, Probe(a), scene' = scene PROVE Shape'
<1>0. prot \in Protection  BY DEF Shape, Protection
<1>1. prot' \in Protection
  <2>1. [prot EXCEPT !.child = ChildOpen(prot.base)] \in Protection
    BY <1>0, ProtTyped DEF ChildOpen
  <2> QED  BY <1>0, <2>1, ProtReleased DEF Probe
<1>2. booked' \in Ledger  BY BookTyped DEF Probe, Shape
<1>4. pc' \in [Actors -> Places]
  BY DEF Shape, Probe, Released, Unanswerable, Attention, Goto, Places, Actors
<1>5. /\ claim' \in {claim, [claim EXCEPT !.phase = "needs_attention"]} /\ holder' \in {holder, "none"}
      /\ journal' \in {journal, [journal EXCEPT !.native = "unknown"], [journal EXCEPT !.native = @]}
  BY DEF Probe, Released, Unanswerable, Attention
<1> QED  BY <1>1, <1>2, <1>4, <1>5 DEF Shape, Probe, Protection, Ledger, wires

LEMMA ShapeReconRead == ASSUME Shape, ReconRead, scene' = scene, Sum(booked) \in Int PROVE Shape'
<1>0. prot \in Protection  BY DEF Shape, Protection
<1>1. prot' \in Protection  BY <1>0, ProtTyped DEF ReconRead, ChildOpen
<1>2. booked' \in Ledger  BY BookTyped DEF ReconRead, Shape, Ledger
<1>4. pc' \in [Actors -> Places]  BY DEF Shape, ReconRead, Goto, Places, Actors
<1>5. plan' \in [q : Int, base : 0..MaxPairs, phase : Phases]
  BY OrbExitConstants, Named DEF ReconRead, Shape, Owned
<1> QED  BY <1>1, <1>2, <1>4, <1>5 DEF Shape, ReconRead, Protection, Ledger, wires

LEMMA ShapeVerify == ASSUME Shape, NEW s \in Sellers, Verify(s), scene' = scene PROVE Shape'
<1>0. prot \in Protection  BY DEF Shape, Protection
<1>1. prot' \in Protection
  <2> DEFINE polls == prot.phase \in LivePhases /\ (s = "stop" \/ pc[Recon] = "idle")
             c == IF polls THEN ChildOpen(prot.base) ELSE prot.child
  <2>1. c \in BOOLEAN  BY <1>0 DEF Protection, ChildOpen
  <2>2. prot' = prot \/ prot' = [prot EXCEPT !.child = c]  BY DEF Verify
  <2> HIDE DEF c
  <2> QED  BY <1>0, <2>1, <2>2, ProtTyped
<1>2. booked' \in Ledger
  <2>1. prot.base \in 0..MaxPairs /\ 0 \in 0..MaxPairs /\ booked \in Ledger
    BY OrbExitConstants DEF Shape, Ledger
  <2>2. BookPair(prot.base) \in Ledger /\ BookPair(0) \in Ledger  BY <2>1, BookTyped
  <2> QED  BY <2>1, <2>2 DEF Verify
<1>4. pc' \in [Actors -> Places]  BY DEF Shape, Verify, Attention, Finish, Goto, Places, Actors
<1>5. claim' \in {claim, [claim EXCEPT !.phase = "needs_attention"],
                  [claim EXCEPT !.phase = "resolved_by_child_fill"]}
      /\ holder' \in {holder, "none"}
  BY DEF Verify, Attention, Finish
<1> QED  BY <1>1, <1>2, <1>4, <1>5 DEF Shape, Verify, Protection, Ledger, wires, Resolved

LEMMA ShapeStopFlat == ASSUME Shape, StopFlat, scene' = scene PROVE Shape'
<1>0. prot \in Protection  BY DEF Shape, Protection
<1>1. prot' \in Protection  BY <1>0, ProtReleased DEF StopFlat
<1>4. pc' \in [Actors -> Places]  BY DEF Shape, StopFlat, Goto, Places, Actors, Sellers
<1>5. claim' \in {claim, [claim EXCEPT !.phase = "resolved_by_child_fill"], [claim EXCEPT !.phase = @]}
      /\ journal' \in {journal, [journal EXCEPT !.native = "terminal"]}
  BY DEF StopFlat
<1>6. clear' \in BOOLEAN  BY DEF StopFlat, FlatProven
<1> QED  BY <1>1, <1>4, <1>5, <1>6 DEF Shape, StopFlat, Protection, wires, Resolved

LEMMA ShapeStopKnown == ASSUME Shape, StopKnown, scene' = scene PROVE Shape'
<1>2. booked' \in Ledger /\ row' \in [st : {"none", "pending", "open", "over"}, qty : Int]
  BY DEF StopKnown, BookSale, Shape, Ledger
<1>4. pc' \in [Actors -> Places]  BY DEF Shape, StopKnown, Goto, Places, Actors, Sellers
<1>5. (claim' = claim \/ claim' = [claim EXCEPT !.phase = Recovered(Qty - Sum(booked'))])
      /\ journal' \in {journal, [journal EXCEPT !.exit = "terminal"],
                       [journal EXCEPT !.exit = "working"], [journal EXCEPT !.exit = @]}
  BY DEF StopKnown
<1>6. clear' \in BOOLEAN  BY DEF StopKnown, Shape
<1>7. Recovered(Qty - Sum(booked')) \in {"exit_working", "terminal_exit_remaining"} \cup Resolved
  BY DEF Recovered, Resolved
<1> QED  BY <1>2, <1>4, <1>5, <1>6, <1>7 DEF Shape, StopKnown, Ledger, wires

\* What a step leaves is of the same shape.
LEMMA ShapeStep ==
  ASSUME Shape, PairInv, Step, scene' = scene
  PROVE  Shape'
<1>1. ASSUME NEW b \in Pairs, PairEnds(b)  PROVE Shape'
  BY <1>1, OrbExitConstants DEF PairEnds, Shape, durable
<1>2. CASE SaleEnds
  BY <1>2, OrbExitConstants DEF SaleEnds, Shape, durable
<1>3. CASE ReconSeen
  BY <1>3, OrbExitConstants DEF ReconSeen, Shape, Recon, Phased, Goto, wires, Actors, Places,
      Sellers, Phases, LivePhases
<1>4. CASE ReconPrewire
  BY <1>4, OrbExitConstants DEF ReconPrewire, Shape, Recon, Goto, Owned, wires, durable, Actors,
      Places, Sellers
<1>5. CASE ReconAccepted
  BY <1>5, OrbExitConstants DEF ReconAccepted, Shape, Recon, Phased, Goto, wires, Actors, Places,
      Sellers, Phases, LivePhases
<1>6. ASSUME NEW s \in Normal, Claim(s)  PROVE Shape'
  BY <1>6, OrbExitConstants DEF Claim, Shape, Owned, Goto, wires, Actors, Places, Sellers, Normal
<1>7. ASSUME NEW s \in Sellers, Enter(s)  PROVE Shape'
  <2>1. pc' \in [Actors -> Places]
    BY <1>7 DEF Enter, Shape, Goto, Places, Actors, Sellers
  <2> QED  BY <1>7, <2>1, OrbExitConstants DEF Enter, Shape, wires, durable
<1>8. ASSUME NEW s \in Sellers, Size(s)  PROVE Shape'
  <2>1. pc' \in [Actors -> Places]
    BY <1>8 DEF Size, Shape, Goto, Finish, Places, Actors, Sellers
  <2>2. size' \in [Sellers -> Int]  BY <1>8, Quantities DEF Size, Shape
  <2>3. claim' = claim \/ claim' = [claim EXCEPT !.phase = "resolved_by_child_fill"]
    BY <1>8 DEF Size, Finish
  <2>4. holder' \in {holder, "none"}  BY <1>8 DEF Size, Finish
  <2> QED  BY <1>8, <2>1, <2>2, <2>3, <2>4 DEF Size, Shape, wires, Resolved
<1>9. ASSUME NEW s \in Sellers, Prepare(s)  PROVE Shape'
  BY <1>9, OrbExitConstants DEF Prepare, Shape, Owned, Goto, Attention, wires, Actors, Places,
      Sellers
<1>10. ASSUME NEW s \in Sellers, Post(s)  PROVE Shape'
  BY <1>10, OrbExitConstants DEF Post, Shape, Goto, durable, Actors, Places, Sellers
<1>11. ASSUME NEW s \in Sellers, Answer(s)  PROVE Shape'
  BY <1>11, OrbExitConstants DEF Answer, Shape, BookSale, Attention, Goto, Finish, wires, Actors,
      Places, Sellers
<1>12. ASSUME NEW s \in Sellers, Fail(s)  PROVE Shape'
  BY <1>12, OrbExitConstants DEF Fail, Shape, Attention, Goto, wires, Actors, Places, Sellers
<1>13. CASE StopEnter
  <2>1. pc' \in [Actors -> Places]
    BY <1>13 DEF StopEnter, Shape, Goto, Places, Actors, Sellers
  <2> QED  BY <1>13, <2>1, OrbExitConstants DEF StopEnter, Shape, Sellers, wires, durable
<1>14. CASE StopClaim
  <2>1. pc' \in [Actors -> Places]
    BY <1>14 DEF StopClaim, Shape, Goto, Places, Actors, Sellers
  <2> QED  BY <1>14, <2>1, OrbExitConstants DEF StopClaim, Shape, Sellers, wires
<1>15. CASE StopBind
  BY <1>15, OrbExitConstants DEF StopBind, Shape, Goto, wires, Actors, Places, Sellers
<1>16. CASE StopDispatch
  BY <1>16, OrbExitConstants DEF StopDispatch, Shape, Goto, wires, Actors, Places, Sellers
<1>17. CASE StopReleased
  BY <1>17, OrbExitConstants DEF StopReleased, Shape, Goto, wires, Actors, Places, Sellers
<1>18. CASE StopJournal
  BY <1>18, OrbExitConstants DEF StopJournal, Shape, Goto, Attention, wires, Actors, Places, Sellers
<1>19. CASE StopSubmit
  BY <1>19, OrbExitConstants DEF StopSubmit, Shape, Goto, wires, Actors, Places, Sellers
<1>20. CASE StopValidate
  BY <1>20, OrbExitConstants DEF StopValidate, Shape, Owned, Goto, Attention, wires, Actors,
      Places, Sellers
<1>21. CASE SyncOrders
  BY <1>21, OrbExitConstants DEF SyncOrders, Shape, BookSale, wires
<1>22. CASE StopTargets
  BY <1>22, OrbExitConstants DEF StopTargets, Shape, Goto, Owned, wires, Actors, Places, Sellers
<1>23. CASE Crash
  <2>1. pc' \in [Actors -> Places]
    BY <1>23 DEF Crash, Shape, Goto, Places, Actors, Sellers
  <2> QED  BY <1>23, <2>1, OrbExitConstants DEF Crash, Shape, Owned, Phases, wires, durable
<1>24. ASSUME NEW b \in Pairs, PairFills(b)  PROVE Shape'  BY <1>24, ShapePairFills
<1>25. CASE SaleFills  BY <1>25, ShapeSaleFills
<1>26. ASSUME NEW a \in Actors, Release(a)  PROVE Shape'  BY <1>26, ShapeRelease
<1>27. ASSUME NEW a \in Actors, Cancel(a)  PROVE Shape'  BY <1>27, ShapeCancel
<1>28. ASSUME NEW a \in Actors, Probe(a)  PROVE Shape'  BY <1>28, ShapeProbe
<1>29. CASE ReconPrepare  BY <1>29, ShapeReconPrepare, OrbExitConstants DEF PairInv
<1>30. CASE ReconUnsent  BY <1>30, ShapeReconUnsent
<1>31. CASE ReconPost  BY <1>31, ShapeReconPost
<1>32. ASSUME NEW s \in Sellers, Verify(s)  PROVE Shape'  BY <1>32, ShapeVerify
<1>33. CASE StopFlat  BY <1>33, ShapeStopFlat
<1>34. CASE StopKnown  BY <1>34, ShapeStopKnown
<1>35. CASE ReconRead
  <2>1. Sum(booked) \in Int
    BY Quantities, FiniteOrders, TotalInt DEF Sum, Shape, Orders
  <2> QED  BY <1>35, <2>1, ShapeReconRead
<1> QED
  BY <1>1, <1>2, <1>3, <1>4, <1>5, <1>6, <1>7, <1>8, <1>9, <1>10, <1>11, <1>12, <1>13,
     <1>14, <1>15, <1>16, <1>17, <1>18, <1>19, <1>20, <1>21, <1>22, <1>23, <1>24, <1>25,
     <1>26, <1>27, <1>28, <1>29, <1>30, <1>31, <1>32, <1>33, <1>34, <1>35
  DEF Step, Broker, Releasing, Reconciler, StopDriver, Closer

\* The shape, and below the other invariants, at the start.
LEMMA ShapeStart == ASSUME Init PROVE Shape
<1>1. pair \in [Pairs -> PairOrder]
  <2>1. \A b \in Pairs : pair[b] \in PairOrder  BY OrbExitConstants DEF Init, PairOrder
  <2> QED  BY <2>1 DEF Init
<1>2. sale \in SaleOrder  BY DEF Init, SaleOrder
<1>3. prot \in [phase : Phases, base : 0..MaxPairs, qty : Int, latched : BOOLEAN,
               proof : {"none", "receipts", "unsent"}, child : BOOLEAN]
  <2>1. (IF scene.attached THEN "working" ELSE "none") \in Phases  BY DEF Phases, LivePhases
  <2>2. (IF scene.attached THEN 1 ELSE 0) \in 0..MaxPairs /\ (IF scene.attached THEN Qty ELSE 0) \in Int
    BY OrbExitConstants
  <2> QED  BY <2>1, <2>2 DEF Init
<1>4. plan \in [q : Int, base : 0..MaxPairs, phase : Phases]  BY OrbExitConstants DEF Init, Phases
<1>5. claim.bound \in 0..MaxPairs /\ crashes \in 0..MaxCrash  BY OrbExitConstants DEF Init
<1> QED
  BY <1>1, <1>2, <1>3, <1>4, <1>5, OrbExitConstants
    DEF Init, Shape, Places, Actors, PairOrder, SaleOrder

------------------------------------------------------------------------------
(* The pair and its record.                                                 *)

\* One coroutine moves, the others stay.
LEMMA Goes ==
  ASSUME Shape, NEW a \in Actors, NEW p, Goto(a, p)
  PROVE  pc'[a] = p /\ \A t \in Actors : t # a => pc'[t] = pc[t]
BY DEF Goto, Shape

LEMMA ReconGoes ==
  ASSUME Shape, NEW p, Goto(Recon, p)
  PROVE  \A s \in Sellers : pc'[s] = pc[s]
BY DEF Goto, Shape, Actors, Sellers, Recon

\* A step that leaves the reconciler and the pair alone keeps what it planned.
LEMMA PlannedAside ==
  ASSUME Planned, pc'[Recon] = pc[Recon], UNCHANGED <<pair, prot, plan, scene>>
  PROVE  Planned'
BY DEF Planned

\* A closer's move is not the reconciler's.
LEMMA CloserMoves ==
  ASSUME Shape, NEW s \in Sellers, NEW p, Goto(s, p)
  PROVE  pc'[Recon] = pc[Recon]
BY DEF Goto, Shape, Actors, Sellers, Recon

\* The pair and its record through each action that changes one of them.
LEMMA PairCancel ==
  ASSUME OrbExitConstants, Shape, PairInv, NEW a \in Actors, Cancel(a), scene' = scene
  PROVE  PairInv'
<1>1. \A b \in Pairs : /\ pair'[b].st \in {pair[b].st, "gone"}
                       /\ pair[b].st = "none" => pair'[b].st = "none"
  BY DEF Cancel, Shape
<1>2. pc'[Recon] = pc[Recon] \/ pc'[Recon] = "probe"  BY DEF Cancel, Goto, Shape, Actors
<1>3. UNCHANGED <<prot, plan, scene>>  BY DEF Cancel, durable
<1>4. Recorded'  BY <1>1, <1>3 DEF PairInv, Recorded
<1>5. prot.base = plan.base + 1 => prot.base \in Pairs  BY OrbExitConstants DEF Shape, Pairs
<1>6. Planned'  BY <1>1, <1>2, <1>3, <1>5 DEF PairInv, Planned
<1> QED  BY <1>4, <1>6 DEF PairInv

LEMMA PairProbe ==
  ASSUME OrbExitConstants, Shape, PairInv, NEW a \in Actors, Probe(a), scene' = scene
  PROVE  PairInv'
<1>1. UNCHANGED <<pair, plan, scene>>  BY DEF Probe, wires
<1>2. /\ prot'.base = prot.base
      /\ \/ prot'.phase = prot.phase
         \/ prot'.phase = "released" /\ prot.base # 0 /\ pair[prot.base].st = "gone"
  BY DEF Probe, Shape, Bookable
<1>3. pc'[Recon] = pc[Recon] \/ pc'[Recon] = "idle"
  <2>1. \/ \E p : Goto(a, p) /\ a # Recon
        \/ Goto(a, "idle")
    <3>1. CASE a = Recon
      <4>1. Goto(a, "idle")  BY <3>1 DEF Probe, Released, Unanswerable, Goto, Recon
      <4> QED  BY <4>1
    <3>2. CASE a # Recon
      <4>1. \E p : Goto(a, p)  BY <3>2 DEF Probe, Released, Unanswerable, Attention
      <4> QED  BY <3>2, <4>1
    <3> QED  BY <3>1, <3>2
  <2> QED  BY <2>1 DEF Goto, Shape, Actors
<1>4. Recorded'  BY <1>1, <1>2 DEF PairInv, Recorded
<1>6. Planned'  BY <1>1, <1>2, <1>3 DEF PairInv, Planned
<1> QED  BY <1>4, <1>6 DEF PairInv

LEMMA PairReconRead ==
  ASSUME OrbExitConstants, Shape, PairInv, ReconRead, scene' = scene
  PROVE  PairInv'
<1>1. UNCHANGED <<pair, scene>>  BY DEF ReconRead, wires
<1>2. prot'.base = prot.base /\ prot'.phase = prot.phase  BY DEF ReconRead, Shape
<1>4. Recorded'  BY <1>1, <1>2 DEF PairInv, Recorded
<1>5. /\ plan'.base = prot.base /\ plan'.phase = prot.phase
      /\ \/ pc'[Recon] \in {"idle", "release"}
         \/ pc'[Recon] = "seen" /\ prot.phase \in LivePhases
         \/ pc'[Recon] = "plan" /\ prot.base < scene.pairs /\ prot.phase \in {"none", "released"}
  BY DEF ReconRead, Goto, Shape, Actors
<1>6. Planned'  BY <1>1, <1>2, <1>5 DEF PairInv, Recorded, Planned, LivePhases
<1> QED  BY <1>4, <1>6 DEF PairInv

LEMMA PairReconPrepare ==
  ASSUME OrbExitConstants, Shape, PairInv, ReconPrepare, scene' = scene
  PROVE  PairInv'
<1>1. UNCHANGED <<pair, plan, scene>>  BY DEF ReconPrepare, wires
<1>2. CASE pc'[Recon] = "idle" /\ prot' = prot
  BY <1>1, <1>2 DEF PairInv, Recorded, Planned
<1>3. CASE /\ pc'[Recon] = "prewire" /\ prot.base = plan.base /\ prot.phase = plan.phase
           /\ prot'.phase = "submitting" /\ prot'.base = plan.base + 1
  <2>1. plan.base + 1 \in Pairs /\ prot.base \in 0..MaxPairs
    <3>1. pc[Recon] = "plan" /\ plan.base < scene.pairs  BY DEF PairInv, Planned, ReconPrepare
    <3>2. scene.pairs \in 1..MaxPairs  BY OrbExitConstants DEF Shape, Scene
    <3>3. plan.base \in 0..MaxPairs /\ prot.base \in 0..MaxPairs  BY DEF Shape
    <3> QED  BY <3>1, <3>2, <3>3, OrbExitConstants DEF Pairs
  <2>2. prot.phase \in {"none", "released"}  BY <1>3 DEF PairInv, Planned, ReconPrepare
  <2>3. \A b \in Pairs : pair[b].st # "working"  BY <2>2 DEF PairInv, Recorded
  <2>4. pair[plan.base + 1].st = "none"  BY <2>1, <1>3 DEF PairInv, Recorded
  <2>5. Recorded'  BY <1>1, <1>3, <2>1, <2>3 DEF PairInv, Recorded, Pairs
  <2>6. Planned'  BY <1>1, <1>3, <2>4 DEF Planned
  <2> QED  BY <2>5, <2>6 DEF PairInv
<1> QED  BY <1>2, <1>3 DEF ReconPrepare, Goto, Shape, Actors

LEMMA PairReconPost ==
  ASSUME OrbExitConstants, Shape, PairInv, ReconPost, scene' = scene
  PROVE  PairInv'
<1>1. UNCHANGED <<prot, plan, scene>>  BY DEF ReconPost, durable
<1>2. prot.base = plan.base + 1 /\ prot.phase = "submitting" /\ prot.base \in Pairs
  BY OrbExitConstants DEF ReconPost, PairInv, Planned, Shape, Pairs
<1>3. \A b \in Pairs : b # prot.base => pair'[b].st = pair[b].st  BY <1>2 DEF ReconPost, Shape
<1>4. pc'[Recon] \in {"idle", "accepted"}  BY DEF ReconPost, Goto, Shape, Actors
<1>5. Recorded'  BY <1>1, <1>2, <1>3, OrbExitConstants DEF PairInv, Recorded, Pairs
<1>6. Planned'  BY <1>1, <1>2, <1>4 DEF Planned
<1> QED  BY <1>5, <1>6 DEF PairInv

LEMMA PairVerify ==
  ASSUME OrbExitConstants, Shape, PairInv, NEW s \in Sellers, Verify(s), scene' = scene
  PROVE  PairInv'
<1>1. UNCHANGED <<pair, plan, scene>>  BY DEF Verify, wires
<1>2. prot'.base = prot.base /\ prot'.phase = prot.phase
  <2>1. prot' = prot \/ \E c : prot' = [prot EXCEPT !.child = c]  BY DEF Verify
  <2> QED  BY <2>1 DEF Shape
<1>3. \E p : Goto(s, p)  BY DEF Verify, Attention, Finish
<1>4. pc'[Recon] = pc[Recon]  BY <1>3, CloserMoves
<1>5. Recorded'  BY <1>1, <1>2 DEF PairInv, Recorded
<1>6. Planned'  BY <1>1, <1>2, <1>4 DEF PairInv, Planned
<1> QED  BY <1>5, <1>6 DEF PairInv

LEMMA PairStopFlat ==
  ASSUME OrbExitConstants, Shape, PairInv, StopFlat, scene' = scene
  PROVE  PairInv'
<1>1. UNCHANGED <<pair, plan, scene>>  BY DEF StopFlat, wires
<1>2. /\ prot'.base = prot.base
      /\ \/ prot'.phase = prot.phase
         \/ prot'.phase = "released" /\ prot.base # 0 /\ pair[prot.base].st = "gone"
  <2>1. prot' = prot \/ /\ prot' = [prot EXCEPT !.phase = "released", !.proof = "receipts", !.child = FALSE]
                        /\ prot.base # 0 /\ pair[prot.base].st = "gone"
    BY DEF StopFlat, FlatProven
  <2> QED  BY <2>1 DEF Shape
<1>3. "stop" \in Sellers /\ Goto("stop", "known")  BY DEF StopFlat, Sellers
<1>4. pc'[Recon] = pc[Recon]  BY <1>3, CloserMoves
<1>5. Recorded'  BY <1>1, <1>2 DEF PairInv, Recorded
<1>6. Planned'  BY <1>1, <1>2, <1>4 DEF PairInv, Planned
<1> QED  BY <1>5, <1>6 DEF PairInv

LEMMA PairAside ==
  ASSUME PairInv, UNCHANGED <<pair, prot, plan, scene>>, pc'[Recon] = pc[Recon]
  PROVE  PairInv'
BY PlannedAside DEF PairInv, Recorded

\* A fill or the end of a pair at the broker.
LEMMA PairTraded ==
  ASSUME Shape, PairInv, NEW b \in Pairs, PairFills(b) \/ PairEnds(b), scene' = scene
  PROVE  PairInv'
<1>1. pair[b].st = "working" /\ UNCHANGED <<prot, plan, scene, pc>>
  BY DEF PairFills, PairEnds, durable
<1>2. \A c \in Pairs \ {b} : pair'[c] = pair[c]  BY DEF PairFills, PairEnds, Shape
<1>3. pair'[b].st \in {"working", "gone"}
  <2>1. pair[b] \in PairOrder  BY DEF Shape, PairOrder
  <2>2. pair'[b] = Filled(pair[b]) \/ pair'[b].st = "gone"
    BY DEF PairFills, PairEnds, Shape
  <2>3. Filled(pair[b]).st \in {"working", "gone"}  BY <2>1, FilledIs
  <2> QED  BY <2>2, <2>3
<1>4. Recorded'  BY <1>1, <1>2, <1>3 DEF PairInv, Recorded
<1>5. pc[Recon] \in {"prewire", "post"} => prot.base \in Pairs /\ prot.base # b
  <2>1. prot.base \in 0..MaxPairs /\ plan.base \in 0..MaxPairs  BY DEF Shape
  <2>2. prot.base = plan.base + 1 => prot.base \in Pairs  BY <2>1, OrbExitConstants DEF Pairs
  <2> QED  BY <1>1, <2>2 DEF PairInv, Planned
<1>6. Planned'  BY <1>1, <1>2, <1>5 DEF PairInv, Planned
<1> QED  BY <1>4, <1>6 DEF PairInv

LEMMA PairRelease ==
  ASSUME Shape, PairInv, NEW a \in Actors, Release(a), scene' = scene
  PROVE  PairInv'
<1>1. UNCHANGED <<pair, plan, scene>>  BY DEF Release, wires
<1>2. prot'.base = prot.base /\ prot'.phase = prot.phase  BY DEF Release, Shape
<1>3. pc'[Recon] = pc[Recon] \/ pc'[Recon] \in {"idle", "probe", "cancel"}
  <2>1. CASE a = Recon
    <3>1. \E p \in {"idle", "probe", "cancel"} : Goto(a, p)
      BY <2>1 DEF Release, Released, Recon
    <3> QED  BY <2>1, <3>1, Goes
  <2>2. CASE a # Recon
    <3>1. \E p : Goto(a, p)  BY <2>2 DEF Release, Released
    <3> QED  BY <2>2, <3>1, Goes DEF Actors
  <2> QED  BY <2>1, <2>2
<1>4. Recorded'  BY <1>1, <1>2 DEF PairInv, Recorded
<1>5. Planned'  BY <1>1, <1>2, <1>3 DEF PairInv, Planned
<1> QED  BY <1>4, <1>5 DEF PairInv

\* The reconciler's other steps mark the pair it planned.
LEMMA PairMarks ==
  ASSUME Shape, PairInv, ReconSeen \/ ReconUnsent \/ ReconPrewire \/ ReconAccepted, scene' = scene
  PROVE  PairInv'
<1>1. UNCHANGED <<pair, plan, scene>> /\ prot'.base = prot.base
  BY DEF ReconSeen, ReconUnsent, ReconPrewire, ReconAccepted, Phased, wires, durable, Shape
<1>2. \E p \in {"idle", "post"} : Goto(Recon, p)
  BY DEF ReconSeen, ReconUnsent, ReconPrewire, ReconAccepted
<1>3. pc'[Recon] \in {"idle", "post"}  BY <1>2, Goes DEF Actors
<1>4. pc'[Recon] = "post" => prot' = prot /\ pc[Recon] = "prewire" /\ prot.base = plan.base + 1
  <2>1. CASE ReconPrewire  BY <2>1 DEF ReconPrewire, durable, PairInv, Planned
  <2>2. CASE ReconSeen \/ ReconUnsent \/ ReconAccepted
    <3>1. Goto(Recon, "idle")  BY <2>2 DEF ReconSeen, ReconUnsent, ReconAccepted
    <3> QED  BY <3>1, Goes DEF Actors
  <2> QED  BY <2>1, <2>2
<1>5. \/ prot'.phase = prot.phase
      \/ prot'.phase \in {"working", "accepted"} /\ prot.base # 0
      \/ prot'.phase = "released" /\ prot.base # 0 /\ pair[prot.base].st = "none"
  <2>1. CASE ReconSeen
    BY <2>1 DEF ReconSeen, Phased, PairInv, Planned, Shape
  <2>2. CASE ReconAccepted
    <3>1. prot.base # 0  BY <2>2, OrbExitConstants DEF ReconAccepted, PairInv, Planned, Shape
    <3> QED  BY <2>2, <3>1 DEF ReconAccepted, Phased, Shape
  <2>3. CASE ReconUnsent
    <3>1. prot.base # 0 /\ pair[prot.base].st = "none"
      BY <2>3, OrbExitConstants DEF ReconUnsent, PairInv, Planned, Shape
    <3> QED  BY <2>3, <3>1 DEF ReconUnsent, Shape
  <2>4. CASE ReconPrewire  BY <2>4 DEF ReconPrewire, durable
  <2> QED  BY <2>1, <2>2, <2>3, <2>4
<1>6. Recorded'  BY <1>1, <1>5 DEF PairInv, Recorded
<1>7. Planned'  BY <1>1, <1>3, <1>4 DEF PairInv, Planned
<1> QED  BY <1>6, <1>7 DEF PairInv

\* What is at the broker is recorded, and what is planned is the record's, through every step.
LEMMA PairStep ==
  ASSUME Shape, PairInv, Step, scene' = scene
  PROVE  PairInv'
<1>1. ASSUME NEW b \in Pairs, PairFills(b) \/ PairEnds(b)  PROVE PairInv'
  BY <1>1, PairTraded
<1>2. CASE SaleFills \/ SaleEnds \/ SyncOrders
  <2>1. UNCHANGED <<pair, prot, plan, pc>>
    BY <1>2 DEF SaleFills, SaleEnds, SyncOrders, wires, durable
  <2> QED  BY <2>1, PairAside
<1>3. ASSUME NEW a \in Actors, Release(a) \/ Cancel(a) \/ Probe(a)  PROVE PairInv'
  BY <1>3, PairRelease, PairCancel, PairProbe, OrbExitConstants
<1>4. CASE Reconciler
  BY <1>4, PairReconRead, PairReconPrepare, PairReconPost, PairMarks, OrbExitConstants
  DEF Reconciler
<1>5. ASSUME NEW s \in Sellers,
             (s \in Normal /\ Claim(s)) \/ Enter(s) \/ Size(s) \/ Prepare(s) \/ Post(s)
               \/ Answer(s) \/ Fail(s)
      PROVE  PairInv'
  <2>1. UNCHANGED <<pair, prot, plan>>
    BY <1>5 DEF Claim, Enter, Size, Prepare, Post, Answer, Fail, wires, durable
  <2>2. \E p : Goto(s, p)
    BY <1>5 DEF Claim, Enter, Size, Prepare, Post, Answer, Fail, Attention, Finish
  <2>3. pc'[Recon] = pc[Recon]  BY <2>2, CloserMoves
  <2> QED  BY <2>1, <2>3, PairAside
<1>6. ASSUME NEW s \in Sellers, Verify(s)  PROVE PairInv'
  BY <1>6, PairVerify, OrbExitConstants
<1>7. CASE StopDriver
  <2>1. CASE StopFlat  BY <2>1, PairStopFlat, OrbExitConstants
  <2>2. CASE \/ StopKnown \/ StopTargets \/ StopEnter \/ StopClaim \/ StopBind \/ StopDispatch
             \/ StopReleased \/ StopJournal \/ StopSubmit \/ StopValidate
    <3>1. UNCHANGED <<pair, prot, plan>>
      BY <2>2 DEF StopKnown, StopTargets, StopEnter, StopClaim, StopBind, StopDispatch,
                  StopReleased, StopJournal, StopSubmit, StopValidate, wires, durable
    <3>2. "stop" \in Sellers /\ \E p : Goto("stop", p)
      BY <2>2 DEF StopKnown, StopTargets, StopEnter, StopClaim, StopBind, StopDispatch,
                  StopReleased, StopJournal, StopSubmit, StopValidate, Attention, Sellers
    <3>3. pc'[Recon] = pc[Recon]  BY <3>2, CloserMoves
    <3> QED  BY <3>1, <3>3, PairAside
  <2> QED  BY <1>7, <2>1, <2>2 DEF StopDriver
<1>8. CASE Crash
  <2>1. pc'[Recon] = "idle" /\ UNCHANGED <<pair, prot>>
    BY <1>8 DEF Crash, Actors, wires, durable
  <2> QED  BY <2>1 DEF PairInv, Recorded, Planned
<1>9. Normal \subseteq Sellers  BY DEF Normal
<1> QED
  BY <1>1, <1>2, <1>3, <1>4, <1>5, <1>6, <1>7, <1>8, <1>9 DEF Step, Broker, Releasing, Closer

LEMMA PairStart == ASSUME Init PROVE PairInv
<1>1. \A b \in Pairs : pair[b].st = IF scene.attached /\ b = 1 THEN "working" ELSE "none"
  BY DEF Init
<1>2. prot.base = (IF scene.attached THEN 1 ELSE 0)
      /\ prot.phase = (IF scene.attached THEN "working" ELSE "none")
  BY DEF Init
<1>3. pc[Recon] = "idle"  BY DEF Init, Actors
<1> QED  BY <1>1, <1>2, <1>3 DEF PairInv, Recorded, Planned, Pairs

------------------------------------------------------------------------------
(* The claim and the sell.                                                  *)

\* A step that leaves the closers, the claim, the sell and its row alone keeps ClaimInv.
LEMMA ClaimAside ==
  ASSUME ClaimInv, \A s \in Sellers : pc'[s] = pc[s], UNCHANGED <<claim, sale, row, size>>
  PROVE  ClaimInv'
<1>1. Owner'  BY DEF ClaimInv, Owner, Early, Late
<1>2. Fenced'  BY DEF ClaimInv, Fenced, Early, Late
<1>3. Rowed'  BY DEF ClaimInv, Rowed, SaleOver
<1> QED  BY <1>1, <1>2, <1>3 DEF ClaimInv

\* The reconciler owns no claim and no sell.
LEMMA ClaimReconciler == ASSUME Shape, ClaimInv, Reconciler, scene' = scene PROVE ClaimInv'
<1>1. \E p : pc' = pc \/ Goto(Recon, p)
  BY DEF Reconciler, ReconRead, ReconSeen, ReconPrepare, ReconUnsent, ReconPrewire, ReconPost,
     ReconAccepted
<1>2. \A s \in Sellers : pc'[s] = pc[s]  BY <1>1, ReconGoes
<1>3. UNCHANGED <<claim, sale, row, size>>
  BY DEF Reconciler, ReconRead, ReconSeen, ReconPrepare, ReconUnsent, ReconPrewire, ReconPost,
     ReconAccepted, wires, durable
<1> QED  BY <1>2, <1>3, ClaimAside

\* One coroutine moves on and the sell stays.
LEMMA ClaimMoved ==
  ASSUME Shape, ClaimInv, NEW a \in Actors, NEW p, Goto(a, p), UNCHANGED <<sale, row, size>>,
         claim'.owner = claim.owner, claim.phase # "none" => claim'.phase # "none",
         a # Recon => \/ p \notin Early \cup Late \cup {"posted"}
                      \/ p \in Early /\ pc[a] \in Early
                      \/ p \in Late /\ pc[a] \in Late
  PROVE  ClaimInv'
<1>1. pc'[a] = p /\ \A t \in Actors : t # a => pc'[t] = pc[t]  BY Goes
<1>2. \A t \in Sellers : \/ pc'[t] \notin Early \cup Late \cup {"posted"}
                         \/ pc'[t] \in Early /\ pc[t] \in Early
                         \/ pc'[t] \in Late /\ pc[t] \in Late
                         \/ pc'[t] = pc[t]
  BY <1>1 DEF Actors, Sellers, Recon
<1>3. Owner'
  <2>1. \A t \in Sellers :
          pc'[t] \in Early \cup Late \cup {"posted"} => claim'.owner = t /\ claim'.phase # "none"
    BY <1>2 DEF ClaimInv, Owner
  <2> QED  BY <2>1 DEF Owner, Early, Late
<1>4. Fenced'
  <2>1. \A t \in Sellers :
          /\ pc'[t] \in Early => sale'.st = "none" /\ row'.st = "none"
          /\ pc'[t] \in Late => sale'.st = "none" /\ row' = [st |-> "pending", qty |-> size'[t]]
          /\ pc'[t] = "posted" => sale'.st # "none"
    BY <1>2 DEF ClaimInv, Fenced, Early, Late
  <2> QED  BY <2>1 DEF Fenced, Early, Late
<1>5. Rowed'  BY DEF ClaimInv, Rowed, SaleOver
<1> QED  BY <1>3, <1>4, <1>5 DEF ClaimInv

\* A new owner comes while there is no claim.
LEMMA ClaimTaken ==
  ASSUME Shape, ClaimInv, claim.phase = "none", NEW s \in Sellers, NEW p \in Early, Goto(s, p),
         claim'.phase = "checking", claim'.owner = s, UNCHANGED <<sale, row, size>>
  PROVE  ClaimInv'
<1>1. pc'[s] = p /\ \A t \in Actors : t # s => pc'[t] = pc[t]  BY Goes DEF Actors
<1>2. \A t \in Sellers : t # s => pc'[t] \notin Early \cup Late \cup {"posted"}
  BY <1>1 DEF ClaimInv, Owner, Actors
<1>3. sale.st = "none" /\ row.st = "none"  BY DEF ClaimInv, Rowed
<1>4. Owner'
  <2>1. \A t \in Sellers : pc'[t] \in Early \cup Late \cup {"posted"} => t = s  BY <1>2
  <2> QED  BY <2>1 DEF Owner, Early, Late
<1>5. Fenced'
  <2>1. \A t \in Sellers : pc'[t] \notin Late \cup {"posted"}  BY <1>1, <1>2 DEF Early, Late
  <2> QED  BY <1>3, <2>1 DEF Fenced, Early, Late
<1>6. Rowed'  BY <1>3 DEF ClaimInv, Rowed, SaleOver
<1> QED  BY <1>4, <1>5, <1>6 DEF ClaimInv

\* The claim stays while the sell fills or ends.
LEMMA ClaimLeft ==
  ASSUME Shape, ClaimInv, \A s \in Sellers : pc'[s] = pc[s] \/ pc'[s] = "idle", UNCHANGED <<claim, row>>,
         \A s \in Sellers : pc'[s] = pc[s] => size'[s] = size[s],
         sale'.qty = sale.qty, sale'.st = "none" <=> sale.st = "none",
         sale'.st = "none" => sale'.sold = sale.sold, SaleOver => SaleOver',
         sale'.st = "working" => sale.st = "working"
  PROVE  ClaimInv'
<1>1. Owner'  BY DEF ClaimInv, Owner, Early, Late
<1>2. Fenced'  BY DEF ClaimInv, Fenced, Early, Late
<1>3. Rowed'  BY DEF ClaimInv, Rowed
<1> QED  BY <1>1, <1>2, <1>3 DEF ClaimInv

\* Where a closer owns nothing.
LEMMA Unclaimed ==
  \A p \in {"idle", "claiming", "known", "targets", "target"} :
    p \notin Early \cup Late \cup {"posted"}
BY DEF Early, Late

\* One owner of the claim, and no sell without its row, through every step.
LEMMA ClaimStep == ASSUME Shape, Shape', ClaimInv, Step, scene' = scene PROVE ClaimInv'
<1>0. \A s \in Sellers : s \in Actors /\ s # Recon  BY DEF Actors, Sellers, Recon
<1>1. CASE Broker \/ Crash
  <2>1. CASE \E b \in Pairs : PairFills(b) \/ PairEnds(b)
    <3>1. UNCHANGED <<sale, claim, row, size, pc>>  BY <2>1 DEF PairFills, PairEnds, durable
    <3> QED  BY <3>1, ClaimLeft DEF SaleOver
  <2>2. CASE SaleFills
    <3>1. sale \in SaleOrder /\ sale' = Filled(sale) /\ sale.st = "working"
      BY <2>2 DEF SaleFills, Shape, SaleOrder
    <3>2. sale'.qty = sale.qty /\ sale'.st \in {"gone", "working"}  BY <3>1, FilledIs
    <3> QED  BY <2>2, <3>1, <3>2, ClaimLeft DEF SaleFills, durable, SaleOver
  <2>3. CASE SaleEnds
    <3>1. sale'.qty = sale.qty /\ sale'.st = "gone" /\ sale.st = "working"
      BY <2>3 DEF SaleEnds, Shape
    <3> QED  BY <2>3, <3>1, ClaimLeft DEF SaleEnds, durable, SaleOver
  <2>4. CASE Crash
    <3>1. \A s \in Sellers : pc'[s] = "idle"  BY <2>4 DEF Crash, Actors
    <3>2. UNCHANGED <<claim, row, sale>>  BY <2>4 DEF Crash, wires, durable
    <3> QED  BY <3>1, <3>2 DEF ClaimInv, Owner, Fenced, Rowed, Early, Late, SaleOver
  <2> QED  BY <1>1, <2>1, <2>2, <2>3, <2>4 DEF Broker
<1>2. CASE Reconciler  BY <1>2, ClaimReconciler
<1>3. ASSUME NEW a \in Actors, Release(a) \/ Cancel(a) \/ Probe(a)  PROVE ClaimInv'
  <2>1. UNCHANGED <<sale, row, size>>  BY <1>3 DEF Release, Cancel, Probe, wires, durable
  <2>2. claim'.owner = claim.owner /\ (claim.phase # "none" => claim'.phase # "none")
    BY <1>3 DEF Release, Cancel, Probe, Released, Unanswerable, Attention, durable, Shape
  <2>3. PICK p \in Early \cup {"idle"} : Goto(a, p)
    <3>1. CASE a = Recon
      <4>1. \E p \in {"idle", "probe", "cancel"} : Goto(Recon, p)
        BY <1>3, <3>1 DEF Release, Released, Cancel, Probe, Unanswerable, Recon
      <4> QED  BY <3>1, <4>1 DEF Early
    <3>2. CASE a # Recon
      <4>1. \E p \in {"idle", "probe", "cancel", "proved", "released"} : Goto(a, p)
        BY <1>3, <3>2 DEF Release, Released, Cancel, Probe, Unanswerable, Attention
      <4> QED  BY <4>1 DEF Early
    <3> QED  BY <3>1, <3>2
  <2>4. pc[a] \in Early  BY <1>3 DEF Release, Cancel, Probe, Early
  <2> QED  BY <2>1, <2>2, <2>3, <2>4, Unclaimed, ClaimMoved
<1>4. ASSUME NEW s \in Normal, Claim(s)  PROVE ClaimInv'
  <2>1. s \in Sellers /\ "claimed" \in Early  BY DEF Normal, Early
  <2>2. claim.phase = "none" /\ claim'.phase = "checking" /\ claim'.owner = s /\ Goto(s, "claimed")
        /\ UNCHANGED <<sale, row, size>>
    BY <1>4 DEF Claim, wires
  <2> QED  BY <2>1, <2>2, ClaimTaken
<1>5. ASSUME NEW s \in Sellers, Enter(s) \/ Verify(s) \/ Fail(s)  PROVE ClaimInv'
  <2>1. UNCHANGED <<sale, row, size>>  BY <1>5 DEF Enter, Verify, Fail, wires, durable
  <2>2. claim'.owner = claim.owner /\ (claim.phase # "none" => claim'.phase # "none")
    BY <1>5 DEF Enter, Verify, Fail, Attention, Finish, durable, Shape
  <2>3. CASE Fail(s)
    <3>1. Goto(s, "idle")  BY <2>3 DEF Fail, Attention
    <3> QED  BY <1>0, <2>1, <2>2, <3>1, Unclaimed, ClaimMoved
  <2>4. CASE Enter(s) \/ Verify(s)
    <3>1. PICK p \in {"idle", "entered", "binding", "release"} : Goto(s, p)
      BY <2>4 DEF Enter, Verify, Attention, Finish
    <3>2. pc[s] \in Early /\ (p = "idle" \/ p \in Early)  BY <2>4 DEF Enter, Verify, Early
    <3> QED  BY <1>0, <2>1, <2>2, <3>1, <3>2, Unclaimed, ClaimMoved
  <2> QED  BY <1>5, <2>3, <2>4
<1>6. ASSUME NEW s \in Sellers, Size(s) \/ Prepare(s) \/ Post(s) \/ Answer(s)  PROVE ClaimInv'
  <2> DEFINE q == pc'[s]
  <2>1. \E p : Goto(s, p)  BY <1>6 DEF Size, Prepare, Post, Answer, Attention, Finish
  <2>2. \A t \in Sellers : t # s => pc'[t] = pc[t]  BY <1>0, <2>1, Goes
  <2>3. pc[s] \in {"released", "sized", "wire", "posted"}  BY <1>6 DEF Size, Prepare, Post, Answer
  <2>4. claim.owner = s /\ claim.phase # "none"  BY <2>3 DEF ClaimInv, Owner, Early, Late
  <2>5. \A t \in Sellers : t # s => pc'[t] \notin Early \cup Late \cup {"posted"}
    BY <2>2, <2>4 DEF ClaimInv, Owner
  <2>6. claim'.owner = s /\ claim'.phase # "none"
    BY <1>6, <2>4 DEF Size, Prepare, Post, Answer, Attention, Finish, durable, Shape
  <2>7. Owner'
    <3>1. \A t \in Sellers : pc'[t] \in Early \cup Late \cup {"posted"} => t = s  BY <2>5
    <3> QED  BY <2>6, <3>1 DEF Owner, Early, Late
  <2>8. CASE Size(s)
    <3>1. q \in {"idle", "sized"}  BY <1>0, <2>8, Goes DEF Size, Finish
    <3>2. UNCHANGED <<sale, row>> /\ sale.st = "none" /\ row.st = "none"
      BY <2>8 DEF Size, wires, ClaimInv, Fenced, Early
    <3>3. Fenced'  BY <2>5, <3>1, <3>2 DEF Fenced, Early, Late
    <3>4. Rowed'  BY <2>6, <3>2 DEF ClaimInv, Rowed, SaleOver
    <3> QED  BY <2>7, <3>3, <3>4 DEF ClaimInv
  <2>9. CASE Prepare(s)
    <3>1. sale' = sale /\ sale.st = "none" /\ row.st = "none" /\ size' = size
      BY <2>9 DEF Prepare, wires, ClaimInv, Fenced, Early
    <3>2. \/ q = "idle" /\ row' = row
          \/ q \in {"journal", "wire"} /\ row' = [st |-> "pending", qty |-> size[s]]
      BY <1>0, <2>9, Goes DEF Prepare, Attention
    <3>3. Fenced'  BY <2>5, <3>1, <3>2 DEF Fenced, Early, Late
    <3>4. Rowed'  BY <2>6, <3>1, <3>2 DEF ClaimInv, Rowed, SaleOver
    <3> QED  BY <2>7, <3>3, <3>4 DEF ClaimInv
  <2>10. CASE Post(s)
    <3>1. sale.st = "none" /\ sale.qty = 0 /\ row = [st |-> "pending", qty |-> size[s]] /\ row' = row
      BY <2>10 DEF Post, durable, ClaimInv, Fenced, Rowed, Late
    <3>2. /\ sale'.st \in {"working", "refused"} /\ (sale'.st = "working" => sale'.qty = size[s])
      BY <2>10, <3>1 DEF Post, Shape
    <3>3. q = "posted"  BY <1>0, <2>10, Goes DEF Post
    <3>4. Fenced'  BY <2>5, <3>2, <3>3 DEF Fenced, Early, Late
    <3>5. Rowed'  BY <2>6, <3>1, <3>2 DEF ClaimInv, Rowed, SaleOver
    <3> QED  BY <2>7, <3>4, <3>5 DEF ClaimInv
  <2>11. CASE Answer(s)
    <3>1. sale' = sale /\ sale.st # "none" /\ q = "idle"
      BY <1>0, <2>11, Goes DEF Answer, Attention, Finish, wires, ClaimInv, Fenced
    <3>2. row'.st = (IF SaleOver THEN "over" ELSE "open") /\ row'.qty = row.qty
      BY <2>11 DEF Answer, BookSale, Shape
    <3>3. Fenced'  BY <2>5, <3>1 DEF Fenced, Early, Late
    <3>4. Rowed'  BY <2>6, <3>1, <3>2 DEF ClaimInv, Rowed, SaleOver
    <3> QED  BY <2>7, <3>3, <3>4 DEF ClaimInv
  <2> QED  BY <1>6, <2>8, <2>9, <2>10, <2>11
<1>7. CASE SyncOrders
  <2>1. UNCHANGED <<sale, pc, size, claim>> /\ sale.st # "none"  BY <1>7 DEF SyncOrders, wires
  <2>2. row'.st = (IF SaleOver THEN "over" ELSE "open") /\ row'.qty = row.qty
    BY <1>7 DEF SyncOrders, BookSale, Shape
  <2> QED  BY <2>1, <2>2 DEF ClaimInv, Owner, Fenced, Rowed, Early, Late, SaleOver
<1>8. CASE StopDriver
  <2>0. "stop" \in Sellers /\ "stop" \in Actors /\ "stop" # Recon  BY DEF Actors, Sellers, Recon
  <2>1. CASE StopClaim
    <3>1. CASE claim.phase = "none"
      <4>1. /\ claim'.phase = "checking" /\ claim'.owner = "stop"
            /\ Goto("stop", "entered") /\ UNCHANGED <<sale, row, size>>
        BY <2>1, <3>1 DEF StopClaim, wires
      <4>2. "entered" \in Early  BY DEF Early
      <4> QED  BY <2>0, <3>1, <4>1, <4>2, ClaimTaken
    <3>2. CASE claim.phase # "none"
      <4>1. Goto("stop", "idle") /\ UNCHANGED <<sale, row, size, claim>>
        BY <2>1, <3>2 DEF StopClaim, wires
      <4> QED  BY <2>0, <4>1, Unclaimed, ClaimMoved
    <3> QED  BY <3>1, <3>2
  <2>2. CASE StopFlat \/ StopTargets \/ StopEnter
    <3>1. PICK p \in {"known", "targets", "target", "idle", "claiming"} : Goto("stop", p)
      BY <2>2 DEF StopFlat, StopTargets, StopEnter
    <3>2. UNCHANGED <<sale, row, size>>
      BY <2>2 DEF StopFlat, StopTargets, StopEnter, wires, durable
    <3>3. claim'.owner = claim.owner /\ (claim.phase # "none" => claim'.phase # "none")
      BY <2>2 DEF StopFlat, StopTargets, StopEnter, durable, Shape
    <3> QED  BY <2>0, <3>1, <3>2, <3>3, Unclaimed, ClaimMoved
  <2>3. CASE StopKnown
    <3>1. PICK p \in {"targets", "idle"} : Goto("stop", p)  BY <2>3 DEF StopKnown
    <3>2. UNCHANGED <<sale, size>>  BY <2>3 DEF StopKnown, wires
    <3>3. CASE UNCHANGED <<row, claim>>  BY <2>0, <3>1, <3>2, <3>3, Unclaimed, ClaimMoved
    <3>4. CASE /\ row.st \in {"open", "over"} /\ BookSale
               /\ claim' = [claim EXCEPT !.phase = Recovered(Qty - Sum(booked'))]
      <4>1. sale.st # "none"  BY <3>4 DEF ClaimInv, Rowed
      <4>2. row'.st = (IF SaleOver THEN "over" ELSE "open") /\ row'.qty = row.qty
        BY <3>4 DEF BookSale, Shape
      <4>3. claim'.owner = claim.owner /\ claim'.phase # "none"  BY <3>4 DEF Recovered, Shape
      <4>4. pc'["stop"] = p /\ \A t \in Sellers : t # "stop" => pc'[t] = pc[t]
        BY <2>0, <3>1, Goes DEF Actors
      <4>5. \A t \in Sellers : pc[t] \notin Early \cup Late  BY <4>1 DEF ClaimInv, Fenced
      <4>6. \A t \in Sellers :
              pc'[t] \in Early \cup Late \cup {"posted"} => pc'[t] = "posted" /\ pc[t] = "posted"
        BY <4>4, <4>5, Unclaimed
      <4>7. Owner'
        <5>1. \A t \in Sellers : pc'[t] \in Early \cup Late \cup {"posted"} => claim.owner = t
          BY <4>6 DEF ClaimInv, Owner
        <5> QED  BY <4>3, <5>1 DEF Owner, Early, Late
      <4>8. Fenced'  BY <3>2, <4>1, <4>6 DEF Fenced, Early, Late
      <4>9. Rowed'  BY <3>2, <4>1, <4>2, <4>3 DEF ClaimInv, Rowed, SaleOver
      <4> QED  BY <4>7, <4>8, <4>9 DEF ClaimInv
    <3> QED  BY <2>3, <3>3, <3>4 DEF StopKnown
  <2>4. CASE StopBind \/ StopDispatch \/ StopReleased
    <3>1. PICK p \in {"dispatching", "release", "released"} : Goto("stop", p)
      BY <2>4 DEF StopBind, StopDispatch, StopReleased
    <3>2. pc["stop"] \in Early /\ p \in Early
      BY <2>4 DEF StopBind, StopDispatch, StopReleased, Early
    <3>3. UNCHANGED <<sale, row, size, claim>>
      BY <2>4 DEF StopBind, StopDispatch, StopReleased, wires
    <3> QED  BY <2>0, <3>1, <3>2, <3>3, ClaimMoved
  <2>5. CASE StopJournal \/ StopSubmit \/ StopValidate
    <3>1. PICK p \in {"submit", "validate", "wire", "idle"} : Goto("stop", p)
      BY <2>5 DEF StopJournal, StopSubmit, StopValidate, Attention
    <3>2. pc["stop"] \in Late /\ (p = "idle" \/ p \in Late)
      BY <2>5 DEF StopJournal, StopSubmit, StopValidate, Late
    <3>3. UNCHANGED <<sale, row, size>>  BY <2>5 DEF StopJournal, StopSubmit, StopValidate, wires
    <3>4. claim'.owner = claim.owner /\ (claim.phase # "none" => claim'.phase # "none")
      BY <2>5 DEF StopJournal, StopSubmit, StopValidate, Attention, Shape
    <3> QED  BY <2>0, <3>1, <3>2, <3>3, <3>4, Unclaimed, ClaimMoved
  <2> QED  BY <1>8, <2>1, <2>2, <2>3, <2>4, <2>5 DEF StopDriver
<1>9. Normal \subseteq Sellers  BY DEF Normal
<1> QED  BY <1>1, <1>2, <1>3, <1>4, <1>5, <1>6, <1>7, <1>8 DEF Step, Releasing, Closer

LEMMA ClaimStart == ASSUME Init PROVE ClaimInv
<1>1. sale.st = "none" /\ sale.qty = 0 /\ sale.sold = 0 /\ row.st = "none"  BY DEF Init
<1>2. \A s \in Sellers : pc[s] = "idle"  BY DEF Init, Actors
<1> QED  BY <1>1, <1>2, Unclaimed DEF ClaimInv, Owner, Fenced, Rowed, SaleOver

\* What the process that comes after a crash needs is in the two invariants.
LEMMA SentHolds == ASSUME Shape, PairInv, ClaimInv PROVE SentIsDurable
<1>1. \A b \in Pairs : pair[b].st = "working" => prot.base = b  BY DEF PairInv, Recorded
<1>2. ASSUME sale.st = "working" PROVE row.st \in {"pending", "open"} /\ row.qty = sale.qty
  BY <1>2 DEF Shape, ClaimInv, Rowed, SaleOver
<1> QED  BY <1>1, <1>2 DEF SentIsDurable

------------------------------------------------------------------------------
(* The books, while no live pair is beside a sell.                          *)

\* A step of the process that only reads, records and books.
LEMMA BookMove ==
  ASSUME Shape, Shape', BookInv, UNCHANGED <<pair, sale, size>>,
         Booked', \A b \in Pairs : Settles(b) => Settles(b)',
         (\E s \in Sellers : pc[s] \in Sizing) \/ (pc[Recon] = "post" /\ sale.st = "none")
           => Owned' = Owned,
         prot'.base = prot.base, Bare' => Bare \/ AllSettle',
         \A s \in Sellers : pc'[s] \in Unsent => pc[s] \in Unsent \/ AllSettle',
         \A s \in Sellers : pc'[s] \in Sizing => pc[s] \in Sizing,
         \/ plan' = plan /\ (pc'[Recon] = pc[Recon] \/ pc'[Recon] \notin {"plan", "prewire", "post"})
         \/ /\ plan'.q \in 0..Qty /\ pc'[Recon] \notin {"prewire", "post"}
            /\ pc'[Recon] = "plan" => plan'.q > 0,
         prot'.qty = prot.qty, row'.qty \in 0..Qty, settled' => AllSold = Qty
  PROVE  BookInv'
<1>1. AllSold' = AllSold /\ Ordered'  BY OrderedKept DEF BookInv
<1>2. AllSettle => AllSettle'  BY DEF AllSettle, Pairs
<1>3. Proved'
  <2>1. \A b \in Pairs : b # prot'.base => Settles(b)'  BY DEF BookInv, Proved
  <2>2. Bare' => AllSettle'  BY <1>2 DEF BookInv, Proved
  <2>3. \A s \in Sellers : pc'[s] \in Unsent => AllSettle'  BY <1>2 DEF BookInv, Proved
  <2> QED  BY <2>1, <2>2, <2>3 DEF Proved, Sellers, Unsent, PastRelease, Pairs
<1>4. SizedSale'  BY DEF BookInv, SizedSale, Sellers, Sizing, Late
<1>5. SizedPair'  BY DEF BookInv, SizedPair
<1>6. Limits'  BY <1>1 DEF BookInv, Limits
<1> QED  BY <1>1, <1>3, <1>4, <1>5, <1>6 DEF BookInv

\* Booking a pair's fills: past pairs stay settled, and nothing changes where the pair was.
LEMMA BookPairBooks ==
  ASSUME Shape, Shape', BookInv, NEW b \in 0..MaxPairs, booked' = BookPair(b), UNCHANGED <<pair, sale>>
  PROVE  /\ Booked' /\ \A c \in Pairs : Settles(c) => Settles(c)'
         /\ AllSettle => Owned' = Owned
         /\ b # 0 /\ Settles(b) => Owned' = Owned
<1>1. \A i \in Orders : Sold'[i] = Sold[i]  BY OrderedKept DEF BookInv
<1>2. booked' = booked \/ (b \in Pairs /\ booked' = [booked EXCEPT ![b] = pair[b].sold])
  BY OrbExitConstants DEF BookPair, Bookable, Pairs
<1>3. b \in Pairs => b \in Orders /\ pair[b].sold = Sold[b]  BY Quantities DEF Orders
<1>4. booked \in [Orders -> Int]  BY DEF Shape, Orders
<1>5. \A i \in Orders : booked'[i] = booked[i] \/ (i = b /\ b \in Pairs /\ booked'[i] = Sold[i])
  BY <1>2, <1>3, <1>4
<1>6. Booked'
  <2>1. \A i \in Orders : booked'[i] >= 0 /\ booked'[i] <= Sold'[i]
    BY <1>1, <1>5, Quantities DEF BookInv, Booked
  <2> QED  BY <2>1 DEF Booked, Orders, Pairs
<1>7. \A c \in Pairs : Settles(c) => Settles(c)'
  BY <1>2, <1>4, <1>5, Quantities DEF Settles, Orders
<1>8. ASSUME b \in Pairs => Settles(b) PROVE Owned' = Owned
  <2>1. booked' = booked  BY <1>2, <1>3, <1>4, <1>8 DEF Settles
  <2> QED  BY <2>1, OwnedKept
<1>9. b # 0 => b \in Pairs  BY OrbExitConstants DEF Pairs
<1> QED  BY <1>6, <1>7, <1>8, <1>9 DEF AllSettle

\* Booking the sell's fills.
LEMMA BookSaleBooks ==
  ASSUME Shape, Shape', BookInv, BookSale, UNCHANGED <<pair, sale>>
  PROVE  /\ Booked' /\ \A c \in Pairs : Settles(c) => Settles(c)'
         /\ row'.qty \in 0..Qty
<1>1. \A i \in Orders : Sold'[i] = Sold[i]  BY OrderedKept DEF BookInv
<1>2. 0 \in Orders /\ booked \in [Orders -> Int]  BY DEF Shape, Orders
<1>3. \A i \in Orders : booked'[i] = IF i = 0 THEN Sold[0] ELSE booked[i]
  BY <1>2, Quantities DEF BookSale
<1>4. Booked'
  <2>1. \A i \in Orders : booked'[i] >= 0 /\ booked'[i] <= Sold'[i]
    BY <1>1, <1>3, Quantities DEF BookInv, Booked
  <2> QED  BY <2>1 DEF Booked, Orders, Pairs
<1>5. \A c \in Pairs : Settles(c) => Settles(c)'  BY <1>3, FiniteOrders DEF Settles, Orders
<1>6. row'.qty \in 0..Qty  BY DEF BookSale, BookInv, Limits, Shape
<1> QED  BY <1>4, <1>5, <1>6

\* A step of one coroutine that books nothing.
LEMMA BookGoto ==
  ASSUME Shape, Shape', BookInv, NEW a \in Actors, NEW p, Goto(a, p),
         UNCHANGED <<pair, sale, booked, size, plan>>,
         prot'.base = prot.base, prot'.qty = prot.qty, Bare' => Bare \/ AllSettle,
         a # Recon /\ p \in Unsent => pc[a] \in Unsent \/ AllSettle,
         a # Recon /\ p \in Sizing => pc[a] \in Sizing,
         a = Recon => p \notin {"plan", "prewire", "post"},
         row'.qty \in 0..Qty, settled' => AllSold = Qty
  PROVE  BookInv'
<1>1. pc'[a] = p /\ \A t \in Actors : t # a => pc'[t] = pc[t]  BY Goes
<1>2. Booked'  BY OrderedKept DEF BookInv, Booked, Orders, Pairs
<1>3. \A b \in Pairs : Settles(b) => Settles(b)'  BY DEF Settles
<1>4. AllSettle => AllSettle'  BY <1>3 DEF AllSettle, Pairs
<1>5. \A s \in Sellers : pc'[s] \in Unsent => pc[s] \in Unsent \/ AllSettle'
  BY <1>1, <1>4 DEF Actors, Sellers, Recon
<1>6. \A s \in Sellers : pc'[s] \in Sizing => pc[s] \in Sizing  BY <1>1 DEF Actors, Sellers, Recon
<1>7. pc'[Recon] = pc[Recon] \/ pc'[Recon] \notin {"plan", "prewire", "post"}  BY <1>1 DEF Actors
<1>8. Owned' = Owned  BY OwnedKept
<1> QED  BY <1>2, <1>3, <1>4, <1>5, <1>6, <1>7, <1>8, BookMove

LEMMA BookKeeps == ASSUME BookInv PROVE row.qty \in 0..Qty /\ (settled => AllSold = Qty)
BY DEF BookInv, Limits

\* A closer is past the release at once only where nothing is attached or the release is
\* recorded.
LEMMA BookRelease == ASSUME Shape, Shape', BookInv, NEW a \in Actors, Release(a) PROVE BookInv'
<1>1. PICK p : /\ Goto(a, p) /\ (p \in Unsent => Bare) /\ p \notin Sizing
               /\ a = Recon => p \notin {"plan", "prewire", "post"}
  <2>1. CASE Bare /\ Released(a)
    <3>1. CASE a = Recon
      <4>1. Goto(a, "idle")  BY <2>1, <3>1 DEF Released, Recon
      <4> QED  BY <4>1, <3>1 DEF Unsent, PastRelease, Sizing, Late
    <3>2. CASE a # Recon
      <4>1. Goto(a, "proved") \/ Goto(a, "released")  BY <2>1, <3>2 DEF Released
      <4> QED  BY <4>1, <2>1, <3>2 DEF Sizing, Late
    <3> QED  BY <3>1, <3>2
  <2>2. CASE \E p \in {"probe", "cancel"} : Goto(a, p)
    BY <2>2 DEF Unsent, PastRelease, Sizing, Late
  <2> QED  BY <2>1, <2>2 DEF Release, Bare
<1>2. UNCHANGED <<pair, sale, booked, size, plan, row, settled>>  BY DEF Release, wires
<1>3. prot'.base = prot.base /\ prot'.qty = prot.qty /\ (Bare' => Bare)  BY DEF Release, Bare, Shape
<1>4. Bare => AllSettle  BY DEF BookInv, Proved
<1> QED  BY <1>1, <1>2, <1>3, <1>4, BookKeeps, BookGoto

\* The claim is not past the release.
LEMMA BookClaim == ASSUME Shape, Shape', BookInv, NEW s \in Normal, Claim(s) PROVE BookInv'
<1>1. Goto(s, "claimed") /\ UNCHANGED <<pair, sale, booked, prot, size, plan, row, settled>>
  BY DEF Claim, wires
<1>2. s \in Actors /\ s # Recon  BY DEF Normal, Sellers, Actors, Recon
<1>3. "claimed" \notin Unsent \cup Sizing  BY DEF Unsent, PastRelease, Sizing, Late
<1> QED  BY <1>1, <1>2, <1>3, BookKeeps, BookGoto DEF Bare

\* A closer's step that is not past the release, or was past it already.
LEMMA BookCloser ==
  ASSUME Shape, Shape', BookInv, NEW s \in Sellers, NEW p, Goto(s, p),
         UNCHANGED <<pair, sale, booked, size, plan, settled>>,
         prot'.base = prot.base, prot'.qty = prot.qty, Bare' => Bare \/ AllSettle,
         p \in Unsent => pc[s] \in Unsent, p \in Sizing => pc[s] \in Sizing, row'.qty \in 0..Qty
  PROVE  BookInv'
<1>1. s \in Actors /\ s # Recon  BY DEF Sellers, Actors, Recon
<1> QED  BY <1>1, BookKeeps, BookGoto

\* Places that are not past the release.
LEMMA Elsewhere ==
  \A p \in {"idle", "claimed", "claiming", "entered", "binding", "dispatching", "release", "known",
            "targets", "target"} :
    p \notin Unsent /\ p \notin Sizing
BY DEF Unsent, PastRelease, Sizing, Late

\* The closers' steps before the release, and those that raise.
LEMMA BookEnter == ASSUME Shape, Shape', BookInv, NEW s \in Sellers, Enter(s) PROVE BookInv'
<1>1. PICK p \in {"entered", "idle"} : Goto(s, p)  BY DEF Enter
<1>2. UNCHANGED <<pair, sale, booked, prot, size, plan, row, settled>>  BY DEF Enter, wires, durable
<1> QED  BY <1>1, <1>2, Elsewhere, BookKeeps, BookCloser DEF Bare

LEMMA BookFail == ASSUME Shape, Shape', BookInv, NEW s \in Sellers, Fail(s) PROVE BookInv'
<1>1. Goto(s, "idle")  BY DEF Fail, Attention
<1>2. UNCHANGED <<pair, sale, booked, prot, size, plan, row, settled>>  BY DEF Fail, wires
<1> QED  BY <1>1, <1>2, Elsewhere, BookKeeps, BookCloser DEF Bare

\* STOP's own steps around the attempt.
LEMMA BookStop ==
  ASSUME Shape, Shape', BookInv,
         \/ StopEnter \/ StopClaim \/ StopBind \/ StopDispatch
         \/ StopReleased \/ StopJournal \/ StopSubmit \/ StopValidate
  PROVE  BookInv'
<1>0. "stop" \in Sellers  BY DEF Sellers
<1>1. UNCHANGED <<pair, sale, booked, prot, size, plan, row, settled>>
  BY DEF StopEnter, StopClaim, StopBind, StopDispatch, StopReleased, StopJournal, StopSubmit,
     StopValidate, wires, durable
<1>2. PICK p : /\ Goto("stop", p)
               /\ p \in Unsent => pc["stop"] \in Unsent
               /\ p \in Sizing => pc["stop"] \in Sizing
  <2>1. CASE StopEnter \/ StopClaim \/ StopBind \/ StopDispatch
    <3>1. \E p \in {"claiming", "idle", "entered", "dispatching", "release"} : Goto("stop", p)
      BY <2>1 DEF StopEnter, StopClaim, StopBind, StopDispatch
    <3> QED  BY <3>1, Elsewhere
  <2>2. CASE StopReleased
    <3>1. Goto("stop", "released") /\ pc["stop"] = "proved"  BY <2>2 DEF StopReleased
    <3> QED  BY <3>1 DEF Unsent, PastRelease, Sizing, Late
  <2>3. CASE StopJournal \/ StopSubmit \/ StopValidate
    <3>1. pc["stop"] \in {"journal", "submit", "validate"} /\ \E p : Goto("stop", p)
      BY <2>3 DEF StopJournal, StopSubmit, StopValidate, Attention
    <3> QED  BY <3>1 DEF Unsent, PastRelease, Sizing, Late
  <2> QED  BY <2>1, <2>2, <2>3
<1> QED  BY <1>0, <1>1, <1>2, BookKeeps, BookCloser DEF Bare

LEMMA BookPrepare == ASSUME Shape, Shape', BookInv, NEW s \in Sellers, Prepare(s) PROVE BookInv'
<1>1. UNCHANGED <<pair, sale, booked, prot, size, plan, settled>>  BY DEF Prepare, wires
<1>2. pc[s] = "sized" /\ \E p : Goto(s, p)  BY DEF Prepare, Attention
<1>3. row'.qty = row.qty \/ row'.qty = size[s]  BY DEF Prepare
<1>4. row'.qty \in 0..Qty  BY <1>3, BookKeeps DEF BookInv, SizedSale
<1>5. pc[s] \in Unsent /\ pc[s] \in Sizing  BY <1>2 DEF Unsent, PastRelease, Sizing
<1> QED  BY <1>1, <1>2, <1>4, <1>5, BookKeeps, BookCloser DEF Bare

\* SETTLED: nothing is owned on the books, so everything was sold.
LEMMA BookStopTargets == ASSUME Shape, Shape', BookInv, StopTargets PROVE BookInv'
<1>0. "stop" \in Actors /\ "stop" # Recon  BY DEF Sellers, Actors, Recon
<1>1. UNCHANGED <<pair, sale, booked, prot, size, plan, row>>  BY DEF StopTargets, wires
<1>2. PICK p \in {"target", "idle"} : Goto("stop", p)  BY DEF StopTargets
<1>3. settled' => AllSold = Qty  BY NothingOwned DEF StopTargets, BookInv, Ordered
<1> QED  BY <1>0, <1>1, <1>2, <1>3, Elsewhere, BookKeeps, BookGoto DEF Bare

\* A tree found flat is over, and booked: there is nothing left on the books.
LEMMA BookStopFlat == ASSUME Shape, Shape', PairInv, BookInv, StopFlat PROVE BookInv'
<1>0. "stop" \in Sellers  BY DEF Sellers
<1>1. UNCHANGED <<pair, sale, booked, size, plan, row, settled>>  BY DEF StopFlat, wires
<1>2. Goto("stop", "known")  BY DEF StopFlat
<1>3. prot'.base = prot.base /\ prot'.qty = prot.qty  BY DEF StopFlat, Shape
<1>4. prot' = prot \/ (Owned = 0 /\ prot.base # 0 /\ pair[prot.base].st = "gone")
  BY DEF StopFlat, FlatProven
<1>5. ASSUME Owned = 0, prot.base # 0, pair[prot.base].st = "gone" PROVE AllSettle
  <2>1. \A b \in Pairs : b \in Orders /\ booked[b] = pair[b].sold
    BY <1>5, NothingOwned, Quantities, FiniteOrders DEF BookInv, Ordered
  <2>2. \A b \in Pairs : pair[b].st # "working"  BY <1>5 DEF PairInv, Recorded
  <2> QED  BY <2>1, <2>2 DEF AllSettle, Settles
<1> QED  BY <1>0, <1>1, <1>2, <1>3, <1>4, <1>5, Elsewhere, BookKeeps, BookCloser DEF Bare

\* A pair that is about to be posted has sold nothing.
LEMMA UnpostedSettles ==
  ASSUME Shape, PairInv, BookInv, pc[Recon] \in {"prewire", "post"}

  PROVE  /\ prot.base # 0 /\ prot.base \in Pairs
         /\ Settles(prot.base) /\ pair[prot.base].sold = 0 /\ AllSettle
<1>1. prot.base \in Pairs /\ pair[prot.base].st = "none"
  BY OrbExitConstants DEF PairInv, Planned, Shape, Pairs
<1>2. pair[prot.base].sold = 0  BY <1>1 DEF BookInv, Ordered
<1>3. prot.base \in Orders  BY <1>1 DEF Orders
<1>4. Sold[prot.base] = 0 /\ booked[prot.base] \in Int  BY <1>1, <1>2, <1>3, Quantities
<1>5. booked[prot.base] = 0  BY <1>3, <1>4 DEF BookInv, Booked
<1>6. Settles(prot.base)  BY <1>1, <1>2, <1>5 DEF Settles
<1> QED  BY <1>1, <1>2, <1>6, FiniteOrders DEF AllSettle, BookInv, Proved

\* The reconciler's marks: only a pair that was never sent is released by one.
LEMMA BookReconMarks ==
  ASSUME Shape, Shape', PairInv, BookInv, ReconSeen \/ ReconAccepted \/ ReconUnsent
  PROVE  BookInv'
<1>0. Recon \in Actors  BY DEF Actors
<1>1. UNCHANGED <<pair, sale, booked, size, plan, row, settled>>
  BY DEF ReconSeen, ReconAccepted, ReconUnsent, wires
<1>2. Goto(Recon, "idle")  BY DEF ReconSeen, ReconAccepted, ReconUnsent
<1>3. prot'.base = prot.base /\ prot'.qty = prot.qty
  BY DEF ReconSeen, ReconAccepted, ReconUnsent, Phased, Shape
<1>4. Bare' => Bare \/ AllSettle
  <2>1. CASE ReconSeen \/ ReconAccepted
    BY <2>1 DEF ReconSeen, ReconAccepted, Phased, Bare, Shape
  <2>2. CASE ReconUnsent
    <3>1. AllSettle  BY <2>2, UnpostedSettles DEF ReconUnsent
    <3> QED  BY <3>1
  <2> QED  BY <2>1, <2>2
<1> QED  BY <1>0, <1>1, <1>2, <1>3, <1>4, BookKeeps, BookGoto

\* Reading the sell: it is out, so no closer is sizing another.
LEMMA BookAnswers ==
  ASSUME Shape, Shape', BookInv, BookSale, sale.st # "none",
         UNCHANGED <<pair, sale, size, plan, prot, settled>>,
         \/ pc' = pc
         \/ \E s \in Sellers, p \in {"idle", "targets"} : Goto(s, p),
         \A s \in Sellers : pc[s] \notin Sizing
  PROVE  BookInv'
<1>1. Booked' /\ row'.qty \in 0..Qty /\ \A c \in Pairs : Settles(c) => Settles(c)'  BY BookSaleBooks
<1>2. pc'[Recon] = pc[Recon] /\ \A s \in Sellers : pc'[s] \in Unsent \cup Sizing => pc'[s] = pc[s]
  <2>1. CASE pc' = pc  BY <2>1
  <2>2. CASE \E s \in Sellers, p \in {"idle", "targets"} : Goto(s, p)
    <3>1. PICK s \in Sellers, p \in {"idle", "targets"} : Goto(s, p)  BY <2>2
    <3>2. pc'[s] = p /\ \A t \in Actors : t # s => pc'[t] = pc[t]  BY <3>1, Goes DEF Actors
    <3> QED  BY <3>2, Elsewhere DEF Actors, Sellers, Recon
  <2> QED  BY <2>1, <2>2
<1>3. prot'.base = prot.base /\ prot'.qty = prot.qty /\ (Bare' => Bare) /\ (settled' => AllSold = Qty)
  BY BookKeeps DEF Bare
<1> QED  BY <1>1, <1>2, <1>3, BookMove

LEMMA BookAnswer ==
  ASSUME Shape, Shape', ClaimInv, BookInv, NEW s \in Sellers, Answer(s)
  PROVE  BookInv'
<1>1. UNCHANGED <<pair, sale, size, plan, prot, settled>> /\ BookSale /\ Goto(s, "idle")
  BY DEF Answer, Attention, Finish, wires
<1>2. sale.st # "none"  BY DEF Answer, ClaimInv, Fenced
<1>3. \A t \in Sellers : pc[t] \notin Sizing  BY <1>2 DEF ClaimInv, Fenced, Sizing, Early
<1> QED  BY <1>1, <1>2, <1>3, BookAnswers

LEMMA BookSyncOrders == ASSUME Shape, Shape', ClaimInv, BookInv, SyncOrders PROVE BookInv'
<1>1. UNCHANGED <<pair, sale, size, plan, prot, settled, pc>> /\ BookSale /\ sale.st # "none"
  BY DEF SyncOrders, wires
<1>3. \A t \in Sellers : pc[t] \notin Sizing  BY <1>1 DEF ClaimInv, Fenced, Sizing, Early
<1> QED  BY <1>1, <1>3, BookAnswers

LEMMA BookStopKnown == ASSUME Shape, Shape', ClaimInv, BookInv, StopKnown PROVE BookInv'
<1>0. "stop" \in Sellers  BY DEF Sellers
<1>1. UNCHANGED <<pair, sale, size, plan, prot, settled>> /\ \E p \in {"idle", "targets"} : Goto("stop", p)
  BY DEF StopKnown, wires
<1>2. CASE BookSale /\ row.st \in {"open", "over"}
  <2>1. sale.st # "none"  BY <1>2 DEF ClaimInv, Rowed
  <2>2. \A t \in Sellers : pc[t] \notin Sizing  BY <2>1 DEF ClaimInv, Fenced, Sizing, Early
  <2> QED  BY <1>0, <1>1, <1>2, <2>1, <2>2, BookAnswers
<1>3. CASE UNCHANGED <<booked, row>>
  BY <1>0, <1>1, <1>3, Elsewhere, BookKeeps, BookCloser DEF Bare
<1> QED  BY <1>2, <1>3 DEF StopKnown

\* The probe of the release: only a pair that ended and is booked is released.
LEMMA BookProbe ==
  ASSUME Shape, Shape', PairInv, ClaimInv, BookInv, NEW a \in Actors, Probe(a)
  PROVE  BookInv'
<1>1. UNCHANGED <<pair, sale, size, plan, row, settled>> /\ booked' = BookPair(prot.base)
  BY DEF Probe, wires
<1>2. prot.base \in 0..MaxPairs  BY DEF Shape
<1>3. /\ Booked' /\ \A c \in Pairs : Settles(c) => Settles(c)'
      /\ AllSettle => Owned' = Owned
      /\ prot.base # 0 /\ Settles(prot.base) => Owned' = Owned
  BY <1>1, <1>2, BookPairBooks
<1>4. (\E s \in Sellers : pc[s] \in Sizing) => AllSettle
  BY DEF BookInv, Proved, Sizing, Late, Unsent, PastRelease
<1>5. pc[Recon] = "post" => prot.base # 0 /\ Settles(prot.base)  BY UnpostedSettles
<1>6. prot'.base = prot.base /\ prot'.qty = prot.qty  BY DEF Probe, Shape
<1>7. CASE pair[prot.base].st = "gone" /\ Bookable(prot.base) /\ Released(a)
  <2>1. AllSettle'
    <3>1. prot.base \in Pairs /\ booked' = [booked EXCEPT ![prot.base] = pair[prot.base].sold]
      BY <1>1, <1>2, <1>7, OrbExitConstants DEF BookPair, Bookable, Pairs
    <3>2. booked \in [Orders -> Int] /\ prot.base \in Orders  BY <3>1 DEF Shape, Orders
    <3>3. booked'[prot.base] = pair[prot.base].sold  BY <3>1, <3>2
    <3>4. \A b \in Pairs : b # prot.base => Settles(b)'  BY <1>3 DEF BookInv, Proved
    <3>5. Settles(prot.base)'  BY <1>1, <1>6, <1>7, <3>3 DEF Settles
    <3> QED  BY <1>6, <3>4, <3>5 DEF AllSettle, Pairs
  <2>2. PICK p \in {"idle", "proved", "released"} : Goto(a, p) /\ (a = Recon => p = "idle")
    <3>1. CASE a = Recon  BY <1>7, <3>1 DEF Released, Recon, Goto
    <3>2. CASE a # Recon  BY <1>7, <3>2 DEF Released
    <3> QED  BY <3>1, <3>2
  <2>3. pc'[a] = p /\ \A t \in Actors : t # a => pc'[t] = pc[t]  BY <2>2, Goes
  <2>4. \A s \in Sellers : pc'[s] \in Sizing => pc[s] \in Sizing  BY <2>3 DEF Actors, Sizing, Late
  <2>5. pc'[Recon] = pc[Recon] \/ pc'[Recon] = "idle"  BY <2>2, <2>3 DEF Actors
  <2> QED  BY <1>1, <1>3, <1>4, <1>5, <1>6, <2>1, <2>4, <2>5, BookKeeps, BookMove
<1>8. CASE prot' = [prot EXCEPT !.child = ChildOpen(prot.base)] /\ Unanswerable(a)
  <2>1. Goto(a, "idle")  BY <1>8 DEF Unanswerable, Attention
  <2>2. pc'[a] = "idle" /\ \A t \in Actors : t # a => pc'[t] = pc[t]  BY <2>1, Goes
  <2>3. \A s \in Sellers : pc'[s] \in Sizing \cup Unsent => pc[s] = pc'[s]
    BY <2>2, Elsewhere DEF Actors
  <2>4. pc'[Recon] = pc[Recon] \/ pc'[Recon] = "idle"  BY <2>2 DEF Actors
  <2>5. Bare' => Bare  BY <1>8 DEF Bare, Shape
  <2> QED  BY <1>1, <1>3, <1>4, <1>5, <1>6, <2>3, <2>4, <2>5, BookKeeps, BookMove
<1> QED  BY <1>7, <1>8 DEF Probe

\* The reconciler reads: what it books changes no size a closer has decided.
LEMMA BookReconRead == ASSUME Shape, Shape', PairInv, ClaimInv, BookInv, ReconRead PROVE BookInv'
<1>1. UNCHANGED <<pair, sale, size, row, settled>>  BY DEF ReconRead, wires
<1>2. prot'.base = prot.base /\ prot'.qty = prot.qty /\ (Bare' => Bare)
  BY DEF ReconRead, Shape, Bare
<1>3. prot.base \in 0..MaxPairs /\ pc[Recon] = "idle"  BY DEF Shape, ReconRead
<1>4. /\ Booked' /\ \A c \in Pairs : Settles(c) => Settles(c)'
      /\ AllSettle => Owned' = Owned
  <2>1. CASE booked' = BookPair(prot.base)  BY <1>1, <1>3, <2>1, BookPairBooks
  <2>2. CASE booked' = booked
    <3>1. Owned' = Owned  BY <2>2, OwnedKept
    <3>2. Booked'  BY <1>1, <2>2, OrderedKept DEF BookInv, Booked, Orders, Pairs
    <3> QED  BY <1>1, <2>2, <3>1, <3>2 DEF Settles
  <2> QED  BY <2>1, <2>2 DEF ReconRead
<1>5. (\E s \in Sellers : pc[s] \in Sizing) => AllSettle
  BY DEF BookInv, Proved, Sizing, Late, Unsent, PastRelease
<1>6. \A s \in Sellers : pc'[s] = pc[s]
  <2>1. pc' = pc \/ \E p : Goto(Recon, p)  BY DEF ReconRead
  <2> QED  BY <2>1, ReconGoes
<1>7. plan'.q \in 0..Qty /\ pc'[Recon] \notin {"prewire", "post"} /\ (pc'[Recon] = "plan" => plan'.q > 0)
  <2>1. Owned \in 0..Qty  BY OwnedBounds DEF BookInv, Ordered
  <2>2. \/ plan'.q = 0 /\ (pc' = pc \/ \E p \in {"release", "seen"} : Goto(Recon, p))
        \/ plan'.q = Owned /\ Owned > 0 /\ Goto(Recon, "plan")
    BY DEF ReconRead
  <2>3. Recon \in Actors  BY DEF Actors
  <2> QED  BY <1>3, <2>1, <2>2, <2>3, Goes, OrbExitConstants
<1> QED  BY <1>1, <1>2, <1>3, <1>4, <1>5, <1>6, <1>7, BookKeeps, BookMove

LEMMA BookVerify ==
  ASSUME Shape, Shape', PairInv, ClaimInv, BookInv, NEW s \in Sellers, Verify(s)
  PROVE  BookInv'
<1>1. UNCHANGED <<pair, sale, size, plan, row, settled>>  BY DEF Verify, wires
<1>2. prot'.base = prot.base /\ prot'.qty = prot.qty /\ (Bare' => Bare)
  <2>1. prot' = prot \/ \E c : prot' = [prot EXCEPT !.child = c]  BY DEF Verify
  <2> QED  BY <2>1 DEF Shape, Bare
<1>3. PICK b \in {0, prot.base} : booked' = BookPair(b)
  <2>1. CASE booked' = booked
    <3>1. BookPair(0) = booked  BY DEF BookPair, Bookable
    <3> QED  BY <2>1, <3>1
  <2>2. CASE booked' \in {BookPair(0), BookPair(prot.base)}  BY <2>2
  <2> QED  BY <2>1, <2>2 DEF Verify
<1>4. b \in 0..MaxPairs  BY OrbExitConstants DEF Shape
<1>5. /\ Booked' /\ \A c \in Pairs : Settles(c) => Settles(c)'
      /\ AllSettle => Owned' = Owned
  BY <1>1, <1>3, <1>4, BookPairBooks
<1>6. (\E t \in Sellers : pc[t] \in Sizing) => AllSettle
  BY DEF BookInv, Proved, Sizing, Late, Unsent, PastRelease
<1>7. pc[Recon] = "post" => AllSettle  BY UnpostedSettles
<1>8. PICK p \in {"idle", "binding", "release"} : Goto(s, p)  BY DEF Verify, Attention, Finish
<1>9. pc'[s] = p /\ \A t \in Actors : t # s => pc'[t] = pc[t]  BY <1>8, Goes DEF Actors
<1>10. pc'[Recon] = pc[Recon] /\ \A t \in Sellers : pc'[t] \in Sizing \cup Unsent => pc[t] = pc'[t]
  BY <1>9, Elsewhere DEF Actors, Sellers, Recon
<1> QED  BY <1>1, <1>2, <1>5, <1>6, <1>7, <1>10, BookKeeps, BookMove

\* A pair is recorded only where every earlier one is over and booked.
LEMMA BookReconPrepare == ASSUME Shape, Shape', PairInv, BookInv, ReconPrepare PROVE BookInv'
<1>1. UNCHANGED <<pair, sale, booked, size, plan, row, settled>>  BY DEF ReconPrepare, wires
<1>2. CASE Goto(Recon, "idle") /\ prot' = prot
  <2>1. Recon \in Actors  BY DEF Actors
  <2> QED  BY <1>1, <1>2, <2>1, BookKeeps, BookGoto DEF Bare
<1>3. CASE /\ Goto(Recon, "prewire") /\ Owned = plan.q /\ prot.phase = plan.phase
           /\ prot'.phase = "submitting" /\ prot'.qty = plan.q
  <2>1. AllSettle  BY <1>3 DEF ReconPrepare, PairInv, Planned, BookInv, Proved, Bare
  <2>2. AllSettle'  BY <1>1, <2>1 DEF AllSettle, Settles, Pairs
  <2>3. Proved'  BY <1>3, <2>2 DEF Proved, Bare, AllSettle
  <2>4. Ordered' /\ AllSold' = AllSold /\ Owned' = Owned
    BY <1>1, OrderedKept, OwnedKept DEF BookInv
  <2>5. Booked'  BY <1>1, OrderedKept DEF BookInv, Booked, Orders, Pairs
  <2>6. \A s \in Sellers : pc'[s] = pc[s]  BY <1>3, ReconGoes
  <2>7. pc'[Recon] = "prewire" /\ pc[Recon] = "plan"  BY <1>3, Goes DEF ReconPrepare, Actors
  <2>8. SizedSale'  BY <1>1, <2>4, <2>6 DEF BookInv, SizedSale, Sizing, Late
  <2>9. SizedPair'  BY <1>1, <2>7 DEF BookInv, SizedPair
  <2>10. Limits'  BY <1>1, <1>3, <2>4 DEF BookInv, Limits, SizedPair
  <2> QED  BY <2>3, <2>4, <2>5, <2>8, <2>9, <2>10 DEF BookInv
<1> QED  BY <1>2, <1>3 DEF ReconPrepare

LEMMA BookReconPrewire == ASSUME Shape, Shape', BookInv, ReconPrewire PROVE BookInv'
<1>0. Recon \in Actors  BY DEF Actors
<1>1. UNCHANGED <<pair, sale, booked, prot, size, plan, row, settled>>
  BY DEF ReconPrewire, wires, durable
<1>2. CASE Goto(Recon, "idle")
  BY <1>0, <1>1, <1>2, BookKeeps, BookGoto DEF Bare
<1>3. CASE Goto(Recon, "post") /\ Owned = plan.q
  <2>1. \A s \in Sellers : pc'[s] = pc[s]  BY <1>3, ReconGoes
  <2>2. pc'[Recon] = "post" /\ pc[Recon] = "prewire"  BY <1>0, <1>3, Goes DEF ReconPrewire
  <2>3. Ordered' /\ AllSold' = AllSold /\ Owned' = Owned
    BY <1>1, OrderedKept, OwnedKept DEF BookInv
  <2>4. Booked'  BY <1>1, OrderedKept DEF BookInv, Booked, Orders, Pairs
  <2>5. Proved'  BY <1>1, <2>1 DEF BookInv, Proved, Bare, AllSettle, Settles, Unsent, PastRelease
  <2>6. SizedSale'  BY <1>1, <2>1, <2>3 DEF BookInv, SizedSale, Sizing, Late
  <2>7. SizedPair'  BY <1>1, <1>3, <2>2, <2>3 DEF BookInv, SizedPair
  <2>8. Limits'  BY <1>1, <2>3 DEF BookInv, Limits
  <2> QED  BY <2>3, <2>4, <2>5, <2>6, <2>7, <2>8 DEF BookInv
<1> QED  BY <1>2, <1>3 DEF ReconPrewire

\* The size is what is owned, read where every pair is over and booked.
LEMMA BookSize == ASSUME Shape, Shape', BookInv, NEW s \in Sellers, Size(s) PROVE BookInv'
<1>0. s \in Actors /\ s # Recon  BY DEF Actors, Sellers, Recon
<1>1. UNCHANGED <<pair, sale, booked, prot, plan, row, settled>>  BY DEF Size, wires
<1>2. CASE Goto(s, "idle") /\ size' = size
  BY <1>0, <1>1, <1>2, Elsewhere, BookKeeps, BookCloser DEF Bare
<1>3. CASE Goto(s, "sized") /\ Owned # 0 /\ size' = [size EXCEPT ![s] = Owned]
  <2>1. pc'[s] = "sized" /\ \A t \in Actors : t # s => pc'[t] = pc[t]  BY <1>0, <1>3, Goes
  <2>2. pc'[Recon] = pc[Recon]  BY <1>0, <2>1 DEF Actors
  <2>3. Ordered' /\ AllSold' = AllSold /\ Owned' = Owned
    BY <1>1, OrderedKept, OwnedKept DEF BookInv
  <2>4. Booked'  BY <1>1, OrderedKept DEF BookInv, Booked, Orders, Pairs
  <2>5. Proved'
    <3>1. pc[s] \in Unsent  BY DEF Size, Unsent, PastRelease
    <3>2. \A t \in Sellers : pc'[t] \in Unsent => AllSettle
      BY <2>1, <3>1 DEF BookInv, Proved, Actors
    <3>3. AllSettle' = AllSettle  BY <1>1 DEF AllSettle, Settles
    <3> QED  BY <1>1, <3>2, <3>3 DEF BookInv, Proved, Bare, Settles
  <2>6. SizedSale'
    <3>1. Owned \in 0..Qty /\ Owned > 0  BY <1>3, OwnedBounds, OrbExitConstants DEF BookInv, Ordered
    <3>2. \A t \in Sellers : size'[t] = IF t = s THEN Owned ELSE size[t]  BY <1>3 DEF Shape
    <3> QED  BY <2>1, <2>3, <3>1, <3>2 DEF BookInv, SizedSale, Actors
  <2>7. SizedPair'  BY <1>1, <2>2, <2>3 DEF BookInv, SizedPair
  <2>8. Limits'  BY <1>1, <2>3 DEF BookInv, Limits
  <2> QED  BY <2>3, <2>4, <2>5, <2>6, <2>7, <2>8 DEF BookInv
<1> QED  BY <1>2, <1>3 DEF Size, Finish

\* The orders change; what is booked, recorded and decided does not.
LEMMA BookOrders ==
  ASSUME Shape, Shape', PairInv', BookInv, NoPairBeside',
         UNCHANGED <<booked, prot, size, plan, row, settled>>,
         pc'[Recon] = pc[Recon] \/ pc'[Recon] \notin {"plan", "prewire", "post"},
         \A s \in Sellers : pc'[s] \in Unsent \cup Sizing => pc'[s] = pc[s],
         sale'.st = "none" => sale.st = "none",
         Booked', Ordered', settled => AllSold' = AllSold,
         \A b \in Pairs : Settles(b) => Settles(b)'
  PROVE  BookInv'
<1>1. Owned' = Owned  BY OwnedKept
<1>2. Proved'
  <2>1. AllSettle => AllSettle'  BY DEF AllSettle, Pairs
  <2>2. \A b \in Pairs : b # prot'.base => Settles(b)'  BY DEF BookInv, Proved
  <2>3. Bare' => AllSettle'  BY <2>1 DEF BookInv, Proved, Bare
  <2>4. \A s \in Sellers : pc'[s] \in Unsent => AllSettle'  BY <2>1 DEF BookInv, Proved
  <2> QED  BY <2>2, <2>3, <2>4 DEF Proved, Sellers, Unsent, PastRelease, Pairs
<1>3. SizedSale'  BY <1>1 DEF BookInv, SizedSale
<1>4. SizedPair'  BY <1>1 DEF BookInv, SizedPair
<1>5. Limits'  BY DEF BookInv, Limits
<1> QED  BY <1>2, <1>3, <1>4, <1>5 DEF BookInv

\* Once the entry is sold no order of it works.
LEMMA SoldOut ==
  ASSUME Shape, BookInv, settled
  PROVE  sale.st # "working" /\ \A b \in Pairs : pair[b].st # "working"
<1>1. AllSold = Qty /\ Qty \in Int  BY OrbExitConstants DEF BookInv, Limits
<1>2. ASSUME NEW o, Backed(o), o.qty \in Int, o.sold \in Int PROVE o.st # "working"
  BY <1>1, <1>2 DEF Backed
<1>3. sale.qty \in Int /\ sale.sold \in Int /\ \A b \in Pairs : pair[b].qty \in Int /\ pair[b].sold \in Int
  BY DEF Shape
<1>4. sale.st # "working"  BY <1>2, <1>3 DEF BookInv, Ordered
<1>5. ASSUME NEW b \in Pairs PROVE pair[b].st # "working"  BY <1>2, <1>3 DEF BookInv, Ordered
<1> QED  BY <1>4, <1>5

\* A fill of the pair or of the sell: the other one cannot be open.
LEMMA BookPairFills ==
  ASSUME Shape, Shape', PairInv, PairInv', NoPairBeside, NoPairBeside', BookInv,
         NEW b \in Pairs, PairFills(b)
  PROVE  BookInv'
<1>1. UNCHANGED <<sale, booked, prot, size, plan, row, settled, pc>>  BY DEF PairFills, durable
<1>2. pair[b] \in PairOrder /\ pair[b].st = "working" /\ pair' = [pair EXCEPT ![b] = Filled(pair[b])]
  BY DEF PairFills, Shape, PairOrder
<1>3. /\ pair'[b].sold = pair[b].sold + 1 /\ pair'[b].qty = pair[b].qty
      /\ pair'[b].st = IF pair[b].sold + 1 = pair[b].qty THEN "gone" ELSE "working"
      /\ \A c \in Pairs \ {b} : pair'[c] = pair[c]
  BY <1>2, FilledIs DEF Shape
<1>4. /\ pair[b].sold < pair[b].qty /\ AllSold + (pair[b].qty - pair[b].sold) <= Qty
      /\ pair[b].sold \in 0..Qty /\ pair[b].qty \in 0..Qty
  BY <1>2 DEF BookInv, Ordered, Backed
<1>5. b \in Orders /\ b # 0  BY FiniteOrders
<1>6. Sold'[b] = Sold[b] + 1 /\ \A i \in Orders \ {b} : Sold'[i] = Sold[i]
  <2>1. \A i \in Orders : Sold[i] = IF i = 0 THEN sale.sold ELSE pair[i].sold  BY DEF Sold
  <2>2. \A i \in Orders : Sold'[i] = IF i = 0 THEN sale'.sold ELSE pair'[i].sold
    BY DEF Sold, Orders
  <2> QED  BY <1>1, <1>3, <1>5, <2>1, <2>2, FiniteOrders
<1>7. AllSold' = AllSold + 1 /\ AllSold \in Int  BY <1>5, <1>6, SoldOne, Quantities
<1>8. Booked'
  <2>1. \A i \in Orders : booked'[i] >= 0 /\ booked'[i] <= Sold'[i]
    BY <1>1, <1>6, Quantities DEF BookInv, Booked
  <2> QED  BY <2>1 DEF Booked, Orders, Pairs
<1>9. sale.st # "working" /\ \A c \in Pairs \ {b} : pair[c].st # "working"
  BY <1>2 DEF NoPairBeside, PairInv, Recorded
<1>10. Ordered'
  <2>1. Backed(pair[b])'  BY <1>3, <1>4, <1>7, OrbExitConstants DEF Backed
  <2>2. \A c \in Pairs : Backed(pair[c])'  BY <1>3, <1>9, <2>1 DEF Backed
  <2>3. Backed(sale)'  BY <1>1, <1>9 DEF Backed
  <2>4. AllSold' <= Qty  BY <1>4, <1>7, OrbExitConstants
  <2>5. \A c \in Pairs : /\ pair'[c].qty \in 0..Qty /\ pair'[c].sold \in 0..Qty
                         /\ pair'[c].st = "none" => pair'[c].sold = 0
    BY <1>3, <1>4, OrbExitConstants DEF BookInv, Ordered
  <2>6. sale'.qty \in 0..Qty /\ sale'.sold \in 0..Qty  BY <1>1 DEF BookInv, Ordered
  <2> QED  BY <2>2, <2>3, <2>4, <2>5, <2>6 DEF Ordered, Pairs
<1>11. \A c \in Pairs : Settles(c) => Settles(c)'  BY <1>1, <1>2, <1>3 DEF Settles
<1>12. ~settled  BY <1>2, SoldOut
<1> QED  BY <1>1, <1>8, <1>10, <1>11, <1>12, BookOrders

LEMMA BookSaleFills ==
  ASSUME Shape, Shape', PairInv', NoPairBeside, NoPairBeside', BookInv, SaleFills
  PROVE  BookInv'
<1>1. UNCHANGED <<pair, booked, prot, size, plan, row, settled, pc>>  BY DEF SaleFills, durable
<1>2. sale \in SaleOrder /\ sale.st = "working" /\ sale' = Filled(sale)
  BY DEF SaleFills, Shape, SaleOrder
<1>3. /\ sale'.sold = sale.sold + 1 /\ sale'.qty = sale.qty
      /\ sale'.st = IF sale.sold + 1 = sale.qty THEN "gone" ELSE "working"
  BY <1>2, FilledIs
<1>4. /\ sale.sold < sale.qty /\ AllSold + (sale.qty - sale.sold) <= Qty
      /\ sale.sold \in 0..Qty /\ sale.qty \in 0..Qty
  BY <1>2 DEF BookInv, Ordered, Backed
<1>5. 0 \in Orders  BY DEF Orders
<1>6. Sold'[0] = Sold[0] + 1 /\ \A i \in Orders \ {0} : Sold'[i] = Sold[i]
  <2>1. \A i \in Orders : Sold[i] = IF i = 0 THEN sale.sold ELSE pair[i].sold  BY DEF Sold
  <2>2. \A i \in Orders : Sold'[i] = IF i = 0 THEN sale'.sold ELSE pair'[i].sold
    BY DEF Sold, Orders
  <2> QED  BY <1>1, <1>3, <1>5, <2>1, <2>2
<1>7. AllSold' = AllSold + 1 /\ AllSold \in Int  BY <1>5, <1>6, SoldOne, Quantities
<1>8. Booked'
  <2>1. \A i \in Orders : booked'[i] >= 0 /\ booked'[i] <= Sold'[i]
    BY <1>1, <1>6, Quantities DEF BookInv, Booked
  <2> QED  BY <2>1 DEF Booked, Orders, Pairs
<1>9. \A c \in Pairs : pair[c].st # "working"  BY <1>2 DEF NoPairBeside
<1>10. Ordered'
  <2>2. \A c \in Pairs : Backed(pair[c])'  BY <1>1, <1>9 DEF Backed
  <2>3. Backed(sale)'  BY <1>3, <1>4, <1>7, OrbExitConstants DEF Backed
  <2>4. AllSold' <= Qty  BY <1>4, <1>7, OrbExitConstants
  <2>5. \A c \in Pairs : /\ pair'[c].qty \in 0..Qty /\ pair'[c].sold \in 0..Qty
                         /\ pair'[c].st = "none" => pair'[c].sold = 0
    BY <1>1 DEF BookInv, Ordered
  <2>6. sale'.qty \in 0..Qty /\ sale'.sold \in 0..Qty  BY <1>3, <1>4, OrbExitConstants
  <2> QED  BY <2>2, <2>3, <2>4, <2>5, <2>6 DEF Ordered, Pairs
<1>11. \A c \in Pairs : Settles(c) => Settles(c)'  BY <1>1 DEF Settles
<1>12. ~settled  BY <1>2, SoldOut
<1>13. sale'.st # "none"  BY <1>3
<1> QED  BY <1>1, <1>8, <1>10, <1>11, <1>12, <1>13, BookOrders

\* An order ends.
LEMMA BookEnds ==
  ASSUME Shape, Shape', PairInv', NoPairBeside', BookInv,
         UNCHANGED <<booked, prot, size, plan, row, settled>>,
         pc'[Recon] = pc[Recon] \/ pc'[Recon] \notin {"plan", "prewire", "post"},
         \A s \in Sellers : pc'[s] \in Unsent \cup Sizing => pc'[s] = pc[s],
         sale'.st = "none" => sale.st = "none",
         sale'.sold = sale.sold, sale'.qty = sale.qty, sale'.st = "working" => sale.st = "working",
         \A b \in Pairs : /\ pair'[b].sold = pair[b].sold /\ pair'[b].qty = pair[b].qty
                          /\ pair'[b].st = pair[b].st \/ pair'[b].st = "gone"
  PROVE  BookInv'
<1>1. AllSold' = AllSold /\ \A i \in Orders : Sold'[i] = Sold[i]  BY SoldKept
<1>2. Booked'  BY <1>1 DEF BookInv, Booked, Orders, Pairs
<1>3. Ordered'  BY <1>1 DEF BookInv, Ordered, Backed, Pairs
<1>4. \A c \in Pairs : Settles(c) => Settles(c)'  BY DEF Settles
<1> QED  BY <1>1, <1>2, <1>3, <1>4, BookOrders

LEMMA BookPairEnds ==
  ASSUME Shape, Shape', PairInv', NoPairBeside', BookInv, NEW b \in Pairs, PairEnds(b)
  PROVE BookInv'
<1>1. UNCHANGED <<sale, booked, prot, size, plan, row, settled, pc>>  BY DEF PairEnds, durable
<1>2. \A c \in Pairs : /\ pair'[c].sold = pair[c].sold /\ pair'[c].qty = pair[c].qty
                       /\ pair'[c].st = pair[c].st \/ pair'[c].st = "gone"
  BY DEF PairEnds, Shape
<1> QED  BY <1>1, <1>2, BookEnds

LEMMA BookSaleEnds ==
  ASSUME Shape, Shape', PairInv', NoPairBeside', BookInv, SaleEnds PROVE BookInv'
<1>1. UNCHANGED <<pair, booked, prot, size, plan, row, settled, pc>>  BY DEF SaleEnds, durable
<1>2. sale'.sold = sale.sold /\ sale'.qty = sale.qty /\ sale'.st = "gone"  BY DEF SaleEnds, Shape
<1> QED  BY <1>1, <1>2, BookEnds

LEMMA BookCancel ==
  ASSUME Shape, Shape', PairInv', NoPairBeside', BookInv, NEW a \in Actors, Cancel(a) PROVE BookInv'
<1>1. UNCHANGED <<sale, booked, prot, size, plan, row, settled>>  BY DEF Cancel, durable
<1>2. \A c \in Pairs : /\ pair'[c].sold = pair[c].sold /\ pair'[c].qty = pair[c].qty
                       /\ pair'[c].st = pair[c].st \/ pair'[c].st = "gone"
  BY DEF Cancel, Shape
<1>3. Goto(a, "probe") /\ pc[a] = "cancel"  BY DEF Cancel
<1>4. pc'[a] = "probe" /\ \A t \in Actors : t # a => pc'[t] = pc[t]  BY <1>3, Goes
<1>5. \A s \in Sellers : pc'[s] \in Unsent \cup Sizing => pc'[s] = pc[s]
  BY <1>4 DEF Actors, Unsent, PastRelease, Sizing, Late
<1>6. pc'[Recon] = pc[Recon] \/ pc'[Recon] = "probe"  BY <1>4 DEF Actors
<1> QED  BY <1>1, <1>2, <1>5, <1>6, BookEnds

\* The pair's POST: no closer is past its release, so what the pair may sell is owned.
LEMMA BookReconPost ==
  ASSUME Shape, Shape', PairInv, PairInv', ClaimInv, NoPairBeside', BookInv, ReconPost
  PROVE BookInv'
<1>1. UNCHANGED <<sale, booked, prot, size, plan, row, settled>> /\ pc[Recon] = "post"
  BY DEF ReconPost, durable
<1>2. PICK p \in {"idle", "accepted"} : Goto(Recon, p)  BY DEF ReconPost
<1>3. pc'[Recon] = p /\ \A s \in Sellers : pc'[s] = pc[s]  BY <1>2, Goes, ReconGoes DEF Actors
<1>4. /\ prot.base \in Pairs /\ prot.base = plan.base + 1 /\ pair[prot.base].sold = 0 /\ AllSettle
      /\ pair[prot.base].st = "none"
  BY <1>1, UnpostedSettles DEF PairInv, Planned
<1>5. CASE pair' = pair
  BY <1>1, <1>3, <1>5, BookEnds
<1>6. CASE pair' = [pair EXCEPT ![prot.base] =
                      [st |-> "working", qty |-> plan.q, sold |-> 0, asked |-> FALSE]]
  <2> DEFINE b == prot.base
  <2>1. /\ pair'[b].st = "working" /\ pair'[b].qty = plan.q /\ pair'[b].sold = 0
        /\ \A c \in Pairs \ {b} : pair'[c] = pair[c]
    BY <1>4, <1>6 DEF Shape
  <2>2. AllSold' = AllSold /\ \A i \in Orders : Sold'[i] = Sold[i]  BY <1>1, <1>4, <2>1, SoldKept
  <2>3. sale.st = "none"  BY <1>1, <1>4, <2>1 DEF NoPairBeside
  <2>4. plan.q = Owned /\ plan.q > 0 /\ plan.q \in 0..Qty  BY <1>1, <2>3 DEF BookInv, SizedPair
  <2>5. Owned = Qty - AllSold
    <3>1. \A i \in Pairs : booked[i] = Sold[i]  BY <1>4, Quantities DEF AllSettle, Settles
    <3>2. 0 \in Orders /\ Sold[0] = 0  BY <2>3, Quantities DEF ClaimInv, Rowed, Orders
    <3>3. booked[0] = 0  BY <3>2, Quantities DEF BookInv, Booked
    <3> QED  BY <3>1, <3>2, <3>3, AllBooked DEF Orders
  <2>6. Booked'  BY <1>1, <2>2 DEF BookInv, Booked, Orders, Pairs
  <2>7. Ordered'
    <3>1. Backed(pair[prot.base])'
      BY <1>1, <2>1, <2>2, <2>4, <2>5, Quantities, OrbExitConstants DEF Backed
    <3>2. \A c \in Pairs : Backed(pair[c])'  BY <1>1, <2>1, <2>2, <3>1 DEF BookInv, Ordered, Backed
    <3>3. Backed(sale)'  BY <1>1, <2>3 DEF Backed
    <3>4. \A c \in Pairs : /\ pair'[c].qty \in 0..Qty /\ pair'[c].sold \in 0..Qty
                           /\ pair'[c].st = "none" => pair'[c].sold = 0
      BY <2>1, <2>4, OrbExitConstants DEF BookInv, Ordered
    <3> QED  BY <1>1, <2>2, <3>2, <3>3, <3>4 DEF BookInv, Ordered, Pairs
  <2>8. Proved'
    <3>1. \A c \in Pairs : c # b => Settles(c)'  BY <1>1, <1>4, <2>1 DEF AllSettle, Settles
    <3>2. ~Bare'  BY <1>1 DEF PairInv, Planned, Bare
    <3>3. \A s \in Sellers : pc'[s] \notin Unsent  BY <1>4, <2>1 DEF NoPairBeside, Unsent
    <3> QED  BY <1>1, <3>1, <3>2, <3>3 DEF Proved, Sellers, Unsent, PastRelease, Pairs
  <2>9. Owned' = Owned  BY <1>1, OwnedKept
  <2>10. SizedSale'  BY <1>1, <1>3, <2>9 DEF BookInv, SizedSale, Sizing, Late
  <2>11. SizedPair'  BY <1>1, <1>3 DEF BookInv, SizedPair
  <2>12. Limits'  BY <1>1, <2>2 DEF BookInv, Limits
  <2> QED  BY <2>6, <2>7, <2>8, <2>10, <2>11, <2>12 DEF BookInv
<1> QED  BY <1>4, <1>5, <1>6 DEF ReconPost

\* The sell's POST: every pair is over and booked, so what the sell may sell is owned.
LEMMA BookPost ==
  ASSUME Shape, Shape', PairInv', ClaimInv, NoPairBeside', BookInv, NEW s \in Sellers, Post(s)
  PROVE BookInv'
<1>1. UNCHANGED <<pair, booked, prot, size, plan, row, settled>> /\ pc[s] = "wire" /\ Goto(s, "posted")
  BY DEF Post, durable
<1>2. pc'[s] = "posted" /\ \A t \in Actors : t # s => pc'[t] = pc[t]  BY <1>1, Goes DEF Actors
<1>3. pc'[Recon] = pc[Recon] /\ \A t \in Sellers : pc'[t] \in Unsent \cup Sizing => pc'[t] = pc[t]
  BY <1>2 DEF Actors, Sellers, Recon, Unsent, Sizing, Late
<1>4. sale.st = "none" /\ sale.qty = 0 /\ sale.sold = 0  BY <1>1 DEF ClaimInv, Fenced, Rowed, Late
<1>5. pc[s] \in Sizing /\ pc[s] \in Unsent  BY <1>1 DEF Sizing, Late, Unsent, PastRelease
<1>6. AllSettle /\ size[s] = Owned /\ size[s] > 0 /\ size[s] \in 0..Qty
  BY <1>5 DEF BookInv, Proved, SizedSale
<1>7. /\ sale'.sold = 0
      /\ \/ sale'.st = "refused" /\ sale'.qty = 0
         \/ sale'.st = "working" /\ sale'.qty = size[s]
  BY <1>4, <1>6 DEF Post, Shape
<1>8. AllSold' = AllSold /\ \A i \in Orders : Sold'[i] = Sold[i]  BY <1>1, <1>4, <1>7, SoldKept
<1>9. Owned = Qty - AllSold
  <2>1. \A i \in Pairs : booked[i] = Sold[i]  BY <1>6, Quantities DEF AllSettle, Settles
  <2>2. 0 \in Orders /\ Sold[0] = 0  BY <1>4, Quantities DEF Orders
  <2>3. booked[0] = 0  BY <2>2, Quantities DEF BookInv, Booked
  <2> QED  BY <2>1, <2>2, <2>3, AllBooked DEF Orders
<1>10. Booked'  BY <1>1, <1>8 DEF BookInv, Booked, Orders, Pairs
<1>11. Ordered'
  <2>1. \A c \in Pairs : Backed(pair[c])'  BY <1>1, <1>8 DEF BookInv, Ordered, Backed
  <2>2. Backed(sale)'  BY <1>6, <1>7, <1>8, <1>9, Quantities, OrbExitConstants DEF Backed
  <2>3. sale'.qty \in 0..Qty /\ sale'.sold \in 0..Qty  BY <1>6, <1>7, OrbExitConstants
  <2> QED  BY <1>1, <1>8, <2>1, <2>2, <2>3 DEF BookInv, Ordered, Pairs
<1>12. \A c \in Pairs : Settles(c) => Settles(c)'  BY <1>1 DEF Settles
<1>13. sale'.st # "none"  BY <1>7
<1> QED  BY <1>1, <1>3, <1>8, <1>10, <1>11, <1>12, <1>13, BookOrders

\* A restart forgets the sizes and the plan, and keeps the rest.
LEMMA BookCrash == ASSUME Shape, Shape', BookInv, Crash PROVE BookInv'
<1>1. UNCHANGED <<pair, sale, booked, prot, row, settled>>  BY DEF Crash, wires, durable
<1>2. \A a \in Actors : pc'[a] = "idle"  BY DEF Crash
<1>3. Ordered' /\ AllSold' = AllSold  BY <1>1, OrderedKept DEF BookInv
<1>4. Booked'  BY <1>1, OrderedKept DEF BookInv, Booked, Orders, Pairs
<1>5. Proved'  BY <1>1, <1>2, Elsewhere DEF BookInv, Proved, Bare, AllSettle, Settles, Actors
<1>6. SizedSale'
  <2>1. \A s \in Sellers : size'[s] = 0  BY DEF Crash
  <2> QED  BY <1>2, <2>1, Elsewhere, OrbExitConstants DEF SizedSale, Actors
<1>7. SizedPair'  BY <1>2, OrbExitConstants DEF Crash, SizedPair, Actors
<1>8. Limits'  BY <1>1, <1>3 DEF BookInv, Limits
<1> QED  BY <1>3, <1>4, <1>5, <1>6, <1>7, <1>8 DEF BookInv

\* Nothing is sold, nothing is booked.
LEMMA BookStart == ASSUME Init, Shape PROVE BookInv
<1>1. \A i \in Orders : booked[i] = 0 /\ Sold[i] = 0
  <2>1. \A i \in Orders : booked[i] = 0  BY DEF Init, Orders
  <2>2. sale.sold = 0 /\ \A b \in Pairs : pair[b].sold = 0  BY DEF Init
  <2> QED  BY <2>1, <2>2 DEF Sold, Orders
<1>2. AllSold = 0  BY <1>1, FiniteOrders, TotalZero DEF AllSold
<1>3. Owned = Qty  BY <1>1, <1>2, AllBooked, OrbExitConstants
<1>4. Booked  BY <1>1 DEF Booked
<1>5. Ordered
  <2>1. \A b \in Pairs : /\ pair[b].sold = 0 /\ pair[b].qty \in {0, Qty}
                         /\ pair[b].st = "working" => pair[b].qty = Qty
    BY DEF Init
  <2>2. sale.st = "none" /\ sale.sold = 0 /\ sale.qty = 0  BY DEF Init
  <2> QED  BY <1>2, <2>1, <2>2, OrbExitConstants DEF Ordered, Backed
<1>6. Proved
  <2>1. \A b \in Pairs : booked[b] = 0 /\ pair[b].sold = 0  BY DEF Init
  <2>2. \A b \in Pairs : pair[b].st = "working" => prot.base = b /\ ~Bare
    BY DEF Init, Bare
  <2>3. \A s \in Sellers : pc[s] = "idle"  BY DEF Init, Actors
  <2> QED  BY <2>1, <2>2, <2>3, Elsewhere DEF Proved, AllSettle, Settles
<1>7. SizedSale  BY OrbExitConstants, Elsewhere DEF Init, SizedSale, Actors
<1>8. SizedPair  BY OrbExitConstants DEF Init, SizedPair, Actors
<1>9. Limits  BY OrbExitConstants DEF Init, Limits
<1> QED  BY <1>4, <1>5, <1>6, <1>7, <1>8, <1>9 DEF BookInv

\* The books through every step, while no live pair is beside a sell.
LEMMA BookStep ==
  ASSUME Shape, Shape', PairInv, PairInv', ClaimInv, NoPairBeside, NoPairBeside', BookInv, Step
  PROVE  BookInv'
<1>1. CASE Broker
  BY <1>1, BookPairFills, BookPairEnds, BookSaleFills, BookSaleEnds DEF Broker
<1>2. ASSUME NEW a \in Actors, Release(a) \/ Cancel(a) \/ Probe(a)  PROVE BookInv'
  BY <1>2, BookRelease, BookCancel, BookProbe
<1>3. CASE Reconciler
  BY <1>3, BookReconRead, BookReconMarks, BookReconPrepare, BookReconPrewire, BookReconPost
  DEF Reconciler
<1>4. CASE StopDriver
  BY <1>4, BookStop, BookStopFlat, BookStopKnown, BookStopTargets DEF StopDriver
<1>5. CASE SyncOrders \/ Crash  BY <1>5, BookSyncOrders, BookCrash
<1>6. ASSUME NEW s \in Normal, Claim(s)  PROVE BookInv'  BY <1>6, BookClaim
<1>7. ASSUME NEW s \in Sellers, Closer(s) \/ Fail(s)  PROVE BookInv'
  BY <1>7, BookEnter, BookVerify, BookSize, BookPrepare, BookPost, BookAnswer, BookFail
  DEF Closer
<1> QED  BY <1>1, <1>2, <1>3, <1>4, <1>5, <1>6, <1>7 DEF Step, Releasing

------------------------------------------------------------------------------
(* Scenes in which no live pair is beside a sell.                           *)

\* A scene without closers stays one, and nobody claims.
LEMMA UnclosedStep ==
  ASSUME Shape, PairInv, Unclosed, Step, scene' = scene
  PROVE  Unclosed'
<1>0. \A s \in Sellers : s \notin scene.closers /\ pc[s] = "idle"  BY DEF Unclosed
<1>1. CASE Broker \/ SyncOrders
  BY <1>1 DEF Broker, PairFills, PairEnds, SaleFills, SaleEnds, SyncOrders, durable, Unclosed
<1>2. CASE Crash
  BY <1>2 DEF Crash, durable, Unclosed, Actors
<1>3. CASE Reconciler
  <2>1. \A s \in Sellers : pc'[s] = pc[s]
    <3>1. \E p : pc' = pc \/ Goto(Recon, p)
      BY <1>3 DEF Reconciler, ReconRead, ReconSeen, ReconPrepare, ReconUnsent, ReconPrewire,
         ReconPost, ReconAccepted
    <3> QED  BY <3>1, ReconGoes
  <2>2. claim' = claim
    BY <1>3 DEF Reconciler, ReconRead, ReconSeen, ReconPrepare, ReconUnsent, ReconPrewire,
       ReconPost, ReconAccepted, durable
  <2> QED  BY <2>1, <2>2 DEF Unclosed
<1>4. ASSUME NEW a \in Actors, Release(a) \/ Cancel(a) \/ Probe(a) PROVE Unclosed'
  <2>1. a = Recon  BY <1>0, <1>4 DEF Release, Cancel, Probe, Actors
  <2>2. claim' = claim /\ \E p : Goto(Recon, p)
    BY <1>4, <2>1 DEF Release, Released, Cancel, Probe, Unanswerable, durable, Recon
  <2> QED  BY <2>2, ReconGoes DEF Unclosed
<1>5. ASSUME NEW s \in Sellers, (s \in Normal /\ Claim(s)) \/ Closer(s) \/ Fail(s) PROVE FALSE
  BY <1>0, <1>5 DEF Claim, Closer, Enter, Verify, Size, Prepare, Post, Answer, Fail
<1>6. CASE StopDriver
  <2>1. "stop" \in Sellers  BY DEF Sellers
  <2>2. FALSE
    BY <1>0, <1>6, <2>1 DEF StopDriver, StopFlat, StopKnown, StopTargets, StopEnter, StopClaim,
       StopBind, StopDispatch,
      StopReleased, StopJournal, StopSubmit, StopValidate
  <2> QED  BY <2>2
<1>7. Normal \subseteq Sellers  BY DEF Normal
<1> QED  BY <1>1, <1>2, <1>3, <1>4, <1>5, <1>6, <1>7 DEF Step, Releasing

\* Past its release no closer meets a live pair, whatever step takes it there.
LEMMA BesideKept ==
  ASSUME NoPairBeside, \A b \in Pairs : pair'[b].st = "working" => pair[b].st = "working",
         \/ \A b \in Pairs : pair[b].st # "working"
         \/ /\ \A s \in Sellers : pc'[s] \in PastRelease => \E t \in Sellers : pc[t] \in PastRelease
            /\ sale'.st # "none" => sale.st # "none" \/ \E t \in Sellers : pc[t] \in PastRelease
  PROVE  NoPairBeside'
BY DEF NoPairBeside, PastRelease, Sellers, Pairs

LEMMA BesideGoto ==
  ASSUME Shape, NoPairBeside, NEW a \in Actors, NEW p, Goto(a, p),
         \A b \in Pairs : pair'[b].st = "working" => pair[b].st = "working",
         a \in Sellers /\ p \in PastRelease
           => pc[a] \in PastRelease \/ \A b \in Pairs : pair[b].st # "working",
         sale'.st # "none" => sale.st # "none" \/ \E t \in Sellers : pc[t] \in PastRelease
  PROVE  NoPairBeside'
<1>1. pc'[a] = p /\ \A t \in Actors : t # a => pc'[t] = pc[t]  BY Goes
<1>2. CASE \A b \in Pairs : pair[b].st # "working"  BY <1>2, BesideKept
<1>3. CASE ~\A b \in Pairs : pair[b].st # "working"
  <2>1. \A s \in Sellers : pc'[s] \in PastRelease => \E t \in Sellers : pc[t] \in PastRelease
    BY <1>1, <1>3 DEF Actors
  <2> QED  BY <2>1, BesideKept
<1> QED  BY <1>2, <1>3

LEMMA BesideStep ==
  ASSUME Shape, PairInv, OnePair, NoPairBeside, Step, scene' = scene
  PROVE  NoPairBeside'
<1> DEFINE Same == \A b \in Pairs : pair'[b].st = "working" => pair[b].st = "working"
<1>1. CASE Broker
  <2>1. Same  BY <1>1 DEF Broker, PairFills, PairEnds, SaleFills, SaleEnds, Shape
  <2>2. pc' = pc /\ (sale'.st # "none" => sale.st # "none")
    BY <1>1 DEF Broker, PairFills, PairEnds, SaleFills, SaleEnds
  <2> QED  BY <2>1, <2>2, BesideKept
<1>2. CASE SyncOrders \/ Crash
  <2>1. Same /\ sale' = sale  BY <1>2 DEF SyncOrders, Crash, wires
  <2>2. \A s \in Sellers : pc'[s] \in PastRelease => pc[s] \in PastRelease
    BY <1>2 DEF SyncOrders, Crash, PastRelease, Actors
  <2> QED  BY <2>1, <2>2, BesideKept
<1>3. CASE Reconciler
  <2>1. Recon \notin Sellers /\ Recon \in Actors  BY DEF Recon, Sellers, Actors
  <2>2. pair' = pair /\ sale' = sale
    BY <1>3 DEF Reconciler, ReconRead, ReconSeen, ReconPrepare, ReconUnsent, ReconPrewire,
       ReconPost, ReconAccepted, wires, OnePair
  <2>3. \E p : pc' = pc \/ Goto(Recon, p)
    BY <1>3 DEF Reconciler, ReconRead, ReconSeen, ReconPrepare, ReconUnsent, ReconPrewire,
       ReconPost, ReconAccepted
  <2> QED  BY <2>1, <2>2, <2>3, BesideGoto, BesideKept
<1>4. ASSUME NEW a \in Actors, Release(a) PROVE NoPairBeside'
  <2>1. pair' = pair /\ sale' = sale  BY <1>4 DEF Release, wires
  <2>2. CASE Bare
    <3>1. \A b \in Pairs : pair[b].st # "working"  BY <2>2 DEF PairInv, Recorded, Bare
    <3> QED  BY <2>1, <3>1, BesideKept
  <2>3. CASE ~Bare
    <3>1. \E p \in {"probe", "cancel"} : Goto(a, p)  BY <1>4, <2>3 DEF Release, Bare
    <3> QED  BY <2>1, <3>1, BesideGoto DEF PastRelease
  <2> QED  BY <2>2, <2>3
<1>5. ASSUME NEW a \in Actors, Cancel(a) PROVE NoPairBeside'
  <2>1. Same /\ sale' = sale /\ Goto(a, "probe")  BY <1>5 DEF Cancel, Shape
  <2> QED  BY <2>1, BesideGoto DEF PastRelease
<1>6. ASSUME NEW a \in Actors, Probe(a) PROVE NoPairBeside'
  <2>1. pair' = pair /\ sale' = sale  BY <1>6 DEF Probe, wires
  <2>2. CASE pair[prot.base].st = "gone"
    <3>1. \A b \in Pairs : pair[b].st # "working"  BY <2>2 DEF PairInv, Recorded
    <3> QED  BY <2>1, <3>1, BesideKept
  <2>3. CASE pair[prot.base].st # "gone"
    <3>1. Goto(a, "idle")  BY <1>6, <2>3 DEF Probe, Unanswerable, Attention
    <3> QED  BY <2>1, <3>1, BesideGoto DEF PastRelease
  <2> QED  BY <2>2, <2>3
<1>7. ASSUME NEW s \in Normal, Claim(s) PROVE NoPairBeside'
  BY <1>7, BesideGoto DEF Claim, wires, PastRelease, Actors, Normal
<1>8. ASSUME NEW s \in Sellers, Closer(s) \/ Fail(s) PROVE NoPairBeside'
  <2>1. pair' = pair  BY <1>8 DEF Closer, Enter, Verify, Size, Prepare, Post, Answer, Fail, wires
  <2>2. \E p : Goto(s, p) /\ (p \in PastRelease => pc[s] \in PastRelease)
    <3>1. CASE Enter(s) \/ Verify(s)
      <4>1. \E p \in {"entered", "idle", "binding", "release"} : Goto(s, p)
        BY <3>1 DEF Enter, Verify, Attention, Finish
      <4> QED  BY <4>1 DEF PastRelease
    <3>2. CASE Fail(s)
      BY <3>2 DEF Fail, Attention, PastRelease
    <3>3. CASE Size(s) \/ Prepare(s) \/ Post(s) \/ Answer(s)
      <4>1. pc[s] \in PastRelease /\ \E p : Goto(s, p)
        BY <3>3 DEF Size, Prepare, Post, Answer, Attention, Finish, PastRelease
      <4> QED  BY <4>1
    <3> QED  BY <1>8, <3>1, <3>2, <3>3 DEF Closer
  <2>3. sale'.st # "none" => sale.st # "none" \/ pc[s] \in PastRelease
    BY <1>8 DEF Closer, Enter, Verify, Size, Prepare, Post, Answer, Fail, wires, PastRelease
  <2> QED  BY <2>1, <2>2, <2>3, BesideGoto DEF Actors
<1>9. CASE StopDriver
  <2>0. "stop" \in Sellers /\ "stop" \in Actors  BY DEF Sellers, Actors
  <2>1. pair' = pair /\ sale' = sale
    BY <1>9 DEF StopDriver, StopFlat, StopKnown, StopTargets, StopEnter, StopClaim, StopBind,
       StopDispatch,
      StopReleased, StopJournal, StopSubmit, StopValidate, wires
  <2>2. \E p : Goto("stop", p) /\ (p \in PastRelease => pc["stop"] \in PastRelease)
    <3>1. CASE StopFlat \/ StopKnown \/ StopTargets \/ StopEnter \/ StopClaim \/ StopBind \/ StopDispatch
      <4>1. \E p \in {"known", "idle", "targets", "target", "claiming", "entered", "dispatching",
                      "release"} : Goto("stop", p)
        BY <3>1 DEF StopFlat, StopKnown, StopTargets, StopEnter, StopClaim, StopBind, StopDispatch
      <4> QED  BY <4>1 DEF PastRelease
    <3>2. CASE StopReleased \/ StopJournal \/ StopSubmit \/ StopValidate
      <4>1. pc["stop"] \in PastRelease /\ \E p : Goto("stop", p)
        BY <3>2 DEF StopReleased, StopJournal, StopSubmit, StopValidate, Attention, PastRelease
      <4> QED  BY <4>1
    <3> QED  BY <1>9, <3>1, <3>2 DEF StopDriver
  <2> QED  BY <2>0, <2>1, <2>2, BesideGoto
<1>10. Normal \subseteq Sellers  BY DEF Normal
<1> QED  BY <1>1, <1>2, <1>3, <1>4, <1>5, <1>6, <1>7, <1>8, <1>9 DEF Step, Releasing

\* A scene with one pair, attached at the start, never has another.
LEMMA OnePairStep ==
  ASSUME Shape, OnePair, Step, scene' = scene
  PROVE  OnePair'
<1>0. pc[Recon] \notin {"plan", "prewire", "post"} /\ prot.base = 1 /\ scene.pairs = 1
  BY DEF OnePair
<1>1. prot'.base = prot.base
  <2>1. CASE Broker \/ SyncOrders \/ Crash
    BY <2>1 DEF Broker, PairFills, PairEnds, SaleFills, SaleEnds, SyncOrders, Crash, durable
  <2>2. CASE Releasing
    BY <2>2 DEF Releasing, Release, Cancel, Probe, durable, Shape
  <2>3. CASE Reconciler
    BY <1>0, <2>3 DEF Reconciler, ReconRead, ReconSeen, ReconPrepare, ReconUnsent, ReconPrewire,
       ReconPost, ReconAccepted, Phased, durable, Shape
  <2>4. CASE StopDriver
    BY <2>4 DEF StopDriver, StopFlat, StopKnown, StopTargets, StopEnter, StopClaim, StopBind,
       StopDispatch,
      StopReleased, StopJournal, StopSubmit, StopValidate, durable, Shape
  <2>5. ASSUME NEW s \in Sellers, (s \in Normal /\ Claim(s)) \/ Closer(s) \/ Fail(s)
        PROVE prot'.base = prot.base
    <3>1. prot' = prot \/ \E c : prot' = [prot EXCEPT !.child = c]
      BY <2>5 DEF Claim, Closer, Enter, Verify, Size, Prepare, Post, Answer, Fail, durable
    <3> QED  BY <3>1 DEF Shape
  <2>6. Normal \subseteq Sellers  BY DEF Normal
  <2> QED  BY <2>1, <2>2, <2>3, <2>4, <2>5, <2>6 DEF Step
<1>2. pc'[Recon] \notin {"plan", "prewire", "post"}
  <2>0. Recon \in Actors /\ \A s \in Sellers : s \in Actors /\ s # Recon
    BY DEF Actors, Sellers, Recon
  <2>1. CASE Broker \/ SyncOrders
    BY <1>0, <2>1 DEF Broker, PairFills, PairEnds, SaleFills, SaleEnds, SyncOrders
  <2>2. CASE Crash  BY <2>2 DEF Crash, Actors
  <2>3. CASE Reconciler
    <3>1. pc' = pc \/ \E p \in {"idle", "release", "seen", "accepted"} : Goto(Recon, p)
      BY <1>0, <2>3 DEF Reconciler, ReconRead, ReconSeen, ReconPrepare, ReconUnsent, ReconPrewire,
         ReconPost, ReconAccepted
    <3> QED  BY <1>0, <2>0, <3>1, Goes
  <2>4. ASSUME NEW a \in Actors, Release(a) \/ Cancel(a) \/ Probe(a)
        PROVE pc'[Recon] \notin {"plan", "prewire", "post"}
    <3>1. CASE a = Recon
      <4>1. \E p \in {"idle", "probe", "cancel"} : Goto(Recon, p)
        BY <2>4, <3>1 DEF Release, Released, Cancel, Probe, Unanswerable, Recon
      <4> QED  BY <2>0, <4>1, Goes
    <3>2. CASE a # Recon
      <4>1. \E p : Goto(a, p)
        BY <2>4, <3>2 DEF Release, Released, Cancel, Probe, Unanswerable, Attention
      <4> QED  BY <1>0, <2>0, <3>2, <4>1, Goes
    <3> QED  BY <3>1, <3>2
  <2>5. ASSUME NEW s \in Sellers, (s \in Normal /\ Claim(s)) \/ Closer(s) \/ Fail(s)
        PROVE pc'[Recon] \notin {"plan", "prewire", "post"}
    <3>1. \E p : Goto(s, p)
      BY <2>5 DEF Claim, Closer, Enter, Verify, Size, Prepare, Post, Answer, Fail, Attention, Finish
    <3> QED  BY <1>0, <2>0, <3>1, Goes
  <2>6. CASE StopDriver
    <3>1. \E p : Goto("stop", p)
      BY <2>6 DEF StopDriver, StopFlat, StopKnown, StopTargets, StopEnter, StopClaim, StopBind,
         StopDispatch,
        StopReleased, StopJournal, StopSubmit, StopValidate, Attention
    <3>2. "stop" \in Sellers  BY DEF Sellers
    <3> QED  BY <1>0, <2>0, <3>1, <3>2, Goes
  <2>7. Normal \subseteq Sellers  BY DEF Normal
  <2> QED  BY <2>1, <2>2, <2>3, <2>4, <2>5, <2>6, <2>7 DEF Step, Releasing
<1> QED  BY <1>0, <1>1, <1>2 DEF OnePair

LEMMA GuardedStart == ASSUME NoLatePair, Init PROVE Guarded
<1>1. \A s \in Sellers : pc[s] = "idle"  BY DEF Init, Actors
<1>2. pc[Recon] = "idle" /\ claim.phase = "none" /\ sale.st = "none" /\ scene \in Scenes
  BY DEF Init, Actors
<1>3. CASE scene.closers = {}  BY <1>1, <1>2, <1>3 DEF Guarded, Unclosed
<1>4. CASE scene.attached /\ scene.pairs = 1
  <2>1. prot.base = 1  BY <1>4 DEF Init
  <2>2. NoPairBeside  BY <1>1, <1>2 DEF NoPairBeside, PastRelease
  <2> QED  BY <1>2, <1>4, <2>1, <2>2 DEF Guarded, OnePair
<1> QED  BY <1>2, <1>3, <1>4 DEF NoLatePair

LEMMA GuardedStep ==
  ASSUME Shape, PairInv, Guarded, Step, scene' = scene
  PROVE  Guarded'
BY UnclosedStep, OnePairStep, BesideStep DEF Guarded

\* Without a claim there is no closer past its release and no sell.
LEMMA GuardedBeside == ASSUME ClaimInv, Guarded PROVE NoPairBeside
<1>1. ASSUME Unclosed  PROVE NoPairBeside
  <2>1. sale.st = "none"  BY <1>1 DEF ClaimInv, Rowed, Unclosed
  <2>2. \A s \in Sellers : pc[s] \notin PastRelease  BY <1>1 DEF Unclosed, PastRelease
  <2> QED  BY <2>1, <2>2 DEF NoPairBeside
<1> QED  BY <1>1 DEF Guarded

------------------------------------------------------------------------------
(* The properties.                                                          *)

\* What the pairs may still sell: at most one of them works.
LEMMA OpenPairs ==
  ASSUME Shape, PairInv
  PROVE  LET open == Sum([b \in Pairs |-> CanSell(pair[b])])
         IN /\ (\A b \in Pairs : pair[b].st # "working") => open = 0
            /\ \A b \in Pairs : pair[b].st = "working" => open = pair[b].qty - pair[b].sold
<1> DEFINE f == [b \in Pairs |-> CanSell(pair[b])]
           z == [b \in Pairs |-> 0]
<1>1. DOMAIN f = Pairs /\ IsFiniteSet(Pairs)  BY FiniteOrders
<1>2. \A b \in Pairs : f[b] = IF pair[b].st = "working" THEN pair[b].qty - pair[b].sold ELSE 0
  BY DEF CanSell
<1>3. \A b \in Pairs : f[b] \in Int /\ z[b] \in Int /\ z[b] = 0  BY <1>2 DEF Shape
<1>4. Sum(f) = Total(f, Pairs)  BY <1>1 DEF Sum
<1> HIDE DEF f, z
<1>5. ASSUME \A b \in Pairs : pair[b].st # "working" PROVE Total(f, Pairs) = 0
  BY <1>1, <1>2, <1>5, TotalZero
<1>6. ASSUME NEW b \in Pairs, pair[b].st = "working"
      PROVE Total(f, Pairs) = pair[b].qty - pair[b].sold
  <2>1. \A c \in Pairs \ {b} : f[c] = z[c]  BY <1>2, <1>3, <1>6 DEF PairInv, Recorded
  <2>2. Total(f, Pairs) = Total(z, Pairs) + (f[b] - z[b])  BY <1>1, <1>3, <2>1, TotalChange
  <2>3. Total(z, Pairs) = 0  BY <1>1, <1>3, TotalZero
  <2> QED  BY <1>2, <1>3, <1>6, <2>2, <2>3
<1>7. Sum(f) = Sum([b \in Pairs |-> CanSell(pair[b])])  BY DEF f
<1> QED  BY <1>4, <1>5, <1>6, <1>7

\* The properties follow from the invariants.
LEMMA SellsOwnHolds == ASSUME Shape, PairInv, NoPairBeside, BookInv PROVE SellsOwn
<1> DEFINE open == Sum([b \in Pairs |-> CanSell(pair[b])])
<1>1. SoldAll = AllSold /\ AllSold \in Int  BY SoldAllIs, Quantities
<1>2. /\ (\A b \in Pairs : pair[b].st # "working") => open = 0
      /\ \A b \in Pairs : pair[b].st = "working" => open = pair[b].qty - pair[b].sold
  BY OpenPairs
<1>3. OpenAll = open + CanSell(sale)  BY DEF OpenAll
<1> HIDE DEF open
<1>4. AllSold <= Qty /\ Backed(sale) /\ \A b \in Pairs : Backed(pair[b])  BY DEF BookInv, Ordered
<1>5. sale.qty \in Int /\ sale.sold \in Int /\ \A b \in Pairs : pair[b].qty \in Int /\ pair[b].sold \in Int
  BY DEF Shape
<1>6. CASE \A b \in Pairs : pair[b].st # "working"
  <2>1. OpenAll = IF sale.st = "working" THEN sale.qty - sale.sold ELSE 0
    BY <1>2, <1>3, <1>5, <1>6 DEF CanSell
  <2> QED  BY <1>1, <1>4, <1>5, <2>1, OrbExitConstants DEF SellsOwn, Backed
<1>7. CASE \E b \in Pairs : pair[b].st = "working"
  <2>1. PICK b \in Pairs : pair[b].st = "working"  BY <1>7
  <2>2. sale.st = "none"  BY <2>1 DEF NoPairBeside
  <2>3. OpenAll = pair[b].qty - pair[b].sold  BY <1>2, <1>3, <1>5, <2>1, <2>2 DEF CanSell
  <2>4. AllSold + (pair[b].qty - pair[b].sold) <= Qty  BY <1>4, <2>1 DEF Backed
  <2> QED  BY <1>1, <2>3, <2>4 DEF SellsOwn
<1> QED  BY <1>6, <1>7

LEMMA SettledIsFlatHolds == ASSUME Shape, PairInv, BookInv PROVE SettledIsFlat
<1> SUFFICES ASSUME settled PROVE SoldAll = Qty /\ OpenAll = 0  BY DEF SettledIsFlat
<1>1. SoldAll = Qty  BY SoldAllIs DEF BookInv, Limits
<1>2. sale.st # "working" /\ \A b \in Pairs : pair[b].st # "working"  BY SoldOut
<1>3. Sum([b \in Pairs |-> CanSell(pair[b])]) = 0  BY <1>2, OpenPairs
<1>4. OpenAll = 0  BY <1>2, <1>3 DEF OpenAll, CanSell
<1> QED  BY <1>1, <1>4

LEMMA TypeHolds == ASSUME Shape, BookInv PROVE TypeOK
<1>1. \A i \in Orders : booked[i] \in 0..Qty
  <2>1. \A i \in Orders : Sold[i] \in 0..Qty  BY Quantities DEF BookInv, Ordered, Orders
  <2> QED  BY <2>1, Quantities, OrbExitConstants DEF BookInv, Booked
<1>2. booked \in [{0} \cup Pairs -> 0..Qty]  BY <1>1 DEF Shape, Orders
<1>3. Owned \in 0..Qty  BY OwnedBounds DEF BookInv, Ordered
<1>4. pair \in [Pairs -> [st : {"none", "working", "gone"}, qty : 0..Qty, sold : 0..Qty, asked : BOOLEAN]]
  <2>1. \A b \in Pairs :
          pair[b] \in [st : {"none", "working", "gone"}, qty : 0..Qty, sold : 0..Qty, asked : BOOLEAN]
    BY DEF Shape, BookInv, Ordered
  <2> QED  BY <2>1 DEF Shape
<1>5. sale \in [st : {"none", "working", "gone", "refused"}, qty : 0..Qty, sold : 0..Qty]
  BY DEF Shape, BookInv, Ordered
<1>6. /\ prot \in [phase : LivePhases \cup {"none", "released"}, base : 0..MaxPairs, qty : 0..Qty,
               latched : BOOLEAN, proof : {"none", "receipts", "unsent"}, child : BOOLEAN]
      /\ row \in [st : {"none", "pending", "open", "over"}, qty : 0..Qty]
  BY DEF Shape, BookInv, Limits, Phases
<1>7. size \in [Sellers -> 0..Qty]  BY DEF Shape, BookInv, SizedSale
<1>8. plan \in [q : 0..Qty, base : 0..MaxPairs, phase : LivePhases \cup {"none", "released"}]
  BY DEF Shape, BookInv, SizedPair, Phases
<1> QED  BY <1>2, <1>3, <1>4, <1>5, <1>6, <1>7, <1>8 DEF TypeOK, Shape, Places

------------------------------------------------------------------------------
(* The theorems.                                                            *)

Core == Shape /\ PairInv /\ ClaimInv

\* The state keeps its shape; what is at the broker is what the record says, the
\* reconciler's plan is the record's (the prewire fences); one closer owns the claim from
\* its first check to its one sell, and the sell has its row (_STATE, prepare).
THEOREM CoreInductive == Spec => []Core
<1>1. Init => Core  BY ShapeStart, PairStart, ClaimStart DEF Core
<1>2. Core /\ [Next]_vars => Core'
  <2> SUFFICES ASSUME Core, [Next]_vars PROVE Core'  OBVIOUS
  <2>1. CASE Next
    <3>1. Shape /\ PairInv /\ ClaimInv /\ Step /\ scene' = scene  BY <2>1 DEF Core, Next
    <3>2. Shape'  BY <3>1, ShapeStep
    <3>3. PairInv'  BY <3>1, PairStep
    <3>4. ClaimInv'  BY <3>1, <3>2, ClaimStep
    <3> QED  BY <3>2, <3>3, <3>4 DEF Core
  <2>2. CASE UNCHANGED vars
    <3>1. Shape'  BY <2>2 DEF Core, Shape, vars, wires, durable
    <3>2. PairInv'  BY <2>2, PairAside DEF Core, vars, wires, durable
    <3>3. ClaimInv'  BY <2>2, ClaimAside DEF Core, vars, wires, durable
    <3> QED  BY <3>1, <3>2, <3>3 DEF Core
  <2> QED  BY <2>1, <2>2
<1> QED  BY <1>1, <1>2, PTL DEF Spec

\* Wherever the process dies, the next one knows what is on the wire: a live pair is the
\* recorded base, and a sell at the broker has its row with its quantity (prepare,
\* reconcile_one's prewire).
THEOREM SentIsDurableAlways == Spec => []SentIsDurable
<1>1. Core => SentIsDurable  BY SentHolds DEF Core
<1> QED  BY <1>1, CoreInductive, PTL

\* In every behaviour in which no live pair is beside a closer past its release, or beside
\* its sell (what reconcile_one promises), the books never run ahead of the broker, what
\* an order may still sell is owned, and a size is what is owned until it is sent.
THEOREM BooksKept == Spec /\ []NoPairBeside => []BookInv
<1>1. Init => BookInv  BY ShapeStart, BookStart
<1>2. Core /\ Core' /\ NoPairBeside /\ NoPairBeside' /\ BookInv /\ [Next]_vars => BookInv'
  <2> SUFFICES ASSUME Core, Core', NoPairBeside, NoPairBeside', BookInv, [Next]_vars
               PROVE  BookInv'
    OBVIOUS
  <2>0. Shape /\ PairInv /\ ClaimInv /\ Shape' /\ PairInv'  BY DEF Core
  <2>1. CASE Next  BY <2>0, <2>1, BookStep DEF Next
  <2>2. CASE UNCHANGED vars
    <3>1. UNCHANGED <<pair, sale, booked, prot, row, settled, pc, size, plan>>
      BY <2>2 DEF vars, wires, durable
    <3>2. Booked'  BY <2>0, <3>1, OrderedKept DEF BookInv, Booked, Orders, Pairs
    <3>3. \A b \in Pairs : Settles(b) => Settles(b)'  BY <3>1 DEF Settles
    <3>4. Owned' = Owned  BY <2>0, <3>1, OwnedKept
    <3>5. Bare' = Bare  BY <3>1 DEF Bare
    <3> QED  BY <2>0, <3>1, <3>2, <3>3, <3>4, <3>5, BookKeeps, BookMove
  <2> QED  BY <2>1, <2>2
<1> QED  BY <1>1, <1>2, CoreInductive, PTL DEF Spec

\* As long as the reconciler keeps that promise, the closers never sell more than the
\* entry bought, whichever of them race, whatever the pair fills while it is cancelled and
\* wherever the process dies (_attempt, release_protection).
THEOREM SellsOwnUnlessBeside == Spec /\ []NoPairBeside => []SellsOwn
<1>1. Core /\ NoPairBeside /\ BookInv => SellsOwn  BY SellsOwnHolds DEF Core
<1> QED  BY <1>1, CoreInductive, BooksKept, PTL

\* As long as it does, SETTLED says what it must: the entry is sold and no order of it can
\* still sell (trusted_census).
THEOREM SettledIsFlatUnlessBeside == Spec /\ []NoPairBeside => []SettledIsFlat
<1>1. Core /\ BookInv => SettledIsFlat  BY SettledIsFlatHolds DEF Core
<1> QED  BY <1>1, CoreInductive, BooksKept, PTL

\* An entry whose pair is attached before a close begins and is its only one, or that has
\* no closer, never has a live pair beside a sell: the sell comes after a proved release
\* (release_protection), and nothing is left to be attached.
THEOREM NoPairBesideAlways ==
  ASSUME NoLatePair
  PROVE  Spec => []NoPairBeside
<1>1. Init => Guarded  BY GuardedStart
<1>2. Core /\ Guarded /\ [Next]_vars => Guarded'
  <2> SUFFICES ASSUME Core, Guarded, [Next]_vars PROVE Guarded'  OBVIOUS
  <2>1. CASE Next  BY <2>1, GuardedStep DEF Core, Next
  <2>2. CASE UNCHANGED vars
    BY <2>2 DEF vars, wires, durable, Guarded, Unclosed, OnePair, NoPairBeside
  <2> QED  BY <2>1, <2>2
<1>3. Core /\ Guarded => NoPairBeside  BY GuardedBeside DEF Core
<1> QED  BY <1>1, <1>2, <1>3, CoreInductive, PTL DEF Spec

\* For such entries the closers never sell more than was bought.
THEOREM SellsOwnAlways ==
  ASSUME NoLatePair
  PROVE  Spec => []SellsOwn
BY NoPairBesideAlways, SellsOwnUnlessBeside, PTL

\* For such entries SETTLED means sold, with nothing left that can sell.
THEOREM SettledIsFlatAlways ==
  ASSUME NoLatePair
  PROVE  Spec => []SettledIsFlat
BY NoPairBesideAlways, SettledIsFlatUnlessBeside, PTL

\* For such entries every quantity stays between nothing and what the entry bought: what
\* is owned on the books (_remaining) is never negative, and no order is larger.
THEOREM TypesHold ==
  ASSUME NoLatePair
  PROVE  Spec => []TypeOK
<1>1. Core /\ BookInv => TypeOK  BY TypeHolds DEF Core
<1> QED  BY <1>1, CoreInductive, BooksKept, NoPairBesideAlways, PTL
==============================================================================
