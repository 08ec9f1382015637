--------------------------- MODULE FillLedgerProofs ---------------------------
(****************************************************************************)
(* Proofs about FillLedger, for any finite set of exits, any quantity and   *)
(* any prices.                                                              *)
(*                                                                          *)
(* The argument.  The snapshots of an order form a chain that ends in what  *)
(* the broker has (BrokerInv); a report in hand is one of them, or an       *)
(* adapter's own word that books nothing (HandInv); so the tables follow    *)
(* the broker from below and meet it when an order is over (TableInv).      *)
(* What an exit may still sell is its size while it works and what it sold  *)
(* once it is over, and all exits together stay within the booked entry     *)
(* (FundInv): an exit is sized by the tables when no other one works.       *)
(****************************************************************************)
EXTENDS FillLedger, TotalsProofs

Reach(o) == IF Working(o) THEN size[o] ELSE truth[o].filled
MaySell == [x \in Exits |-> Reach(x)]

BrokerInv ==
  \A o \in Orders :
    /\ IF truth[o] = Unknown THEN past[o] = {} ELSE truth[o] \in past[o]
    /\ \A s \in past[o] : s.filled <= truth[o].filled /\ (s.event \in Over => s = truth[o])
    /\ truth[o].filled <= size[o]
    /\ Working(o) => truth[o].filled < size[o]

Snap(r) == [event |-> r.event, filled |-> r.filled, value |-> r.value]

Genuine(r) ==
  /\ row[r.order].status # "absent"
  /\ \/ r.origin = "broker" /\ Snap(r) \in past[r.order]
     \/ r.origin = "client" /\ r.filled = 0 /\ r.event \in {"rejected", "cancelled"}

HandInv ==
  /\ posted => row[Entry].status # "absent"
  /\ \A lane \in Lanes : hand[lane] # Nothing => Genuine(hand[lane])

TableInv ==
  \A o \in Orders :
    /\ row[o].status = "absent" => truth[o] = Unknown
    /\ booked[o] <= truth[o].filled
    /\ \A n \in 0..Quantity : <<o, n>> \in ids => n <= booked[o]

FundInv == position = Remaining /\ Total(MaySell, Exits) <= booked[Entry]

\* The inductive invariant.
LedgerInv == TypeOK /\ BrokerInv /\ HandInv /\ TableInv /\ OverIsOver /\ BookedExact /\ FundInv

------------------------------------------------------------------------------
(* Types and sums.                                                          *)

\* The names of events are apart, and a report is never Nothing.
LEMMA Names ==
  /\ Unknown \notin Snapshot /\ Unknown.filled = 0 /\ Unknown.event \notin Over
  /\ Unknown.event \notin {"accepted", "partially_filled"}
  /\ Nothing \notin Report
  /\ Fresh \in Snapshot /\ Fresh.filled = 0 /\ Fresh.event = "accepted"
BY DEF Unknown, Snapshot, Over, Nothing, Report, Fresh, Events

\* Every field of an order has its type.
LEMMA OrderTypes ==
  ASSUME TypeOK, NEW o \in Orders
  PROVE  /\ size[o] \in 0..Quantity /\ size[o] \in Nat /\ booked[o] \in Nat /\ cash[o] \in Nat
         /\ truth[o].filled \in Nat /\ truth[o].value \in Nat /\ Reach(o) \in Nat
         /\ truth[o] # Unknown => truth[o] \in Snapshot
         /\ row[o] \in Row /\ Quantity \in Nat \ {0}
<1>1. truth[o] \in Snapshot \cup {Unknown}  BY DEF TypeOK
<1>2. truth[o].filled \in Nat /\ truth[o].value \in Nat  BY <1>1 DEF Snapshot, Unknown
<1>3. size[o] \in 0..Quantity /\ booked[o] \in 0..Quantity /\ cash[o] \in Nat /\ row[o] \in Row
  BY DEF TypeOK
<1>4. Quantity \in Nat \ {0}  BY FillConstants
<1> QED  BY <1>1, <1>2, <1>3, <1>4 DEF Reach

\* The sums of the ledger are sums of numbers.
LEMMA SumTypes ==
  ASSUME TypeOK
  PROVE  /\ IsFiniteSet(Exits) /\ Exits \subseteq Orders /\ Entry \in Orders /\ Entry \notin Exits
         /\ \A x \in Exits : booked[x] \in Int /\ MaySell[x] \in Int /\ MaySell[x] = Reach(x)
         /\ Total(booked, Exits) \in Nat /\ Total(MaySell, Exits) \in Nat
         /\ Remaining \in Int
<1>1. IsFiniteSet(Exits) /\ Exits \subseteq Orders /\ Entry \in Orders /\ Entry \notin Exits
  BY FillConstants DEF Orders
<1>2. \A x \in Exits : booked[x] \in Nat /\ MaySell[x] \in Nat /\ MaySell[x] = Reach(x)
  BY <1>1, OrderTypes DEF MaySell
<1>3. Total(booked, Exits) \in Nat /\ Total(MaySell, Exits) \in Nat
  BY <1>1, <1>2, TotalNat
<1>4. booked[Entry] \in Nat  BY <1>1, OrderTypes
<1> QED  BY <1>1, <1>2, <1>3, <1>4 DEF Remaining

\* The exits have booked no more than they may sell, which is within the entry.
LEMMA Funded ==
  ASSUME TypeOK, BrokerInv, TableInv, FundInv
  PROVE  /\ \A x \in Exits : booked[x] <= truth[x].filled /\ truth[x].filled <= MaySell[x]
         /\ Total(booked, Exits) <= Total(MaySell, Exits)
         /\ 0 <= Remaining /\ Remaining <= Quantity
<1>1. \A x \in Exits : booked[x] <= truth[x].filled  BY SumTypes DEF TableInv
<1>2. \A x \in Exits : truth[x].filled <= MaySell[x]
  <2> TAKE x \in Exits
  <2>1. x \in Orders /\ MaySell[x] = Reach(x)  BY SumTypes
  <2>2. truth[x].filled <= size[x]  BY <2>1 DEF BrokerInv
  <2>3. truth[x].filled \in Nat  BY <2>1, OrderTypes
  <2> QED  BY <2>1, <2>2, <2>3 DEF Reach
<1>3. \A x \in Exits : booked[x] \in Int /\ MaySell[x] \in Int /\ truth[x].filled \in Nat
  BY SumTypes, OrderTypes
<1>4. \A x \in Exits : booked[x] <= MaySell[x]  BY <1>1, <1>2, <1>3
<1>5. IsFiniteSet(Exits)  BY SumTypes
<1>6. Total(booked, Exits) <= Total(MaySell, Exits)  BY <1>3, <1>4, <1>5, TotalOrder
<1>7. /\ Total(booked, Exits) \in Nat /\ Total(MaySell, Exits) \in Nat
      /\ booked[Entry] \in 0..Quantity /\ Total(MaySell, Exits) <= booked[Entry]
  BY SumTypes DEF FundInv, TypeOK
<1>8. Quantity \in Nat  BY FillConstants
<1> QED  BY <1>1, <1>2, <1>6, <1>7, <1>8 DEF Remaining

\* When nothing that an exit may sell grows, the exits stay funded.
LEMMA StayFunded ==
  ASSUME TypeOK, TypeOK', FundInv, booked' = booked, position' = position,
         \A x \in Exits : Reach(x)' <= Reach(x)
  PROVE  FundInv'
<1>1. \A x \in Exits : MaySell[x] \in Int /\ MaySell'[x] \in Int /\ MaySell'[x] <= MaySell[x]
  <2> TAKE x \in Exits
  <2>1. MaySell[x] \in Int /\ MaySell[x] = Reach(x)  BY SumTypes
  <2>2. x \in Orders  BY SumTypes
  <2>3. Reach(x)' \in Nat
    <3>1. size'[x] \in 0..Quantity /\ truth'[x] \in Snapshot \cup {Unknown}  BY <2>2 DEF TypeOK
    <3>2. truth'[x].filled \in Nat  BY <3>1 DEF Snapshot, Unknown
    <3> QED  BY <3>1, <3>2, FillConstants DEF Reach
  <2>4. MaySell'[x] = Reach(x)'  BY DEF MaySell
  <2> QED  BY <2>1, <2>3, <2>4
<1>2. IsFiniteSet(Exits)  BY SumTypes
<1>3. Total(MaySell', Exits) <= Total(MaySell, Exits)  BY <1>1, <1>2, TotalOrder
<1>4. Total(MaySell', Exits) \in Int /\ Total(MaySell, Exits) \in Int  BY <1>1, <1>2, TotalInt
<1>5. booked[Entry] \in Nat  BY SumTypes, OrderTypes
<1>6. position' = Remaining'  BY DEF FundInv, Remaining
<1> QED  BY <1>3, <1>4, <1>5, <1>6 DEF FundInv

------------------------------------------------------------------------------
(* The broker, and orders that reach it.                                    *)

\* A new snapshot of an order that is not over extends its chain.
LEMMA ShowsChain ==
  ASSUME TypeOK, BrokerInv, NEW o \in Orders, NEW snap \in Snapshot, Shows(o, snap),
         size' \in [Orders -> 0..Quantity], \A p \in Orders : p # o => size'[p] = size[p],
         truth[o].event \notin Over, truth[o].filled <= snap.filled, snap.filled <= size'[o],
         snap.event \in {"accepted", "partially_filled"} => snap.filled < size'[o]
  PROVE  /\ BrokerInv'
         /\ truth' \in [Orders -> Snapshot \cup {Unknown}] /\ past' \in [Orders -> SUBSET Snapshot]
         /\ truth'[o] = snap /\ past'[o] = past[o] \cup {snap}
         /\ \A p \in Orders : p # o => truth'[p] = truth[p] /\ past'[p] = past[p]
<1>1. truth \in [Orders -> Snapshot \cup {Unknown}] /\ past \in [Orders -> SUBSET Snapshot]  BY DEF TypeOK
<1>2. /\ truth' = [truth EXCEPT ![o] = snap] /\ past' = [past EXCEPT ![o] = past[o] \cup {snap}]
  BY DEF Shows
<1>3. /\ truth' \in [Orders -> Snapshot \cup {Unknown}] /\ past' \in [Orders -> SUBSET Snapshot]
      /\ truth'[o] = snap /\ past'[o] = past[o] \cup {snap}
      /\ \A p \in Orders : p # o => truth'[p] = truth[p] /\ past'[p] = past[p]
  BY <1>1, <1>2
<1>4. ASSUME NEW p \in Orders, p # o
      PROVE  /\ IF truth'[p] = Unknown THEN past'[p] = {} ELSE truth'[p] \in past'[p]
             /\ \A s \in past'[p] : s.filled <= truth'[p].filled /\ (s.event \in Over => s = truth'[p])
             /\ truth'[p].filled <= size'[p]
             /\ Working(p)' => truth'[p].filled < size'[p]
  BY <1>3, <1>4 DEF BrokerInv, Working
<1>5. /\ IF truth'[o] = Unknown THEN past'[o] = {} ELSE truth'[o] \in past'[o]
      /\ \A s \in past'[o] : s.filled <= truth'[o].filled /\ (s.event \in Over => s = truth'[o])
      /\ truth'[o].filled <= size'[o]
      /\ Working(o)' => truth'[o].filled < size'[o]
  <2>1. snap # Unknown  BY Names
  <2>2. ASSUME NEW s \in past[o]  PROVE s.filled <= snap.filled /\ s.event \notin Over
    <3>1. s.filled <= truth[o].filled /\ (s.event \in Over => s = truth[o])  BY DEF BrokerInv
    <3>2. s.filled \in Nat /\ snap.filled \in Nat /\ truth[o].filled \in Nat
      BY <1>1, OrderTypes DEF Snapshot
    <3> QED  BY <3>1, <3>2
  <2>3. snap.filled \in Nat  BY DEF Snapshot
  <2> QED  BY <1>3, <2>1, <2>2, <2>3 DEF Working
<1>6. BrokerInv'  BY <1>4, <1>5 DEF BrokerInv
<1> QED  BY <1>3, <1>6

\* A chain that grows keeps what is in hand genuine, and keeps the tables below it.
LEMMA ShowsTables ==
  ASSUME TypeOK, HandInv, TableInv, OverIsOver, BookedExact, NEW o \in Orders,
         hand' = hand, posted' => posted \/ o = Entry, booked' = booked, cash' = cash, ids' = ids,
         \A p \in Orders : row[p].status # "absent" => row'[p].status = row[p].status,
         \A p \in Orders : p # o => truth'[p] = truth[p] /\ past'[p] = past[p] /\ row'[p] = row[p],
         truth'[o].filled \in Nat, truth[o].filled <= truth'[o].filled,
         past[o] \subseteq past'[o],
         row'[o].status # "absent", row'[o].status \in Over => row[o].status \in Over,
         truth[o].event \notin Over
  PROVE  HandInv' /\ TableInv' /\ OverIsOver' /\ BookedExact'
<1>1. \A p \in Orders : past[p] \subseteq past'[p] /\ (row'[p].status = "absent" => row[p].status = "absent")
  OBVIOUS
<1>2. HandInv'
  <2>1. ASSUME NEW lane \in Lanes, hand[lane] # Nothing  PROVE Genuine(hand[lane])'
    <3>1. hand[lane] \in Report  BY <2>1 DEF TypeOK
    <3>2. hand[lane].order \in Orders  BY <3>1 DEF Report
    <3>3. Genuine(hand[lane])  BY <2>1 DEF HandInv
    <3> QED  BY <1>1, <3>2, <3>3 DEF Genuine, Snap
  <2>2. Entry \in Orders  BY SumTypes
  <2> QED  BY <1>1, <2>1, <2>2 DEF HandInv
<1>3. TableInv'
  <2>1. ASSUME NEW p \in Orders
        PROVE  /\ row'[p].status = "absent" => truth'[p] = Unknown
               /\ booked[p] <= truth'[p].filled
    <3>1. /\ row[p].status = "absent" => truth[p] = Unknown
          /\ booked[p] <= truth[p].filled /\ booked[p] \in Nat /\ truth[p].filled \in Nat
      BY OrderTypes DEF TableInv
    <3>2. CASE p # o  BY <3>1, <3>2
    <3>3. CASE p = o  BY <3>1, <3>3
    <3> QED  BY <3>2, <3>3
  <2> QED  BY <2>1 DEF TableInv
<1>4. OverIsOver'
  <2>1. row'[o].status \notin Over  BY DEF OverIsOver
  <2> QED  BY <2>1 DEF OverIsOver
<1>5. BookedExact'  BY <1>1 DEF BookedExact
<1> QED  BY <1>2, <1>3, <1>4, <1>5

\* An execution, or an order that ends.
LEMMA LedgerMarket ==
  ASSUME LedgerInv, Market
  PROVE  LedgerInv'
<1> USE DEF LedgerInv
<1>1. PICK o \in Orders : \/ \E price \in Prices : Execute(o, price)
                          \/ \E event \in {"cancelled", "rejected", "expired"} : Stop(o, event)
  BY DEF Market
<1>2. /\ Working(o) /\ size' = size /\ row' = row /\ booked' = booked /\ cash' = cash /\ ids' = ids
      /\ position' = position /\ hand' = hand /\ posted' = posted
  BY <1>1 DEF Execute, Stop
<1>3. /\ truth[o] \in Snapshot /\ truth[o].filled \in Nat /\ truth[o].value \in Nat
      /\ truth[o].filled < size[o] /\ size[o] \in Nat /\ truth[o].event \notin Over
  BY <1>2, OrderTypes, Names DEF BrokerInv, Working, Over
<1>4. PICK snap \in Snapshot :
        /\ Shows(o, snap) /\ truth[o].filled <= snap.filled /\ snap.filled <= size[o]
        /\ snap.event \in {"accepted", "partially_filled"} => snap.filled < size[o]
  <2>1. ASSUME NEW price \in Prices, Execute(o, price)
        PROVE  \E snap \in Snapshot :
                 /\ Shows(o, snap) /\ truth[o].filled <= snap.filled /\ snap.filled <= size[o]
                 /\ snap.event \in {"accepted", "partially_filled"} => snap.filled < size[o]
    <3> DEFINE snap == [event |-> IF truth[o].filled + 1 = size[o] THEN "filled" ELSE "partially_filled",
                        filled |-> truth[o].filled + 1, value |-> truth[o].value + price]
    <3>1. Shows(o, snap)  BY <2>1 DEF Execute
    <3>2. price \in Nat  BY FillConstants
    <3>3. snap \in Snapshot  BY <1>3, <3>2 DEF Snapshot, Events, Over
    <3>4. snap.filled = truth[o].filled + 1 /\ snap.event = IF truth[o].filled + 1 = size[o] THEN "filled" ELSE "partially_filled"
      OBVIOUS
    <3> HIDE DEF snap
    <3>5. truth[o].filled <= snap.filled /\ snap.filled <= size[o]  BY <1>3, <3>4
    <3>6. snap.event \in {"accepted", "partially_filled"} => snap.filled < size[o]  BY <1>3, <3>4
    <3> QED  BY <3>1, <3>3, <3>5, <3>6
  <2>2. ASSUME NEW event \in {"cancelled", "rejected", "expired"}, Stop(o, event)
        PROVE  \E snap \in Snapshot :
                 /\ Shows(o, snap) /\ truth[o].filled <= snap.filled /\ snap.filled <= size[o]
                 /\ snap.event \in {"accepted", "partially_filled"} => snap.filled < size[o]
    <3> DEFINE snap == [truth[o] EXCEPT !.event = event]
    <3>1. Shows(o, snap)  BY <2>2 DEF Stop
    <3>2. snap \in Snapshot /\ snap.event = event /\ snap.filled = truth[o].filled
      BY <1>3 DEF Snapshot, Events, Over
    <3> HIDE DEF snap
    <3> QED  BY <1>3, <3>1, <3>2
  <2> QED  BY <1>1, <2>1, <2>2
<1>5. /\ BrokerInv'
      /\ truth' \in [Orders -> Snapshot \cup {Unknown}] /\ past' \in [Orders -> SUBSET Snapshot]
      /\ truth'[o] = snap /\ past'[o] = past[o] \cup {snap}
      /\ \A p \in Orders : p # o => truth'[p] = truth[p] /\ past'[p] = past[p]
  <2>1. size' \in [Orders -> 0..Quantity]  BY <1>2 DEF TypeOK
  <2> QED  BY <1>2, <1>3, <1>4, <2>1, ShowsChain
<1>6. row[o].status # "absent"
  <2>1. truth[o] # Unknown  BY <1>3, Names
  <2> QED  BY <2>1 DEF TableInv
<1>7. HandInv' /\ TableInv' /\ OverIsOver' /\ BookedExact'
  <2>1. truth'[o].filled \in Nat /\ truth[o].filled <= truth'[o].filled  BY <1>4, <1>5 DEF Snapshot
  <2> QED  BY <1>2, <1>3, <1>5, <1>6, <2>1, ShowsTables
<1>8. TypeOK'  BY <1>2, <1>5 DEF TypeOK
<1>9. FundInv'
  <2>1. ASSUME NEW x \in Exits  PROVE Reach(x)' <= Reach(x)
    <3>0. x \in Orders  BY SumTypes
    <3>1. CASE x # o  BY <1>2, <1>5, <3>0, <3>1, OrderTypes DEF Reach, Working
    <3>2. CASE x = o
      <4>1. Reach(x) = size[o]  BY <1>2, <3>2 DEF Reach
      <4>2. Reach(x)' = IF Working(o)' THEN size[o] ELSE snap.filled  BY <1>2, <1>5, <3>2 DEF Reach
      <4> QED  BY <4>1, <4>2, <1>3, <1>4
    <3> QED  BY <3>1, <3>2
  <2> QED  BY <1>2, <1>8, <2>1, StayFunded
<1> QED  BY <1>5, <1>7, <1>8, <1>9

\* An order is sent: it is new to the broker, and what others may sell stays as it is.
LEMMA Sent ==
  ASSUME LedgerInv, NEW o \in Orders, NEW arrives \in BOOLEAN, NEW q \in 1..Quantity,
         row[o].status = "absent", size' = [size EXCEPT ![o] = q],
         row' = [row EXCEPT ![o].status = "pending"], Reaches(o, arrives),
         booked' = booked, cash' = cash, ids' = ids, position' = position, hand' = hand,
         posted' \in BOOLEAN, posted' => posted \/ o = Entry
  PROVE  /\ TypeOK' /\ BrokerInv' /\ HandInv' /\ TableInv' /\ OverIsOver' /\ BookedExact'
         /\ Reach(o) = 0 /\ Reach(o)' <= q
         /\ \A p \in Orders : p # o => Reach(p)' = Reach(p)
<1> USE DEF LedgerInv
<1>1. truth[o] = Unknown /\ past[o] = {} /\ truth[o].filled = 0 /\ truth[o].event \notin Over /\ ~Working(o)
  BY Names DEF TableInv, BrokerInv, Working
<1>2. Quantity \in Nat /\ q \in Nat /\ 0 < q  BY FillConstants
<1>3. /\ size' \in [Orders -> 0..Quantity] /\ size'[o] = q
      /\ \A p \in Orders : p # o => size'[p] = size[p]
  BY <1>2 DEF TypeOK
<1>4. /\ row' \in [Orders -> Row] /\ row'[o].status = "pending"
      /\ \A p \in Orders : p # o => row'[p] = row[p]
  <2>1. row \in [Orders -> Row]  BY DEF TypeOK
  <2> QED  BY <2>1 DEF Row
<1>5. /\ BrokerInv'
      /\ truth' \in [Orders -> Snapshot \cup {Unknown}] /\ past' \in [Orders -> SUBSET Snapshot]
      /\ truth'[o].filled = 0 /\ past[o] \subseteq past'[o]
      /\ \A p \in Orders : p # o => truth'[p] = truth[p] /\ past'[p] = past[p]
  <2>1. CASE arrives
    <3>1. Shows(o, Fresh)  BY <2>1 DEF Reaches
    <3> QED  BY <1>1, <1>2, <1>3, <3>1, Names, ShowsChain
  <2>2. CASE ~arrives
    <3>1. truth' = truth /\ past' = past  BY <2>2 DEF Reaches, broker
    <3>2. \A p \in Orders : Working(p)' <=> Working(p)  BY <3>1 DEF Working
    <3>3. BrokerInv'
      <4>1. ASSUME NEW p \in Orders
            PROVE  /\ IF truth'[p] = Unknown THEN past'[p] = {} ELSE truth'[p] \in past'[p]
                   /\ \A s \in past'[p] : s.filled <= truth'[p].filled /\ (s.event \in Over => s = truth'[p])
                   /\ truth'[p].filled <= size'[p]
                   /\ Working(p)' => truth'[p].filled < size'[p]
        BY <1>1, <1>2, <1>3, <3>1, <3>2 DEF BrokerInv
      <4> QED  BY <4>1 DEF BrokerInv
    <3> QED  BY <1>1, <3>1, <3>3 DEF TypeOK
  <2> QED  BY <2>1, <2>2
<1>6. HandInv' /\ TableInv' /\ OverIsOver' /\ BookedExact'
  <2>1. \A p \in Orders : row[p].status # "absent" => row'[p].status = row[p].status  BY <1>4
  <2>2. row'[o].status # "absent" /\ row'[o].status \notin Over  BY <1>4 DEF Over
  <2>3. truth'[o].filled \in Nat /\ truth[o].filled <= truth'[o].filled  BY <1>1, <1>5
  <2> QED  BY <1>1, <1>4, <1>5, <2>1, <2>2, <2>3, ShowsTables
<1>7. TypeOK'  BY <1>3, <1>4, <1>5 DEF TypeOK
<1>8. Reach(o) = 0 /\ Reach(o)' <= q  BY <1>1, <1>2, <1>3, <1>5 DEF Reach
<1>9. \A p \in Orders : p # o => Reach(p)' = Reach(p)  BY <1>3, <1>5 DEF Reach, Working
<1> QED  BY <1>5, <1>6, <1>7, <1>8, <1>9

\* prepare_order() and the POST of the entry.
LEMMA LedgerSendEntry ==
  ASSUME LedgerInv, NEW arrives \in BOOLEAN, SendEntry(arrives)
  PROVE  LedgerInv'
<1>1. Entry \in Orders /\ Quantity \in 1..Quantity /\ Entry \notin Exits /\ Exits \subseteq Orders
  BY FillConstants DEF Orders
<1>2. /\ TypeOK' /\ BrokerInv' /\ HandInv' /\ TableInv' /\ OverIsOver' /\ BookedExact'
      /\ \A p \in Orders : p # Entry => Reach(p)' = Reach(p)
  BY <1>1, Sent DEF SendEntry
<1>3. \A x \in Exits : Reach(x)' <= Reach(x)
  BY <1>1, <1>2, OrderTypes DEF LedgerInv
<1>4. FundInv'  BY <1>2, <1>3, StayFunded DEF LedgerInv, SendEntry
<1> QED  BY <1>2, <1>4 DEF LedgerInv

\* The next exit: every earlier one is over, so the tables say what is left to sell.
LEMMA LedgerSendExit ==
  ASSUME LedgerInv, NEW x \in Exits, NEW arrives \in BOOLEAN, SendExit(x, arrives)
  PROVE  LedgerInv'
<1> USE DEF LedgerInv
<1>1. x \in Orders /\ Remaining \in 1..Quantity
  <2>1. 0 < Remaining /\ Remaining <= Quantity /\ Remaining \in Int  BY Funded, SumTypes DEF SendExit
  <2> QED  BY <2>1, SumTypes
<1>2. /\ row[x].status = "absent" /\ size' = [size EXCEPT ![x] = Remaining]
      /\ row' = [row EXCEPT ![x].status = "pending"] /\ Reaches(x, arrives)
      /\ booked' = booked /\ cash' = cash /\ ids' = ids /\ position' = position /\ hand' = hand
      /\ posted' = posted
      /\ \A other \in Exits : row[other].status # "absent" => row[other].status \in Over
  BY DEF SendExit, Finished
<1>3. posted \in BOOLEAN  BY DEF TypeOK
<1>4. /\ TypeOK' /\ BrokerInv' /\ HandInv' /\ TableInv' /\ OverIsOver' /\ BookedExact'
      /\ Reach(x) = 0 /\ Reach(x)' <= Remaining
      /\ \A p \in Orders : p # x => Reach(p)' = Reach(p)
  BY <1>1, <1>2, <1>3, Sent
<1>5. ASSUME NEW y \in Exits  PROVE MaySell[y] = booked[y]
  <2>1. y \in Orders /\ MaySell[y] = Reach(y)  BY SumTypes
  <2>2. CASE row[y].status = "absent"
    <3>1. truth[y] = Unknown /\ booked[y] <= truth[y].filled  BY <2>1, <2>2 DEF TableInv
    <3>2. Reach(y) = 0 /\ truth[y].filled = 0  BY <3>1, Names DEF Reach, Working
    <3> QED  BY <2>1, <3>1, <3>2, OrderTypes
  <2>3. CASE row[y].status # "absent"
    <3>1. row[y].status \in Over  BY <1>2, <2>3
    <3>2. truth[y].event \in Over /\ booked[y] = truth[y].filled  BY <2>1, <3>1 DEF OverIsOver
    <3>3. ~Working(y)  BY <3>2 DEF Working, Over
    <3> QED  BY <2>1, <3>2, <3>3 DEF Reach
  <2> QED  BY <2>2, <2>3
<1>6. Total(MaySell, Exits) = Total(booked, Exits)
  <2>1. IsFiniteSet(Exits) /\ \A y \in Exits : MaySell[y] \in Int  BY SumTypes
  <2> QED  BY <1>5, <2>1, TotalSame
<1>7. Total(MaySell', Exits) = Total(MaySell, Exits) + (MaySell'[x] - MaySell[x])
  <2>1. IsFiniteSet(Exits) /\ \A y \in Exits : y \in Orders /\ MaySell[y] \in Int /\ MaySell[y] = Reach(y)
    BY SumTypes
  <2>2. \A y \in Exits : MaySell'[y] = Reach(y)'  BY DEF MaySell
  <2>3. \A y \in Exits \ {x} : MaySell'[y] = MaySell[y]  BY <1>4, <2>1, <2>2
  <2>4. MaySell'[x] \in Int
    <3>1. size'[x] \in 0..Quantity /\ truth'[x] \in Snapshot \cup {Unknown}  BY <1>1, <1>4 DEF TypeOK
    <3>2. truth'[x].filled \in Nat  BY <3>1 DEF Snapshot, Unknown
    <3> QED  BY <2>2, <3>1, <3>2, FillConstants DEF Reach
  <2>5. \A y \in Exits : MaySell'[y] \in Int  BY <2>1, <2>3, <2>4
  <2> QED  BY <2>1, <2>3, <2>5, TotalChange
<1>8. MaySell'[x] <= Remaining /\ MaySell[x] = 0 /\ MaySell'[x] \in Int
  <2>1. MaySell'[x] = Reach(x)' /\ MaySell[x] = Reach(x)  BY DEF MaySell
  <2>2. Reach(x)' \in Int
    <3>1. size'[x] \in 0..Quantity /\ truth'[x] \in Snapshot \cup {Unknown}  BY <1>1, <1>4 DEF TypeOK
    <3>2. truth'[x].filled \in Nat  BY <3>1 DEF Snapshot, Unknown
    <3> QED  BY <3>1, <3>2, FillConstants DEF Reach
  <2> QED  BY <1>4, <2>1, <2>2
<1>9. FundInv'
  <2>1. Total(booked, Exits) \in Nat /\ booked[Entry] \in Nat /\ Remaining = booked[Entry] - Total(booked, Exits)
    BY SumTypes, OrderTypes DEF Remaining
  <2>2. Total(MaySell', Exits) <= booked[Entry]  BY <1>6, <1>7, <1>8, <2>1
  <2>3. position' = Remaining'  BY <1>2 DEF FundInv, Remaining
  <2> QED  BY <1>2, <2>2, <2>3 DEF FundInv
<1> QED  BY <1>4, <1>9

------------------------------------------------------------------------------
(* The reports.                                                             *)

\* Steps that only take a report in hand or drop one.
LEMMA HandOnly ==
  ASSUME LedgerInv, HandInv', hand' \in [Lanes -> Report \cup {Nothing}], posted' \in BOOLEAN,
         UNCHANGED <<size, truth, past, row, booked, cash, ids, position>>
  PROVE  LedgerInv'
<1> USE DEF LedgerInv
<1>1. TypeOK' /\ TableInv' /\ OverIsOver' /\ BookedExact'  BY DEF TypeOK, TableInv, OverIsOver, BookedExact
<1>2. BrokerInv'  BY DEF BrokerInv, Working
<1>3. \A x \in Exits : Reach(x)' <= Reach(x)
  BY SumTypes, OrderTypes DEF Reach, Working
<1>4. FundInv'  BY <1>1, <1>3, StayFunded
<1> QED  BY <1>1, <1>2, <1>4

\* A snapshot of the broker's, and the adapter's own answer, are genuine reports.
LEMMA GenuineReports ==
  ASSUME TypeOK, NEW o \in Orders, row[o].status # "absent"
  PROVE  /\ \A snap \in past[o] : \A ack \in {"none", "valid", "ambiguous"} :
              FromBroker(o, snap, ack) \in Report /\ Genuine(FromBroker(o, snap, ack))
         /\ \A event \in {"rejected", "cancelled"} :
              FromClient(o, event) \in Report /\ Genuine(FromClient(o, event))
<1>1. ASSUME NEW snap \in past[o], NEW ack \in {"none", "valid", "ambiguous"}
      PROVE  FromBroker(o, snap, ack) \in Report /\ Genuine(FromBroker(o, snap, ack))
  <2>1. snap \in Snapshot  BY DEF TypeOK
  <2>2. Snap(FromBroker(o, snap, ack)) = snap  BY <2>1 DEF Snap, FromBroker, Snapshot
  <2>3. FromBroker(o, snap, ack).order = o /\ FromBroker(o, snap, ack).origin = "broker"  BY DEF FromBroker
  <2>4. FromBroker(o, snap, ack) \in Report  BY <2>1 DEF FromBroker, Report, Snapshot
  <2> QED  BY <2>2, <2>3, <2>4 DEF Genuine
<1>2. ASSUME NEW event \in {"rejected", "cancelled"}
      PROVE  FromClient(o, event) \in Report /\ Genuine(FromClient(o, event))
  BY DEF FromClient, Report, Genuine, Events, Over
<1> QED  BY <1>1, <1>2

\* A lane takes a genuine report.
LEMMA TakesGenuine ==
  ASSUME LedgerInv, NEW lane \in Lanes, NEW r \in Report, Genuine(r),
         hand' = [hand EXCEPT ![lane] = r], posted' => posted, posted' \in BOOLEAN,
         UNCHANGED <<size, truth, past, row, booked, cash, ids, position>>
  PROVE  LedgerInv'
<1> USE DEF LedgerInv
<1>1. hand \in [Lanes -> Report \cup {Nothing}]  BY DEF TypeOK
<1>2. /\ hand' \in [Lanes -> Report \cup {Nothing}]
      /\ \A l \in Lanes : hand'[l] = IF l = lane THEN r ELSE hand[l]
  BY <1>1
<1>3. HandInv'
  <2>1. \A l \in Lanes : hand'[l] # Nothing => Genuine(hand'[l])  BY <1>2 DEF HandInv
  <2>2. ASSUME NEW l \in Lanes, hand'[l] # Nothing  PROVE Genuine(hand[l])'
    BY <2>1, <2>2 DEF Genuine, Snap
  <2> QED  BY <2>2 DEF HandInv
<1> QED  BY <1>2, <1>3, HandOnly

\* The reply of the entry's POST.
LEMMA LedgerReply ==
  ASSUME LedgerInv, Reply
  PROVE  LedgerInv'
<1>1. /\ posted /\ posted' = FALSE /\ Entry \in Orders /\ row[Entry].status # "absent"
      /\ UNCHANGED <<size, truth, past, row, booked, cash, ids, position>> /\ "entry" \in Lanes
  BY DEF Reply, LedgerInv, HandInv, Orders, Lanes
<1>2. CASE UNCHANGED hand
  <2>1. HandInv'  BY <1>1, <1>2 DEF LedgerInv, HandInv, Genuine
  <2> QED  BY <1>1, <1>2, <2>1, HandOnly DEF LedgerInv, TypeOK
<1>3. ASSUME NEW snap \in past[Entry], NEW ack \in Acks(snap),
             hand' = [hand EXCEPT !["entry"] = FromBroker(Entry, snap, ack)]
      PROVE  LedgerInv'
  <2>1. ack \in {"none", "valid", "ambiguous"}  BY DEF Acks
  <2>2. FromBroker(Entry, snap, ack) \in Report /\ Genuine(FromBroker(Entry, snap, ack))
    BY <1>1, <2>1, GenuineReports DEF LedgerInv
  <2> QED  BY <1>1, <1>3, <2>2, TakesGenuine
<1>4. CASE hand' = [hand EXCEPT !["entry"] = FromClient(Entry, "rejected")]
  <2>1. FromClient(Entry, "rejected") \in Report /\ Genuine(FromClient(Entry, "rejected"))
    BY <1>1, GenuineReports DEF LedgerInv
  <2> QED  BY <1>1, <1>4, <2>1, TakesGenuine
<1> QED  BY <1>2, <1>3, <1>4 DEF Reply

\* The owned lane reads an order.
LEMMA LedgerRead ==
  ASSUME LedgerInv, NEW o \in Orders, Read(o)
  PROVE  LedgerInv'
<1>1. /\ row[o].status # "absent" /\ posted' = posted /\ "owned" \in Lanes /\ posted \in BOOLEAN
      /\ UNCHANGED <<size, truth, past, row, booked, cash, ids, position>>
  BY DEF Read, Readable, Lanes, LedgerInv, TypeOK
<1>2. ASSUME NEW snap \in past[o], hand' = [hand EXCEPT !["owned"] = FromBroker(o, snap, "none")]
      PROVE  LedgerInv'
  <2>1. FromBroker(o, snap, "none") \in Report /\ Genuine(FromBroker(o, snap, "none"))
    BY <1>1, GenuineReports DEF LedgerInv
  <2> QED  BY <1>1, <1>2, <2>1, TakesGenuine
<1>3. ASSUME NEW event \in {"rejected", "cancelled"}, hand' = [hand EXCEPT !["owned"] = FromClient(o, event)]
      PROVE  LedgerInv'
  <2>1. FromClient(o, event) \in Report /\ Genuine(FromClient(o, event))
    BY <1>1, GenuineReports DEF LedgerInv
  <2> QED  BY <1>1, <1>3, <2>1, TakesGenuine
<1> QED  BY <1>2, <1>3 DEF Read

\* A restart forgets what is in hand.
LEMMA LedgerCrash ==
  ASSUME LedgerInv, Crash
  PROVE  LedgerInv'
<1>1. /\ hand' \in [Lanes -> Report \cup {Nothing}] /\ posted' = FALSE
      /\ \A l \in Lanes : hand'[l] = Nothing
      /\ UNCHANGED <<size, truth, past, row, booked, cash, ids, position>>
  BY DEF Crash
<1>2. HandInv'  BY <1>1 DEF HandInv
<1> QED  BY <1>1, <1>2, HandOnly

\* What a report does to the tables of its order: the row's status is the broker's word
\* or stays, and the fills of the order are what the report says or stay.
LEMMA Recorded ==
  ASSUME LedgerInv, NEW lane \in Lanes, Record(lane)
  PROVE  \E r \in Report :
           /\ hand[lane] = r /\ r.order \in Orders /\ Genuine(r)
           /\ hand' = [hand EXCEPT ![lane] = Nothing]
           /\ row' \in [Orders -> Row]
           /\ \A p \in Orders : p # r.order => row'[p] = row[p] /\ booked'[p] = booked[p] /\ cash'[p] = cash[p]
           /\ row'[r.order].status # "absent"
           /\ row'[r.order].status \in Over =>
                \/ row'[r.order].status = row[r.order].status
                \/ r.origin = "broker" /\ row'[r.order].status = r.event /\ r.filled <= booked'[r.order]
           /\ \/ booked' = booked /\ cash' = cash /\ ids' = ids /\ position' = position
              \/ /\ r.origin = "broker" /\ booked[r.order] < r.filled
                 /\ booked' = [booked EXCEPT ![r.order] = r.filled]
                 /\ cash' = [cash EXCEPT ![r.order] = r.value]
                 /\ ids' = ids \cup {<<r.order, r.filled>>}
                 /\ position' = Applied(r)
           /\ UNCHANGED <<size, truth, past, posted>>
<1> USE DEF LedgerInv
<1> DEFINE r == hand[lane]
<1>1. r \in Report /\ r # Nothing /\ Genuine(r)  BY DEF Record, TypeOK, HandInv
<1>2. /\ r.order \in Orders /\ r.filled \in Nat /\ r.value \in Nat /\ r.event \in Events
      /\ r.origin \in {"broker", "client"}
  BY <1>1 DEF Report
<1>3. /\ hand' = [hand EXCEPT ![lane] = Nothing] /\ UNCHANGED <<size, truth, past, posted>>
  BY DEF Record
<1>4. /\ row \in [Orders -> Row] /\ booked \in [Orders -> 0..Quantity] /\ cash \in [Orders -> Nat]
      /\ row[r.order].status # "absent" /\ booked[r.order] \in Nat /\ cash[r.order] \in Nat
  BY <1>1, <1>2, OrderTypes DEF TypeOK, Genuine
<1> HIDE DEF r
<1>5. CASE r.ack = "ambiguous"
  <2>1. row' = [row EXCEPT ![r.order].ack = "UNKNOWN"] /\ UNCHANGED <<booked, cash, ids, position>>
    BY <1>5 DEF Record, r
  <2>2. /\ row' \in [Orders -> Row] /\ row'[r.order].status = row[r.order].status
        /\ \A p \in Orders : p # r.order => row'[p] = row[p]
    BY <1>2, <1>4, <2>1 DEF Row
  <2> QED  BY <1>1, <1>2, <1>3, <1>4, <2>1, <2>2 DEF r
<1>6. CASE r.ack # "ambiguous"
  <2>1. row' = [row EXCEPT ![r.order] = Updated(r)]  BY <1>6 DEF Record, r
  <2>2. /\ Updated(r) \in Row /\ Updated(r).status = IF Preserve(r) THEN row[r.order].status ELSE r.event
    BY <1>2, <1>4 DEF Updated, Row
  <2>3. /\ row' \in [Orders -> Row] /\ row'[r.order] = Updated(r)
        /\ \A p \in Orders : p # r.order => row'[p] = row[p]
    BY <1>2, <1>4, <2>1, <2>2
  <2>4. row'[r.order].status # "absent"  BY <1>2, <1>4, <2>2, <2>3 DEF Events, Over
  <2>5. ASSUME row'[r.order].status \in Over, row'[r.order].status # row[r.order].status
        PROVE  r.origin = "broker" /\ row'[r.order].status = r.event
    <3>1. ~Preserve(r) /\ row'[r.order].status = r.event  BY <2>2, <2>3, <2>5
    <3>2. r.origin = "broker"  BY <1>1, <1>2, <3>1 DEF Genuine, Preserve
    <3> QED  BY <3>1, <3>2
  <2>6. CASE Books(r)
    <3>1. /\ booked' = [booked EXCEPT ![r.order] = @ + Delta(r)]
          /\ cash' = [cash EXCEPT ![r.order] = @ + DeltaValue(r)]
          /\ ids' = ids \cup {FillId(r)} /\ position' = Applied(r)
      BY <1>6, <2>6 DEF Record, r
    <3>2. booked[r.order] < r.filled /\ booked[r.order] + Delta(r) = r.filled /\ cash[r.order] + DeltaValue(r) = r.value
      BY <1>2, <1>4, <2>6 DEF Books, Delta, DeltaValue
    <3>3. booked' = [booked EXCEPT ![r.order] = r.filled] /\ cash' = [cash EXCEPT ![r.order] = r.value]
      BY <3>1, <3>2
    <3>4. /\ \A p \in Orders : p # r.order => booked'[p] = booked[p] /\ cash'[p] = cash[p]
          /\ booked'[r.order] = r.filled
      BY <1>2, <1>4, <3>3
    <3>5. r.origin = "broker"  BY <1>1, <1>2, <2>6 DEF Genuine, Books
    <3>6. ids' = ids \cup {<<r.order, r.filled>>} /\ r.filled <= booked'[r.order]
      BY <1>2, <3>1, <3>4 DEF FillId
    <3> QED  BY <1>1, <1>2, <1>3, <2>3, <2>4, <2>5, <3>1, <3>2, <3>3, <3>4, <3>5, <3>6 DEF r
  <2>7. CASE ~Books(r)
    <3>1. UNCHANGED <<booked, cash, ids, position>>  BY <1>6, <2>7 DEF Record, r
    <3>2. r.origin = "broker" => r.filled <= booked[r.order]
      <4> SUFFICES ASSUME r.origin = "broker", booked[r.order] < r.filled  PROVE FALSE
        BY <1>2, <1>4
      <4>1. Snap(r) \in past[r.order] /\ Snap(r).filled = r.filled  BY <1>1, <1>2 DEF Genuine, Snap
      <4>2. r.filled <= Quantity
        <5>1. r.filled <= truth[r.order].filled /\ truth[r.order].filled <= size[r.order]
          BY <1>2, <4>1 DEF BrokerInv
        <5>2. truth[r.order].filled \in Nat /\ size[r.order] \in 0..Quantity /\ Quantity \in Nat  BY <1>2, OrderTypes
        <5> QED  BY <1>2, <5>1, <5>2
      <4>3. r.filled \in 0..Quantity  BY <1>2, <4>2, FillConstants
      <4>4. <<r.order, r.filled>> \in ids  BY <1>2, <1>4, <2>7 DEF Books, Delta, FillId
      <4>5. r.filled <= booked[r.order]  BY <1>2, <4>3, <4>4 DEF TableInv
      <4> QED  BY <1>2, <1>4, <4>5
    <3> QED  BY <1>1, <1>2, <1>3, <2>3, <2>4, <2>5, <3>1, <3>2 DEF r
  <2> QED  BY <2>6, <2>7
<1> QED  BY <1>5, <1>6

\* record(): the sale is never clamped, and the tables stay below the broker.
LEMMA LedgerRecord ==
  ASSUME LedgerInv, NEW lane \in Lanes, Record(lane)
  PROVE  LedgerInv'
<1> USE DEF LedgerInv
<1>1. PICK r \in Report :
        /\ hand[lane] = r /\ r.order \in Orders /\ Genuine(r)
        /\ hand' = [hand EXCEPT ![lane] = Nothing]
        /\ row' \in [Orders -> Row]
        /\ \A p \in Orders : p # r.order => row'[p] = row[p] /\ booked'[p] = booked[p] /\ cash'[p] = cash[p]
        /\ row'[r.order].status # "absent"
        /\ row'[r.order].status \in Over =>
             \/ row'[r.order].status = row[r.order].status
             \/ r.origin = "broker" /\ row'[r.order].status = r.event /\ r.filled <= booked'[r.order]
        /\ \/ booked' = booked /\ cash' = cash /\ ids' = ids /\ position' = position
           \/ /\ r.origin = "broker" /\ booked[r.order] < r.filled
              /\ booked' = [booked EXCEPT ![r.order] = r.filled]
              /\ cash' = [cash EXCEPT ![r.order] = r.value]
              /\ ids' = ids \cup {<<r.order, r.filled>>}
              /\ position' = Applied(r)
        /\ UNCHANGED <<size, truth, past, posted>>
  BY Recorded
<1> DEFINE o == r.order
<1>2. /\ o \in Orders /\ r.filled \in Nat /\ r.value \in Nat /\ booked[o] \in 0..Quantity /\ Quantity \in Nat
      /\ truth[o].filled \in Nat /\ size[o] \in 0..Quantity
  BY <1>1, OrderTypes DEF Report, TypeOK
<1>3. r.origin = "broker" => /\ Snap(r) \in past[o] /\ Snap(r) \in Snapshot
                             /\ r.filled <= truth[o].filled
                             /\ r.event \in Over => r.event = truth[o].event /\ r.filled = truth[o].filled
  <2> SUFFICES ASSUME r.origin = "broker"
               PROVE  /\ Snap(r) \in past[o] /\ Snap(r) \in Snapshot /\ r.filled <= truth[o].filled
                      /\ r.event \in Over => r.event = truth[o].event /\ r.filled = truth[o].filled
    OBVIOUS
  <2>1. Snap(r) \in past[o]  BY <1>1 DEF Genuine
  <2>2. Snap(r).filled = r.filled /\ Snap(r).event = r.event  BY DEF Snap
  <2>3. Snap(r).filled <= truth[o].filled /\ (Snap(r).event \in Over => Snap(r) = truth[o])
    BY <1>2, <2>1 DEF BrokerInv
  <2>4. Snap(r) \in Snapshot  BY <1>2, <2>1 DEF TypeOK
  <2> QED  BY <2>1, <2>2, <2>3, <2>4
<1>4. \/ booked' = booked /\ cash' = cash /\ ids' = ids /\ position' = position
      \/ /\ r.origin = "broker" /\ booked[o] < r.filled /\ r.filled <= Quantity
         /\ booked' = [booked EXCEPT ![o] = r.filled] /\ cash' = [cash EXCEPT ![o] = r.value]
         /\ ids' = ids \cup {<<o, r.filled>>} /\ position' = Applied(r)
  <2>1. truth[o].filled <= size[o]  BY <1>2 DEF BrokerInv
  <2> QED  BY <1>1, <1>2, <1>3, <2>1
<1>5. /\ booked' \in [Orders -> 0..Quantity] /\ cash' \in [Orders -> Nat]
      /\ ids' \subseteq Orders \X (0..Quantity)
      /\ booked[o] <= booked'[o] /\ booked'[o] <= truth[o].filled /\ booked'[o] \in Nat
  <2>1. /\ booked \in [Orders -> 0..Quantity] /\ cash \in [Orders -> Nat] /\ ids \subseteq Orders \X (0..Quantity)
        /\ booked[o] <= truth[o].filled
    BY <1>2 DEF TypeOK, TableInv
  <2>2. CASE booked' = booked /\ cash' = cash /\ ids' = ids  BY <1>2, <2>1, <2>2
  <2>3. CASE /\ r.origin = "broker" /\ booked[o] < r.filled /\ r.filled <= Quantity
             /\ booked' = [booked EXCEPT ![o] = r.filled] /\ cash' = [cash EXCEPT ![o] = r.value]
             /\ ids' = ids \cup {<<o, r.filled>>}
    <3>1. r.filled \in 0..Quantity  BY <1>2, <2>3
    <3>2. booked'[o] = r.filled  BY <1>2, <2>1, <2>3
    <3> QED  BY <1>2, <1>3, <2>1, <2>3, <3>1, <3>2
  <2> QED  BY <1>4, <2>2, <2>3
<1>6. BrokerInv'  BY <1>1 DEF BrokerInv, Working
<1>7. HandInv'
  <2>1. \A p \in Orders : row[p].status # "absent" => row'[p].status # "absent"  BY <1>1
  <2>2. ASSUME NEW l \in Lanes, hand'[l] # Nothing  PROVE Genuine(hand[l])'
    <3>1. l # lane /\ hand'[l] = hand[l]  BY <1>1, <2>2 DEF TypeOK
    <3>2. Genuine(hand[l]) /\ hand[l] \in Report  BY <2>2, <3>1 DEF HandInv, TypeOK
    <3>3. hand[l].order \in Orders  BY <3>2 DEF Report
    <3> QED  BY <1>1, <2>1, <3>1, <3>2, <3>3 DEF Genuine, Snap
  <2>3. Entry \in Orders  BY SumTypes
  <2> QED  BY <1>1, <2>1, <2>2, <2>3 DEF HandInv
<1>8. TableInv'
  <2>1. ASSUME NEW p \in Orders
        PROVE  /\ row'[p].status = "absent" => truth'[p] = Unknown
               /\ booked'[p] <= truth'[p].filled
    BY <1>1, <1>5 DEF TableInv
  <2>2. ASSUME NEW p \in Orders, NEW n \in 0..Quantity, <<p, n>> \in ids'  PROVE n <= booked'[p]
    <3>1. CASE <<p, n>> \in ids
      <4>1. n <= booked[p]  BY <3>1 DEF TableInv
      <4>2. booked[p] \in Nat  BY OrderTypes
      <4>3. p # o => booked'[p] = booked[p]  BY <1>1
      <4> QED  BY <1>2, <1>5, <4>1, <4>2, <4>3
    <3>2. CASE <<p, n>> \notin ids
      <4>1. p = o /\ n = r.filled /\ booked' = [booked EXCEPT ![o] = r.filled]  BY <1>4, <2>2, <3>2
      <4>2. booked \in [Orders -> 0..Quantity]  BY DEF TypeOK
      <4> QED  BY <1>2, <4>1, <4>2
    <3> QED  BY <3>1, <3>2
  <2> QED  BY <2>1, <2>2 DEF TableInv
<1>9. OverIsOver'
  <2>1. ASSUME row'[o].status \in Over  PROVE truth[o].event = row'[o].status /\ booked'[o] = truth[o].filled
    <3>1. CASE row'[o].status = row[o].status
      <4>1. truth[o].event = row[o].status /\ booked[o] = truth[o].filled  BY <1>2, <2>1, <3>1 DEF OverIsOver
      <4> QED  BY <1>2, <1>5, <3>1, <4>1
    <3>2. CASE r.origin = "broker" /\ row'[o].status = r.event /\ r.filled <= booked'[o]
      BY <1>2, <1>3, <1>5, <2>1, <3>2
    <3> QED  BY <1>1, <2>1, <3>1, <3>2
  <2> QED  BY <1>1, <2>1 DEF OverIsOver
<1>10. BookedExact'
  <2>1. ASSUME booked'[o] > 0
        PROVE  \E snap \in past[o] : snap.filled = booked'[o] /\ snap.value = cash'[o]
    <3>1. CASE booked' = booked /\ cash' = cash  BY <1>2, <2>1, <3>1 DEF BookedExact
    <3>2. CASE /\ r.origin = "broker" /\ booked' = [booked EXCEPT ![o] = r.filled]
               /\ cash' = [cash EXCEPT ![o] = r.value]
      <4>1. booked'[o] = r.filled /\ cash'[o] = r.value  BY <1>2, <3>2 DEF TypeOK
      <4>2. Snap(r).filled = r.filled /\ Snap(r).value = r.value  BY DEF Snap
      <4> QED  BY <1>3, <3>2, <4>1, <4>2
    <3> QED  BY <1>4, <3>1, <3>2
  <2> QED  BY <1>1, <2>1 DEF BookedExact
<1>11. \A x \in Exits : booked'[x] \in Int /\ booked'[x] <= MaySell[x] /\ MaySell[x] \in Int
  <2> TAKE x \in Exits
  <2>1. x \in Orders /\ booked'[x] \in 0..Quantity /\ MaySell[x] \in Int  BY <1>5, SumTypes
  <2>2. booked[x] <= truth[x].filled /\ truth[x].filled <= MaySell[x]  BY Funded
  <2>3. booked'[x] <= truth[x].filled  BY <1>1, <1>5, <2>1, <2>2
  <2>4. truth[x].filled \in Nat  BY <2>1, OrderTypes
  <2> QED  BY <1>2, <2>1, <2>2, <2>3, <2>4
<1>12. /\ Total(booked', Exits) <= Total(MaySell, Exits) /\ Total(booked', Exits) \in Int
       /\ Total(MaySell, Exits) \in Int
  <2>1. IsFiniteSet(Exits)  BY SumTypes
  <2> QED  BY <1>11, <2>1, TotalOrder, TotalInt
<1>13. /\ Entry \in Orders /\ booked[Entry] \in Nat /\ booked'[Entry] \in Nat
       /\ booked[Entry] <= booked'[Entry] /\ Total(MaySell, Exits) <= booked[Entry]
       /\ position = booked[Entry] - Total(booked, Exits) /\ Total(booked, Exits) \in Nat
  <2>1. Entry \in Orders /\ booked[Entry] \in Nat /\ Total(booked, Exits) \in Nat  BY SumTypes, OrderTypes
  <2>2. booked'[Entry] \in Nat  BY <1>2, <1>5, <2>1
  <2>3. booked[Entry] <= booked'[Entry]  BY <1>1, <1>5, <2>1
  <2> QED  BY <2>1, <2>2, <2>3 DEF FundInv, Remaining
<1>14. position' = Remaining'
  <2>1. CASE booked' = booked /\ position' = position  BY <2>1 DEF FundInv, Remaining
  <2>2. CASE /\ booked[o] < r.filled /\ booked' = [booked EXCEPT ![o] = r.filled] /\ position' = Applied(r)
    <3>1. booked'[o] = r.filled  BY <1>2, <2>2 DEF TypeOK
    <3>2. CASE o = Entry
      <4>1. Total(booked', Exits) = Total(booked, Exits)
        <5>1. IsFiniteSet(Exits) /\ \A x \in Exits : x \in Orders /\ x # Entry /\ booked[x] \in Int  BY SumTypes
        <5>2. \A x \in Exits : booked'[x] = booked[x]  BY <1>1, <3>2, <5>1
        <5> QED  BY <5>1, <5>2, TotalSame
      <4>2. position' = position + (r.filled - booked[Entry])  BY <2>2, <3>2 DEF Applied, Delta
      <4> QED  BY <1>2, <1>13, <3>1, <3>2, <4>1, <4>2 DEF Remaining
    <3>3. CASE o \in Exits
      <4>1. Total(booked', Exits) = Total(booked, Exits) + (r.filled - booked[o])
        <5>1. IsFiniteSet(Exits) /\ \A x \in Exits : x \in Orders /\ booked[x] \in Int  BY SumTypes
        <5>2. \A x \in Exits \ {o} : booked'[x] = booked[x]  BY <1>1, <5>1
        <5>3. \A x \in Exits : booked[x] \in Int /\ booked'[x] \in Int  BY <1>11, <5>1
        <5> HIDE DEF o
        <5> QED  BY <3>1, <3>3, <5>1, <5>2, <5>3, TotalChange
      <4>2. o # Entry /\ booked'[Entry] = booked[Entry]  BY <1>1, <1>13, <3>3, SumTypes
      <4>3. r.filled - booked[o] <= position  BY <1>2, <1>12, <1>13, <4>1
      <4>4. position' = position - (r.filled - booked[o])
        BY <1>2, <1>13, <2>2, <4>2, <4>3 DEF Applied, Delta, Lesser
      <4> QED  BY <1>2, <1>13, <4>1, <4>2, <4>4 DEF Remaining
    <3> QED  BY <1>2, <3>2, <3>3 DEF Orders
  <2> QED  BY <1>4, <2>1, <2>2
<1>15. Total(MaySell, Exits)' = Total(MaySell, Exits)
  BY <1>1 DEF MaySell, Reach, Working
<1>16. FundInv'
  <2>1. Total(MaySell', Exits) <= booked'[Entry]  BY <1>12, <1>13, <1>15
  <2> QED  BY <1>14, <2>1 DEF FundInv
<1>17. TypeOK'
  <2>1. position' \in 0..Quantity
    <3>1. Total(booked', Exits) \in Nat
      <4>1. IsFiniteSet(Exits) /\ Exits \subseteq Orders  BY SumTypes
      <4>2. \A x \in Exits : booked'[x] \in Nat  BY <1>2, <1>5, <4>1
      <4> QED  BY <4>1, <4>2, TotalNat
    <3>2. booked'[Entry] \in 0..Quantity  BY <1>5, <1>13
    <3>3. position' = booked'[Entry] - Total(booked', Exits)  BY <1>14 DEF Remaining
    <3> QED  BY <1>2, <1>12, <1>13, <3>1, <3>2, <3>3
  <2>2. hand' \in [Lanes -> Report \cup {Nothing}]  BY <1>1 DEF TypeOK
  <2> QED  BY <1>1, <1>5, <2>1, <2>2 DEF TypeOK
<1> QED  BY <1>6, <1>7, <1>8, <1>9, <1>10, <1>16, <1>17

------------------------------------------------------------------------------
(* The theorems.                                                            *)

\* Nothing is sent, read or booked.
LEMMA LedgerInit == Init => LedgerInv
<1> SUFFICES ASSUME Init PROVE LedgerInv  OBVIOUS
<1>1. TypeOK
  <2>1. row \in [Orders -> Row]  BY DEF Init, NoRow, Row
  <2>2. hand \in [Lanes -> Report \cup {Nothing}] /\ truth \in [Orders -> Snapshot \cup {Unknown}]
    BY DEF Init
  <2>3. 0 \in 0..Quantity  BY FillConstants
  <2>4. size \in [Orders -> 0..Quantity] /\ booked \in [Orders -> 0..Quantity] /\ cash \in [Orders -> Nat]
    BY <2>3 DEF Init
  <2>5. past \in [Orders -> SUBSET Snapshot] /\ ids \subseteq Orders \X (0..Quantity)
    BY DEF Init
  <2>6. position \in 0..Quantity /\ posted \in BOOLEAN  BY <2>3 DEF Init
  <2> QED  BY <2>1, <2>2, <2>4, <2>5, <2>6 DEF TypeOK
<1>2. BrokerInv  BY <1>1, Names, OrderTypes DEF Init, BrokerInv, Working
<1>3. HandInv  BY DEF Init, HandInv
<1>4. TableInv  BY Names DEF Init, TableInv
<1>5. OverIsOver  BY DEF Init, OverIsOver, NoRow, Over
<1>6. BookedExact  BY DEF Init, BookedExact
<1>7. FundInv
  <2>1. \A x \in Exits : booked[x] = 0 /\ MaySell[x] = 0
    BY Names, SumTypes, <1>1 DEF Init, MaySell, Reach, Working
  <2>2. Total(booked, Exits) = 0 /\ Total(MaySell, Exits) = 0
    BY <1>1, <2>1, SumTypes, TotalZero
  <2>3. position = 0 /\ booked[Entry] = 0  BY DEF Init, Orders
  <2> QED  BY <2>2, <2>3 DEF FundInv, Remaining
<1> QED  BY <1>1, <1>2, <1>3, <1>4, <1>5, <1>6, <1>7 DEF LedgerInv

\* The inductive invariant holds in every state of the ledger.
THEOREM LedgerInductive == Spec => []LedgerInv
<1>1. Init => LedgerInv  BY LedgerInit
<1>2. LedgerInv /\ [Next]_vars => LedgerInv'
  <2> SUFFICES ASSUME LedgerInv, [Next]_vars PROVE LedgerInv'  OBVIOUS
  <2>1. CASE Market  BY <2>1, LedgerMarket
  <2>2. CASE Oms
    BY <2>2, LedgerSendEntry, LedgerSendExit, LedgerReply, LedgerRead, LedgerRecord, LedgerCrash DEF Oms
  <2>3. CASE UNCHANGED vars
    <3>1. UNCHANGED <<size, truth, past, row, booked, cash, ids, position, hand, posted>>  BY <2>3 DEF vars
    <3>2. HandInv'  BY <3>1 DEF LedgerInv, HandInv, Genuine
    <3> QED  BY <3>1, <3>2, HandOnly DEF LedgerInv, TypeOK
  <2> QED  BY <2>1, <2>2, <2>3 DEF Next
<1> QED  BY <1>1, <1>2, PTL DEF Spec

\* The tables have their types: in particular what is booked and the position stay within
\* the ordered quantity (LivePersistence.record, OmsStore).
THEOREM LedgerTyped == Spec => []TypeOK
<1>1. LedgerInv => TypeOK  BY DEF LedgerInv
<1> QED  BY <1>1, LedgerInductive, PTL

\* A row that is over means an order that is over at the broker with all of its executions
\* booked (update_order_from_report and the proof record() keeps), for every number of exits.
THEOREM LedgerOverIsOver == Spec => []OverIsOver
<1>1. LedgerInv => OverIsOver  BY DEF LedgerInv
<1> QED  BY <1>1, LedgerInductive, PTL

\* What is booked is a state of the broker's order, in shares and in cash
\* (record_fill_if_needed), however reports repeat and overtake one another.
THEOREM LedgerBookedExact == Spec => []BookedExact
<1>1. LedgerInv => BookedExact  BY DEF LedgerInv
<1> QED  BY <1>1, LedgerInductive, PTL

\* The strategy's position is what its fills say: the clamp of apply_fill_to_positions
\* never cuts a sale.
THEOREM LedgerPositionExact == Spec => []PositionExact
<1>1. LedgerInv => PositionExact  BY DEF LedgerInv, FundInv, PositionExact
<1> QED  BY <1>1, LedgerInductive, PTL

\* The exits together never sell more at the broker than the entry bought there.
THEOREM LedgerNeverShort == Spec => []NeverShort
<1>1. LedgerInv => NeverShort
  <2> SUFFICES ASSUME LedgerInv PROVE NeverShort  OBVIOUS
  <2> USE DEF LedgerInv
  <2> DEFINE sold == [x \in Exits |-> truth[x].filled]
  <2>1. \A x \in Exits : sold[x] \in Nat /\ MaySell[x] \in Int /\ sold[x] <= MaySell[x]
    BY SumTypes, OrderTypes, Funded
  <2>2. IsFiniteSet(Exits) /\ Entry \in Orders  BY SumTypes
  <2> HIDE DEF sold
  <2>3. \A x \in Exits : sold[x] \in Int /\ MaySell[x] \in Int /\ sold[x] <= MaySell[x]  BY <2>1
  <2>4. Total(sold, Exits) <= Total(MaySell, Exits)  BY <2>2, <2>3, TotalOrder
  <2>5. Total(sold, Exits) \in Int /\ Total(MaySell, Exits) \in Int  BY <2>2, <2>3, TotalInt
  <2>6. Total(MaySell, Exits) <= booked[Entry] /\ booked[Entry] <= truth[Entry].filled
    BY <2>2 DEF FundInv, TableInv
  <2>7. booked[Entry] \in Nat /\ truth[Entry].filled \in Nat  BY <2>2, OrderTypes
  <2>8. Total(sold, Exits) <= truth[Entry].filled  BY <2>4, <2>5, <2>6, <2>7
  <2> QED  BY <2>8 DEF NeverShort, sold
<1> QED  BY <1>1, LedgerInductive, PTL
==============================================================================
