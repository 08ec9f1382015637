------------------------------ MODULE FillLedger ------------------------------
(****************************************************************************)
(* How cumulative broker reports become durable facts: LivePersistence      *)
(* .record (momentum_live/persistence.py) with the OmsStore operations it   *)
(* calls (oms/store.py: update_order_from_report, record_fill_if_needed,    *)
(* apply_fill_to_positions).                                                *)
(*                                                                          *)
(* One entry order and a sequence of exit orders of one episode.  A report  *)
(* is a snapshot of the broker's order; reads may return an older snapshot  *)
(* than an earlier read did, the reply of a POST may be recorded long after *)
(* the owned lane has read the same order, and an adapter may answer by     *)
(* itself (origin "client") when it does not know.  The fills table enters  *)
(* through what is read of it: the sum of the quantities, the sum of the    *)
(* exact values and the set of broker fill ids.                             *)
(****************************************************************************)
EXTENDS Integers, FiniteSets, Totals

CONSTANTS
  Entry,      \* the entry order
  Exits,      \* the exit orders, each sent at most once
  Quantity,   \* shares of the entry
  Prices      \* prices of an execution

ASSUME FillConstants ==
  /\ Entry \notin Exits /\ IsFiniteSet(Exits)
  /\ Quantity \in Nat \ {0}
  /\ Prices \subseteq Nat \ {0}

Orders == Exits \cup {Entry}
Lanes == {"entry", "owned"}

Over == {"filled", "cancelled", "rejected", "expired"}
Events == Over \cup {"accepted", "partially_filled"}

\* The broker's order as a report shows it: status, cumulative quantity, cumulative cash.
Snapshot == [event : Events, filled : Nat, value : Nat]
Unknown == [event |-> "unknown", filled |-> 0, value |-> 0]

Report == [order : Orders, event : Events, filled : Nat, value : Nat,
           origin : {"broker", "client"},
           ack : {"none", "valid", "ambiguous"}]   \* momcancel1_place_ack and its identity
Nothing == [order |-> Entry, event |-> "none", filled |-> 0, value |-> 0,
            origin |-> "client", ack |-> "none"]

\* proof is momlive_terminal_broker_event ("" is "open"), ack momcancel1_ack_identity.
Row == [status : Events \cup {"absent", "pending"},
        proof  : Over \cup {"open"},
        ack    : {"none", "VALID", "UNKNOWN"}]
NoRow == [status |-> "absent", proof |-> "open", ack |-> "none"]

VARIABLES
  size,      \* ordered quantity
  truth,     \* the order at the broker, Unknown before the POST reaches it
  past,      \* the snapshots of it that a read can return
  row,       \* BrokerOrder
  booked,    \* sum of its fills
  cash,      \* sum of their exact values
  ids,       \* broker_fill_ids in the fills table
  position,  \* VirtualPosition.quantity
  hand,      \* the report a lane has in hand
  posted     \* the entry lane waits for the reply of its POST

vars == <<size, truth, past, row, booked, cash, ids, position, hand, posted>>
broker == <<truth, past>>
tables == <<row, booked, cash, ids, position>>

TypeOK ==
  /\ size \in [Orders -> 0..Quantity]
  /\ truth \in [Orders -> Snapshot \cup {Unknown}]
  /\ past \in [Orders -> SUBSET Snapshot]
  /\ row \in [Orders -> Row]
  /\ booked \in [Orders -> 0..Quantity] /\ cash \in [Orders -> Nat]
  /\ ids \subseteq Orders \X (0..Quantity)
  /\ position \in 0..Quantity
  /\ hand \in [Lanes -> Report \cup {Nothing}]
  /\ posted \in BOOLEAN

Init ==
  /\ size = [o \in Orders |-> 0]
  /\ truth = [o \in Orders |-> Unknown]
  /\ past = [o \in Orders |-> {}]
  /\ row = [o \in Orders |-> NoRow]
  /\ booked = [o \in Orders |-> 0] /\ cash = [o \in Orders |-> 0]
  /\ ids = {} /\ position = 0
  /\ hand = [l \in Lanes |-> Nothing]
  /\ posted = FALSE

------------------------------------------------------------------------------
(* The broker.                                                              *)

Shows(o, snap) ==
  /\ truth' = [truth EXCEPT ![o] = snap]
  /\ past' = [past EXCEPT ![o] = @ \cup {snap}]

Working(o) == truth[o].event \in {"accepted", "partially_filled"}

Execute(o, price) ==
  /\ Working(o)
  /\ LET done == truth[o].filled + 1
     IN Shows(o, [event |-> IF done = size[o] THEN "filled" ELSE "partially_filled",
                  filled |-> done, value |-> truth[o].value + price])
  /\ UNCHANGED <<size, row, booked, cash, ids, position, hand, posted>>

Stop(o, event) ==
  /\ Working(o)
  /\ Shows(o, [truth[o] EXCEPT !.event = event])
  /\ UNCHANGED <<size, row, booked, cash, ids, position, hand, posted>>

------------------------------------------------------------------------------
(* The orders.                                                              *)

Fresh == [event |-> "accepted", filled |-> 0, value |-> 0]
Reaches(o, arrives) == IF arrives THEN Shows(o, Fresh) ELSE UNCHANGED broker

\* prepare_order() and the POST of the entry; its wire attempts are LiveAdmission's.
SendEntry(arrives) ==
  /\ row[Entry].status = "absent"
  /\ size' = [size EXCEPT ![Entry] = Quantity]
  /\ row' = [row EXCEPT ![Entry].status = "pending"]
  /\ Reaches(Entry, arrives)
  /\ posted' = TRUE
  /\ UNCHANGED <<booked, cash, ids, position, hand>>

\* OwnedPosition.remaining, from the fills of the episode.
Remaining == booked[Entry] - Total(booked, Exits)

\* Mutation: an exit that was answered is taken for over.
FinishedAnswered(x) == row[x].status # "pending"

\* An exit whose row is over, by the broker's own report.
Finished(x) == row[x].status \in Over /\ row[x].proof = row[x].status

\* The next exit is sent for what remains once every earlier one is over;
\* prepare_order() refuses more than the strategy's own position.
SendExit(x, arrives) ==
  /\ hand["owned"] = Nothing
  /\ row[x].status = "absent"
  /\ \A other \in Exits : row[other].status # "absent" => Finished(other)
  /\ 0 < Remaining /\ Remaining <= position
  /\ size' = [size EXCEPT ![x] = Remaining]
  /\ row' = [row EXCEPT ![x].status = "pending"]
  /\ Reaches(x, arrives)
  /\ UNCHANGED <<booked, cash, ids, position, hand, posted>>

------------------------------------------------------------------------------
(* The reports.                                                             *)

FromBroker(o, snap, ack) ==
  [order |-> o, event |-> snap.event, filled |-> snap.filled, value |-> snap.value,
   origin |-> "broker", ack |-> ack]
FromClient(o, event) ==
  [order |-> o, event |-> event, filled |-> 0, value |-> 0, origin |-> "client", ack |-> "none"]

\* A Schwab acceptance of the POST is marked as such; its identity may be ambiguous.
Acks(snap) == IF snap.event = "accepted" THEN {"valid", "ambiguous"} ELSE {"none"}

\* The reply of the entry's POST: a snapshot of some moment since, or the adapter's
\* own refusal, or none at all.
Reply ==
  /\ posted
  /\ posted' = FALSE
  /\ \/ \E snap \in past[Entry] : \E ack \in Acks(snap) :
          hand' = [hand EXCEPT !["entry"] = FromBroker(Entry, snap, ack)]
     \/ hand' = [hand EXCEPT !["entry"] = FromClient(Entry, "rejected")]
     \/ UNCHANGED hand
  /\ UNCHANGED <<size, truth, past, row, booked, cash, ids, position>>

\* _observe() reads the orders that are not over, and once more those whose execution
\* time is missing.  An order whose identity is ambiguous has no id to read.
Readable(o) == /\ row[o].status # "absent" /\ row[o].ack # "UNKNOWN"
               /\ row[o].status \notin Over \/ booked[o] > 0

\* The owned lane reads an order, or tries to cancel it and hears the adapter refuse.
Read(o) ==
  /\ hand["owned"] = Nothing
  /\ Readable(o)
  /\ \/ \E snap \in past[o] : hand' = [hand EXCEPT !["owned"] = FromBroker(o, snap, "none")]
     \/ \E event \in {"rejected", "cancelled"} :
          hand' = [hand EXCEPT !["owned"] = FromClient(o, event)]
  /\ UNCHANGED <<size, truth, past, row, booked, cash, ids, position, posted>>

\* Mutation: a terminal report counts whoever says so.
PreserveAnyOrigin(r) ==
  \/ row[r.order].status = "filled" /\ r.event # "filled"
  \/ r.ack = "valid" /\ row[r.order].status \in Over

\* The status stays: only the broker ends an order, a filled order stays filled, and
\* a late acceptance does not reopen an entry that is over.
Preserve(r) ==
  \/ r.event \in {"rejected", "cancelled", "expired"} /\ r.origin # "broker"
  \/ row[r.order].status = "filled" /\ r.event # "filled"
  \/ r.ack = "valid" /\ row[r.order].status \in Over

\* update_order_from_report(), and the proof that record() keeps beside it.
Updated(r) ==
  [status |-> IF Preserve(r) THEN row[r.order].status ELSE r.event,
   proof  |-> IF r.origin = "broker" /\ ~Preserve(r)
              THEN IF r.event \in Over THEN r.event ELSE "open"
              ELSE row[r.order].proof,
   ack    |-> IF r.ack = "valid" /\ row[r.order].ack = "none" THEN "VALID" ELSE row[r.order].ack]

\* The adapters build the id of a fill from the order and its cumulative quantity.
FillId(r) == <<r.order, r.filled>>

\* record_fill_if_needed(): what the report adds to the fills of its order.
Delta(r) == r.filled - booked[r.order]

Books(r) == r.filled > 0 /\ FillId(r) \notin ids /\ Delta(r) > 0

\* Mutation: the new shares are valued at the cumulative average price.
DeltaValueAverage(r) == (r.value * Delta(r)) \div r.filled

\* The cash of the new shares: cumulative cash less what is already booked.
DeltaValue(r) == r.value - cash[r.order]

Lesser(a, b) == IF a <= b THEN a ELSE b

\* Mutation: the position moves by the cumulative quantity of the report.
AppliedCumulative(r) == IF r.order = Entry THEN position + r.filled
                                           ELSE position - Lesser(position, r.filled)

\* _apply_position_fill(): a sale never takes more than the position holds.
Applied(r) == IF r.order = Entry THEN position + Delta(r)
                                 ELSE position - Lesser(position, Delta(r))

\* record(): one transaction per report.
Record(lane) ==
  LET r == hand[lane] IN
  /\ r # Nothing
  /\ hand' = [hand EXCEPT ![lane] = Nothing]
  /\ \/ /\ r.ack = "ambiguous"
        /\ row' = [row EXCEPT ![r.order].ack = "UNKNOWN"]
        /\ UNCHANGED <<booked, cash, ids, position>>
     \/ /\ r.ack # "ambiguous"
        /\ row' = [row EXCEPT ![r.order] = Updated(r)]
        /\ \/ /\ Books(r)
              /\ booked' = [booked EXCEPT ![r.order] = @ + Delta(r)]
              /\ cash' = [cash EXCEPT ![r.order] = @ + DeltaValue(r)]
              /\ ids' = ids \cup {FillId(r)}
              /\ position' = Applied(r)
           \/ ~Books(r) /\ UNCHANGED <<booked, cash, ids, position>>
  /\ UNCHANGED <<size, truth, past, posted>>

\* A restart forgets what was read and not recorded.
Crash ==
  /\ posted \/ \E lane \in Lanes : hand[lane] # Nothing
  /\ posted' = FALSE
  /\ hand' = [lane \in Lanes |-> Nothing]
  /\ UNCHANGED <<size, truth, past, row, booked, cash, ids, position>>

Market == \E o \in Orders : \/ \E price \in Prices : Execute(o, price)
                            \/ \E event \in {"cancelled", "rejected", "expired"} : Stop(o, event)

Oms == \/ \E arrives \in BOOLEAN :
            SendEntry(arrives) \/ \E x \in Exits : SendExit(x, arrives)
       \/ Reply
       \/ \E o \in Orders : Read(o)
       \/ \E lane \in Lanes : Record(lane)
       \/ Crash

Next == Market \/ Oms

Spec == Init /\ [][Next]_vars

------------------------------------------------------------------------------
(* Properties.                                                              *)

\* An order whose row is over is over at the broker, in that way, and all of its
\* executions are booked, however late, stale or repeated the reports were: releasing
\* the reservation or sending the next exit on the strength of the row is safe.
OverIsOver ==
  \A o \in Orders : row[o].status \in Over =>
    /\ truth[o].event = row[o].status
    /\ booked[o] = truth[o].filled

\* What is booked is a state the broker's order went through, in shares and in cash:
\* no report is counted twice, and the average price is not counted twice either.
BookedExact ==
  \A o \in Orders : booked[o] > 0 =>
    \E snap \in past[o] : snap.filled = booked[o] /\ snap.value = cash[o]

\* The strategy's position is what its fills say: no sale was ever clamped because it
\* was recorded before the purchase it sells.
PositionExact == position = Remaining

\* The exits together never sell more at the broker than the entry bought there.
NeverShort ==
  Total([x \in Exits |-> truth[x].filled], Exits) <= truth[Entry].filled
==============================================================================
