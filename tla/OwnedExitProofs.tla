---------------------------- MODULE OwnedExitProofs ----------------------------
(****************************************************************************)
(* Proofs about OwnedExit, for any number of shares, of protective orders,  *)
(* of software exits and of restarts, and any set of days.                  *)
(*                                                                          *)
(* The argument: at any time one order may be open, the one the durable     *)
(* journal names (Tip): the software exit while its sent latch is saved,    *)
(* the saved protection handle's order otherwise.  Every other order is     *)
(* over: it cannot sell, and the books have all it sold.  So what the books *)
(* lack is what Tip sold since it was read (GapOf), and a worker that has   *)
(* read Tip as ended knows exactly what is left (Clean).  Tip moves on only *)
(* where the books are Clean (Arm, SentLatch, the re-arming of an exit),    *)
(* and an order goes on the wire only as Tip, sized by what is left.        *)
(* Between the two the process may die, the broker may answer late or not   *)
(* at all, and shares may be bought: none of it unsettles what is over.     *)
(****************************************************************************)
EXTENDS OwnedExit, EpisodeWorkQueue, TotalsProofs

------------------------------------------------------------------------------
(* The inductive invariant.                                                 *)

\* The shapes of the state, without the bounds on quantities.
Order == [st : {"none", "flight", "held", "lost", "refused"}, qty : Nat, filled : [Leg -> Nat],
          live : SUBSET Leg]
Row   == [st : {"none", "pending", "done", "aborted"}, qty : Nat, legs : SUBSET Leg,
          kids : SUBSET Leg, rec : [Leg -> Nat], ended : SUBSET Leg, receipt : BOOLEAN]
Books == [bought : Nat, sold : Nat, row : [Orders -> Row]]
Handles == [gen : 0..MaxGen, qty : Nat, session : Session \cup {"none"}, known : BOOLEAN,
            status : {"unsent", "submitted_unknown", "working", "cancel_requested", "terminal",
                      "unknown"}, wires : SUBSET Leg]
Journals == [h : Handles, reason : {"none", Target, Mandatory}, sent : BOOLEAN,
             attempt : 0..MaxAttempt]
Positions == [on : BOOLEAN, qty : Nat, exited : Nat, seen : Nat, reserved : Nat,
              unknown : BOOLEAN, confirmed : BOOLEAN, zero : BOOLEAN, market : Session]
Contexts == [then : {"exit", "resize", "flat"}, todo : SUBSET Leg, deferred : BOOLEAN,
             leg : Leg, why : {"none", Target, Mandatory}, qty : Nat]

BrokerTypes == bought \in Nat /\ sold \in Nat /\ ord \in [Orders -> Order]
DayTypes == day \in Day /\ session \in Session
Types ==
  /\ DayTypes
  /\ BrokerTypes
  /\ books \in Books
  /\ saved \in Journals /\ mem \in Journals
  /\ pos \in Positions /\ ctx \in Contexts

\* What the broker can hold of one order.
OrderInv(o) ==
  /\ ord[o].st # "held" => ord[o].filled = Zero
  /\ ord[o].st \in {"none", "lost", "refused"} => ord[o].live = {}
  /\ Sellable(o) => ord[o].filled["target"] + ord[o].filled["stop"] < ord[o].qty

\* What a row says of its order.
Exact(b, o) == \A l \in Leg : b.row[o].rec[l] = ord[o].filled[l]
Over(b, o)  == Exact(b, o) /\ ~Sellable(o)
RowInv(b, o) ==
  /\ b.row[o].legs \in {{}, {"target"}, Leg}
  /\ ord[o].live \subseteq b.row[o].legs
  /\ \A l \in Leg : l \notin b.row[o].legs => ord[o].filled[l] = 0
  /\ \A l \in Leg : b.row[o].rec[l] <= ord[o].filled[l]
  /\ \A l \in b.row[o].ended : l \notin ord[o].live /\ b.row[o].rec[l] = ord[o].filled[l]
  /\ b.row[o].st \in {"none", "aborted"} => ord[o] = NoOrder
  /\ b.row[o].st = "done" => Over(b, o)

\* The one order that may be open, and what it sold that the books do not have yet.
Tip == IF saved.sent THEN <<"soft", saved.attempt>> ELSE <<"native", saved.h.gen>>
Gap(b, o) == ord[o].filled["target"] + ord[o].filled["stop"]
             - b.row[o].rec["target"] - b.row[o].rec["stop"]
GapOf(b, t) == IF t \in Orders THEN Gap(b, t) ELSE 0
LeftOf(t) == IF t \in Orders THEN LeftToSell(t) ELSE 0

Clean(b) == \A o \in Orders : Over(b, o)
BooksInv(b, t) ==
  /\ b \in Books /\ b.bought <= bought
  /\ \A o \in Orders : RowInv(b, o)
  /\ \A o \in Orders : o # t => Over(b, o)
  /\ sold = b.sold + GapOf(b, t)

LedgerInv ==
  /\ \A o \in Orders : OrderInv(o)
  /\ BooksInv(books, Tip)
  /\ sold + LeftOf(Tip) <= bought
  /\ ~saved.sent /\ Tip \in Orders /\ Sellable(Tip) => saved.h.status # "unsent"

\* The process's journal is the durable one, or holds the handle of an order that was
\* never put on the wire.
Fresh == mem.h.gen = saved.h.gen + 1 /\ mem.h.wires = {} /\ Clean(books)
JournalInv ==
  /\ mem.sent = saved.sent /\ mem.attempt = saved.attempt /\ mem.reason = saved.reason
  /\ mem.sent => mem.reason # "none" /\ mem.attempt > 0
  /\ mem.h = saved.h \/ Fresh
AskedInv ==
  \A g \in 1..MaxGen, l \in Leg : <<<<"native", g>>, l>> \in asked =>
    g <= saved.h.gen /\ (g = saved.h.gen => l \in saved.h.wires)

\* An order about to be sent: its row is there, and the shares cover it.
Sized(o) ==
  /\ o \in Orders /\ ord[o] = NoOrder
  /\ books.row[o].st = "pending" /\ books.row[o].ended = {} /\ books.row[o].legs # {}
  /\ books.row[o].qty > 0 /\ books.row[o].qty <= bought - sold

PlaceInv ==
  /\ pc \in {"grow", "arm", "send", "claim", "prepare", "latch", "go", "undo"} => Clean(books)
  /\ pc \in {"grow", "send", "claim", "prepare", "latch", "go", "wire"} => mem.h = saved.h
  /\ pc \in {"grow", "arm", "send", "release", "cancel", "wire", "reread", "claim", "prepare",
             "latch"} => ~mem.sent
  /\ pc \in {"watch", "chase", "rewatch", "go", "undo"} => mem.sent
  /\ pc \in {"cancel", "wire", "reread", "ack"} => mem.h.gen > 0
  /\ pc = "done" => mem.attempt > 0
  /\ pc \in {"release", "cancel", "wire", "reread"} /\ ctx.then = "exit" => mem.reason # "none"
  /\ pc \in {"claim", "prepare", "latch"} => mem.reason # "none"
  /\ pc = "exit" => ctx.why # "none"
  /\ pc = "grow" => Remaining(pos) > 0
  /\ pc = "prepare" => ctx.qty > 0
  /\ pc \in {"arm", "send"} => Sized(Root)
  /\ pc = "send" => mem.h.status # "unsent"
  /\ pc = "latch" => Sized(NextExit)
  /\ pc = "go" => Sized(Current)
  /\ pc = "wire" => ctx.leg \in mem.h.wires /\ <<Root, ctx.leg>> \notin asked

OwnInv == Types /\ LedgerInv /\ JournalInv /\ AskedInv /\ PlaceInv

------------------------------------------------------------------------------
(* What a report does to the books.                                         *)

\* The fields of the books and of an order have their types.
LEMMA RowTypes ==
  ASSUME NEW b \in Books, NEW o \in Orders
  PROVE  /\ b.bought \in Nat /\ b.sold \in Nat /\ b.row \in [Orders -> Row]
         /\ b.row[o] \in Row /\ b.row[o].rec \in [Leg -> Nat]
         /\ b.row[o].rec["target"] \in Nat /\ b.row[o].rec["stop"] \in Nat
         /\ b.row[o].legs \in SUBSET Leg /\ b.row[o].kids \in SUBSET Leg
         /\ b.row[o].ended \in SUBSET Leg /\ b.row[o].receipt \in BOOLEAN
         /\ b.row[o].qty \in Nat
         /\ b.row[o].st \in {"none", "pending", "done", "aborted"}
BY DEF Books, Row, Leg

\* The fields of an order at the broker have their types.
LEMMA OrderTypes ==
  ASSUME BrokerTypes, NEW o \in Orders
  PROVE  /\ ord[o] \in Order /\ ord[o].filled \in [Leg -> Nat]
         /\ ord[o].filled["target"] \in Nat /\ ord[o].filled["stop"] \in Nat
         /\ ord[o].qty \in Nat /\ ord[o].live \in SUBSET Leg
         /\ ord[o].st \in {"none", "flight", "held", "lost", "refused"}
BY DEF BrokerTypes, Order, Leg

\* The books c are the books b with leg l of order o recorded.
Booked(b, c, o, l) ==
  /\ c \in Books /\ c.bought = b.bought
  /\ c.sold = b.sold + (ord[o].filled[l] - b.row[o].rec[l])
  /\ \A p \in Orders : p # o => c.row[p] = b.row[p]
  /\ c.row[o].legs = b.row[o].legs
  /\ c.row[o].rec[l] = ord[o].filled[l]
  /\ \A k \in Leg : k # l => c.row[o].rec[k] = b.row[o].rec[k]
  /\ c.row[o].ended = IF l \in ord[o].live THEN b.row[o].ended ELSE b.row[o].ended \cup {l}
  /\ c.row[o].st = IF IsPair(o) \/ l \in ord[o].live THEN b.row[o].st ELSE "done"

\* A booked leg: its increase is sold, and only its row changes.
LEMMA BookFields ==
  ASSUME BrokerTypes, NEW b \in Books, NEW o \in Orders, NEW l \in Leg,
         b.row[o].rec[l] <= ord[o].filled[l], NEW c, c = Book(b, o, l)
  PROVE  Booked(b, c, o, l)
<1> DEFINE r == Reported(b.row[o], o, l)
<1>1. /\ b.row[o] \in Row /\ b.row \in [Orders -> Row] /\ b.sold \in Nat /\ b.bought \in Nat
      /\ b.row[o].rec[l] \in Nat /\ b.row[o].rec \in [Leg -> Nat]
  BY RowTypes DEF Leg
<1>2. ord[o].filled[l] \in Nat  BY OrderTypes DEF Leg
<1>3. /\ r.legs = b.row[o].legs /\ r.rec = [b.row[o].rec EXCEPT ![l] = ord[o].filled[l]]
      /\ r.ended = IF l \in ord[o].live THEN b.row[o].ended ELSE b.row[o].ended \cup {l}
      /\ r.st = IF IsPair(o) \/ l \in ord[o].live THEN b.row[o].st ELSE "done"
  BY <1>1 DEF Row, Reported
<1>4. r \in Row
  <2>1. (b.row[o].receipt \/ ~IsPair(o)) \in BOOLEAN  OBVIOUS
  <2> QED  BY <1>1, <1>2, <2>1 DEF Row, Reported
<1>5. c = [b EXCEPT !.sold = @ + (ord[o].filled[l] - b.row[o].rec[l]), !.row[o] = r]  BY DEF Book
<1> HIDE DEF r
<1>6. c.sold = b.sold + (ord[o].filled[l] - b.row[o].rec[l]) /\ c.bought = b.bought
      /\ c.row = [b.row EXCEPT ![o] = r]
  BY <1>1, <1>5 DEF Books
<1>7. c \in Books
  <2>1. b.sold + (ord[o].filled[l] - b.row[o].rec[l]) \in Nat  BY <1>1, <1>2
  <2>2. [b.row EXCEPT ![o] = r] \in [Orders -> Row]  BY <1>1, <1>4
  <2> HIDE DEF r
  <2>3. c.sold \in Nat /\ c.bought \in Nat /\ c.row \in [Orders -> Row]  BY <1>1, <1>6, <2>1, <2>2
  <2>4. c = [bought |-> c.bought, sold |-> c.sold, row |-> c.row]  BY <1>5 DEF Books
  <2> QED  BY <2>3, <2>4 DEF Books
<1>8. c.row[o] = r /\ \A p \in Orders : p # o => c.row[p] = b.row[p]  BY <1>1, <1>6
<1>9. r.rec[l] = ord[o].filled[l] /\ \A k \in Leg : k # l => r.rec[k] = b.row[o].rec[k]
  BY <1>1, <1>3
<1> QED  BY <1>3, <1>6, <1>7, <1>8, <1>9 DEF Booked

\* A report never books more than was sold, ends a row only when all of it is booked,
\* and leaves what was exact exact.
LEMMA BookKeeps ==
  ASSUME BrokerTypes, NEW t, NEW b, BooksInv(b, t), NEW o \in Orders, NEW l \in Leg,
         b.row[o].legs = books.row[o].legs, l = "target" \/ IsPair(o),
         NEW c, c = Book(b, o, l)
  PROVE  /\ BooksInv(c, t) /\ c.row[o].rec[l] = ord[o].filled[l]
         /\ \A p \in Orders : c.row[p].legs = b.row[p].legs
         /\ \A p \in Orders, k \in Leg :
              b.row[p].rec[k] = ord[p].filled[k] => c.row[p].rec[k] = ord[p].filled[k]
<1>1. /\ b \in Books /\ b.bought <= bought /\ sold = b.sold + GapOf(b, t)
      /\ \A p \in Orders : RowInv(b, p) /\ (p # t => Over(b, p))
  BY DEF BooksInv
<1>2. b.row[o].rec[l] <= ord[o].filled[l]  BY <1>1 DEF RowInv
<1>3. /\ c \in Books /\ c.bought = b.bought
      /\ c.sold = b.sold + (ord[o].filled[l] - b.row[o].rec[l])
      /\ \A p \in Orders : p # o => c.row[p] = b.row[p]
      /\ c.row[o].legs = b.row[o].legs
      /\ c.row[o].rec[l] = ord[o].filled[l]
      /\ \A k \in Leg : k # l => c.row[o].rec[k] = b.row[o].rec[k]
      /\ c.row[o].ended = IF l \in ord[o].live THEN b.row[o].ended ELSE b.row[o].ended \cup {l}
      /\ c.row[o].st = IF IsPair(o) \/ l \in ord[o].live THEN b.row[o].st ELSE "done"
  <2>1. b \in Books  BY <1>1
  <2>2. Booked(b, c, o, l)  BY <1>2, <2>1, BookFields
  <2> QED  BY <2>2 DEF Booked
<1>4. \A p \in Orders, k \in Leg :
        b.row[p].rec[k] = ord[p].filled[k] => c.row[p].rec[k] = ord[p].filled[k]
  BY <1>3
<1>5. \A p \in Orders : Over(b, p) => Over(c, p)  BY <1>4 DEF Over, Exact
<1>6. RowInv(c, o)
  <2>1. RowInv(b, o)  BY <1>1
  <2>2. /\ b.row[o].ended \in SUBSET Leg /\ b.row[o].legs \in SUBSET Leg
        /\ \A k \in Leg : b.row[o].rec[k] \in Nat /\ ord[o].filled[k] \in Nat
    BY <1>1, RowTypes, OrderTypes DEF Leg
  <2>3. c.row[o].st \in {"none", "aborted"} => ord[o] = NoOrder  BY <1>3, <2>1 DEF RowInv
  <2>4. c.row[o].st = "done" => Over(c, o)
    <3>1. CASE IsPair(o) \/ l \in ord[o].live
      BY <1>3, <1>5, <2>1, <3>1 DEF RowInv
    <3>2. CASE ~IsPair(o) /\ l \notin ord[o].live
      <4>1. l = "target" /\ b.row[o].legs # Leg  BY <3>2 DEF IsPair
      <4>2. b.row[o].legs \in {{}, {"target"}} /\ ord[o].live \subseteq b.row[o].legs
        BY <2>1, <4>1 DEF RowInv
      <4>3. ord[o].live = {}  BY <3>2, <4>1, <4>2
      <4>4. "stop" \in Leg /\ "stop" \notin b.row[o].legs  BY <4>2 DEF Leg
      <4>5. ord[o].filled["stop"] = 0 /\ b.row[o].rec["stop"] <= ord[o].filled["stop"]
        BY <2>1, <4>4 DEF RowInv
      <4>6. b.row[o].rec["stop"] = ord[o].filled["stop"]  BY <2>2, <4>4, <4>5
      <4>7. Exact(c, o)  BY <1>3, <4>1, <4>4, <4>6 DEF Exact, Leg
      <4> QED  BY <4>3, <4>7 DEF Over, Sellable
    <3> QED  BY <3>1, <3>2
  <2>5. \A k \in Leg : c.row[o].rec[k] <= ord[o].filled[k]  BY <1>3, <2>1, <2>2 DEF RowInv
  <2>6. \A k \in c.row[o].ended : k \notin ord[o].live /\ c.row[o].rec[k] = ord[o].filled[k]
    <3> TAKE k \in c.row[o].ended
    <3>1. CASE k = l /\ l \notin ord[o].live  BY <1>3, <3>1
    <3>2. CASE k \in b.row[o].ended  BY <1>4, <2>1, <2>2, <3>2 DEF RowInv
    <3> QED  BY <1>3, <3>1, <3>2
  <2> QED  BY <1>3, <2>1, <2>3, <2>4, <2>5, <2>6 DEF RowInv
<1>7. \A p \in Orders : RowInv(c, p)
  <2>1. ASSUME NEW p \in Orders, p # o  PROVE RowInv(c, p)
    <3>1. c.row[p] = b.row[p] /\ RowInv(b, p)  BY <1>1, <1>3, <2>1
    <3> QED  BY <3>1 DEF RowInv, Over, Exact
  <2> QED  BY <1>6, <2>1
<1>8. sold = c.sold + GapOf(c, t)
  <2>1. /\ b.sold \in Nat /\ ord[o].filled["target"] \in Nat /\ ord[o].filled["stop"] \in Nat
        /\ b.row[o].rec["target"] \in Nat /\ b.row[o].rec["stop"] \in Nat /\ sold \in Nat
    BY <1>1, RowTypes, OrderTypes DEF BrokerTypes
  <2>2. l \in {"target", "stop"} /\ "target" \in Leg /\ "stop" \in Leg  BY DEF Leg
  <2>3. CASE o = t  BY <1>1, <1>3, <2>1, <2>2, <2>3 DEF GapOf, Gap
  <2>4. CASE o # t
    <3>1. b.row[o].rec[l] = ord[o].filled[l]  BY <1>1, <2>4 DEF Over, Exact
    <3>2. c.sold = b.sold  BY <1>3, <2>1, <2>2, <3>1
    <3>3. GapOf(c, t) = GapOf(b, t)  BY <1>3, <2>4 DEF GapOf, Gap
    <3> QED  BY <1>1, <3>2, <3>3
  <2> QED  BY <2>3, <2>4
<1> QED  BY <1>1, <1>3, <1>4, <1>5, <1>7, <1>8 DEF BooksInv

\* Books that a pass may write: they keep the invariant and lose no exact leg.
Keeps(b, c) ==
  \A p \in Orders, k \in Leg :
    b.row[p].rec[k] = ord[p].filled[k] => c.row[p].rec[k] = ord[p].filled[k]
Observed(b) ==
  /\ BooksInv(b, Tip) /\ Keeps(books, b)
  /\ \A p \in Orders : b.row[p].legs = books.row[p].legs

\* The books as they are.
LEMMA ObservedNow ==
  ASSUME LedgerInv  PROVE Observed(books)
BY DEF LedgerInv, Observed, Keeps

\* A booked leg is one a pass may write.
LEMMA ObservedBook ==
  ASSUME BrokerTypes, NEW b, Observed(b), NEW o \in Orders, NEW l \in Leg,
         l = "target" \/ IsPair(o), NEW c, c = Book(b, o, l)
  PROVE  Observed(c) /\ Keeps(b, c) /\ c.row[o].rec[l] = ord[o].filled[l]
<1>1. BooksInv(b, Tip) /\ b.row[o].legs = books.row[o].legs  BY DEF Observed
<1>2. PICK t : t = Tip  OBVIOUS
<1>3. BooksInv(b, t)  BY <1>1, <1>2
<1>4. /\ BooksInv(c, t) /\ c.row[o].rec[l] = ord[o].filled[l]
      /\ \A p \in Orders : c.row[p].legs = b.row[p].legs
      /\ \A p \in Orders, k \in Leg :
           b.row[p].rec[k] = ord[p].filled[k] => c.row[p].rec[k] = ord[p].filled[k]
  BY <1>1, <1>3, BookKeeps
<1> QED  BY <1>2, <1>4 DEF Observed, Keeps

\* A row is closed over an order that has ended and is booked.
LEMMA ObservedDone ==
  ASSUME NEW b, Observed(b), NEW o \in Orders, Over(b, o),
         NEW c, c = [b EXCEPT !.row[o].st = "done"]
  PROVE  Observed(c) /\ Keeps(b, c)
<1>1. /\ b \in Books /\ b.bought <= bought /\ sold = b.sold + GapOf(b, Tip)
      /\ \A p \in Orders : RowInv(b, p) /\ (p # Tip => Over(b, p))
  BY DEF Observed, BooksInv
<1> DEFINE r == [b.row[o] EXCEPT !.st = "done"]
<1>2. b.row \in [Orders -> Row] /\ b.row[o] \in Row /\ b.sold \in Nat /\ b.bought \in Nat
  BY <1>1, RowTypes
<1>3. /\ r \in Row /\ r.st = "done" /\ r.legs = b.row[o].legs /\ r.rec = b.row[o].rec
      /\ r.ended = b.row[o].ended
  BY <1>2 DEF Row
<1>4. c = [b EXCEPT !.row[o] = r]  OBVIOUS
<1> HIDE DEF r
<1>5. c.sold = b.sold /\ c.bought = b.bought /\ c.row = [b.row EXCEPT ![o] = r]
  BY <1>1, <1>4 DEF Books
<1>6. c \in Books
  <2>1. c.row \in [Orders -> Row]  BY <1>2, <1>3, <1>5
  <2>2. c = [bought |-> c.bought, sold |-> c.sold, row |-> c.row]  BY <1>1, <1>4 DEF Books
  <2> QED  BY <1>2, <1>5, <2>1, <2>2 DEF Books
<1>7. /\ \A p \in Orders : p # o => c.row[p] = b.row[p]
      /\ c.row[o].st = "done"
      /\ \A p \in Orders : /\ c.row[p].legs = b.row[p].legs /\ c.row[p].rec = b.row[p].rec
                           /\ c.row[p].ended = b.row[p].ended
  BY <1>2, <1>3, <1>5
<1>8. \A p \in Orders : Over(b, p) <=> Over(c, p)  BY <1>7 DEF Over, Exact
<1>9. \A p \in Orders : RowInv(c, p)
  <2>1. ASSUME NEW p \in Orders, p # o  PROVE RowInv(c, p)
    BY <1>1, <1>7, <1>8, <2>1 DEF RowInv
  <2>2. RowInv(c, o)  BY <1>1, <1>7, <1>8 DEF RowInv
  <2> QED  BY <2>1, <2>2
<1>10. GapOf(c, Tip) = GapOf(b, Tip)  BY <1>7 DEF GapOf, Gap
<1>11. BooksInv(c, Tip)  BY <1>1, <1>5, <1>6, <1>8, <1>9, <1>10 DEF BooksInv
<1>12. Keeps(b, c)  BY <1>7 DEF Keeps
<1>13. Keeps(books, c)  BY <1>12 DEF Observed, Keeps
<1> QED  BY <1>7, <1>11, <1>12, <1>13 DEF Observed

\* One leg of a read: while the read stands, the leg is booked exactly.
LEMMA RecordLegKeeps ==
  ASSUME BrokerTypes, NEW t, t.ok \in BOOLEAN, t = [ok |-> t.ok, b |-> t.b], Observed(t.b),
         NEW o \in Orders, NEW l \in Leg, l = "target" \/ IsPair(o),
         NEW u, u = RecordLeg(t, o, l)
  PROVE  /\ u.ok \in BOOLEAN /\ u = [ok |-> u.ok, b |-> u.b]
         /\ Observed(u.b) /\ Keeps(t.b, u.b) /\ (u.ok => t.ok)
         /\ u.ok => u.b.row[o].rec[l] = ord[o].filled[l]
<1>0. Keeps(t.b, t.b)  BY DEF Keeps
<1>1. CASE ~t.ok  BY <1>0, <1>1 DEF RecordLeg
<1>2. CASE t.ok /\ Provider = "schwab" /\ IsPair(o) /\ ord[o].filled[l] = 0
  <2>1. u = t  BY <1>2 DEF RecordLeg
  <2>2. t.b \in Books /\ RowInv(t.b, o)  BY DEF Observed, BooksInv
  <2>3. t.b.row[o].rec[l] \in Nat  BY <2>2, RowTypes DEF Leg
  <2>4. t.b.row[o].rec[l] <= 0  BY <1>2, <2>2 DEF RowInv
  <2>5. t.b.row[o].rec[l] = ord[o].filled[l]  BY <1>2, <2>3, <2>4
  <2> QED  BY <1>0, <2>1, <2>5
<1>3. CASE t.ok /\ ~(Provider = "schwab" /\ IsPair(o) /\ ord[o].filled[l] = 0)
  <2>1. CASE Admitted(t.b, o, l)
    <3>1. u = [t EXCEPT !.b = Book(@, o, l)]  BY <1>3, <2>1 DEF RecordLeg
    <3>2. u.ok = t.ok /\ u.b = Book(t.b, o, l) /\ u = [ok |-> u.ok, b |-> u.b]  BY <3>1
    <3>3. PICK b, c : b = t.b /\ c = u.b  OBVIOUS
    <3>4. Observed(c) /\ Keeps(b, c) /\ c.row[o].rec[l] = ord[o].filled[l]
      BY <3>2, <3>3, ObservedBook
    <3> QED  BY <3>2, <3>3, <3>4
  <2>2. CASE ~Admitted(t.b, o, l)
    <3>1. u = [t EXCEPT !.ok = FALSE]  BY <1>3, <2>2 DEF RecordLeg
    <3>2. u.ok = FALSE /\ u.b = t.b /\ u = [ok |-> u.ok, b |-> u.b]  BY <3>1
    <3> QED  BY <1>0, <3>2
  <2> QED  BY <2>1, <2>2
<1> QED  BY <1>1, <1>2, <1>3

\* Keeping exact legs composes.
LEMMA KeepsThrough ==
  ASSUME NEW a, NEW b, NEW c, Keeps(a, b), Keeps(b, c)  PROVE Keeps(a, c)
BY DEF Keeps

\* A read of several legs.
LEMMA RecordLegsKeep ==
  ASSUME BrokerTypes, NEW t, t.ok \in BOOLEAN, t = [ok |-> t.ok, b |-> t.b], Observed(t.b),
         NEW o \in Orders, NEW L \in SUBSET Leg, \A l \in L : l = "target" \/ IsPair(o),
         NEW u, u = RecordLegs(t, o, L)
  PROVE  /\ u.ok \in BOOLEAN /\ Observed(u.b) /\ Keeps(t.b, u.b) /\ (u.ok => t.ok)
         /\ u.ok => \A l \in L : u.b.row[o].rec[l] = ord[o].filled[l]
<1>0. "target" \in Leg /\ "stop" \in Leg /\ \A l \in L : l \in {"target", "stop"}  BY DEF Leg
<1>1. PICK t1 : t1 = IF "target" \in L THEN RecordLeg(t, o, "target") ELSE t  OBVIOUS
<1>2. u = IF "stop" \in L THEN RecordLeg(t1, o, "stop") ELSE t1  BY <1>1 DEF RecordLegs
<1>3. /\ t1.ok \in BOOLEAN /\ t1 = [ok |-> t1.ok, b |-> t1.b]
      /\ Observed(t1.b) /\ Keeps(t.b, t1.b) /\ (t1.ok => t.ok)
      /\ t1.ok /\ "target" \in L => t1.b.row[o].rec["target"] = ord[o].filled["target"]
  <2>1. CASE "target" \in L
    <3>1. t1 = RecordLeg(t, o, "target")  BY <1>1, <2>1
    <3> QED  BY <1>0, <3>1, RecordLegKeeps
  <2>2. CASE "target" \notin L
    <3>1. t1 = t /\ Keeps(t.b, t.b)  BY <1>1, <2>2 DEF Keeps
    <3> QED  BY <2>2, <3>1
  <2> QED  BY <2>1, <2>2
<1>4. /\ u.ok \in BOOLEAN /\ Observed(u.b) /\ Keeps(t1.b, u.b) /\ (u.ok => t1.ok)
      /\ u.ok /\ "stop" \in L => u.b.row[o].rec["stop"] = ord[o].filled["stop"]
  <2>1. CASE "stop" \in L
    <3>1. u = RecordLeg(t1, o, "stop") /\ ("stop" = "target" \/ IsPair(o))  BY <1>2, <2>1
    <3> QED  BY <1>0, <1>3, <3>1, RecordLegKeeps
  <2>2. CASE "stop" \notin L
    <3>1. u = t1 /\ Keeps(t1.b, t1.b)  BY <1>2, <2>2 DEF Keeps
    <3> QED  BY <1>3, <2>2, <3>1
  <2> QED  BY <2>1, <2>2
<1>5. Keeps(t.b, u.b)  BY <1>3, <1>4, KeepsThrough
<1>6. u.ok /\ "target" \in L => u.b.row[o].rec["target"] = ord[o].filled["target"]
  BY <1>0, <1>3, <1>4 DEF Keeps
<1> QED  BY <1>0, <1>3, <1>4, <1>5, <1>6

\* The root of the protective tree: a read that finds it ended has booked all of it.
LEMMA ReadTreeKeeps ==
  ASSUME BrokerTypes, LedgerInv, Root \in Orders, NEW b, Observed(b),
         NEW R, R \subseteq books.row[Root].legs, NEW v, v = ReadTree(b, R)
  PROVE  /\ v.ok \in BOOLEAN /\ Observed(v.b) /\ Keeps(b, v.b)
         /\ v.res \in {"unknown", "terminal", "working"}
         /\ v.ok /\ v.res = "terminal" => Over(v.b, Root)
<1>1. PICK o : o = Root  OBVIOUS
<1> DEFINE row == books.row[o]
<1>2. PICK ok0 : ok0 = (row.st # "none" /\ ~(Provider = "schwab" /\ IsPair(o) /\ ~row.receipt))
  OBVIOUS
<1>3. PICK t0 : t0 = [ok |-> ok0, b |-> b]  OBVIOUS
<1>4. PICK L : L = R \ Settled(o)  OBVIOUS
<1>5. PICK t : t = RecordLegs(t0, o, L)  OBVIOUS
<1>6. PICK res : res = IF row.legs \ (R \cup Settled(o)) # {} THEN "unknown"
                       ELSE IF ord[o].live = {} THEN "terminal" ELSE "working"
  OBVIOUS
<1>7. v = [ok |-> t.ok, res |-> res,
           b |-> IF t.ok /\ res = "terminal" THEN [t.b EXCEPT !.row[o].st = "done"] ELSE t.b]
  BY <1>1, <1>2, <1>3, <1>4, <1>5, <1>6 DEF ReadTree
<1>8. /\ books \in Books /\ RowInv(books, o) /\ o \in Orders
      /\ row.legs \in {{}, {"target"}, Leg}
  BY <1>1 DEF LedgerInv, BooksInv, RowInv
<1>9. L \in SUBSET Leg /\ \A l \in L : l = "target" \/ IsPair(o)
  BY <1>1, <1>4, <1>8 DEF IsPair, Leg
<1>10. t0.ok \in BOOLEAN /\ t0 = [ok |-> t0.ok, b |-> t0.b] /\ t0.b = b  BY <1>2, <1>3
<1>11. /\ t.ok \in BOOLEAN /\ Observed(t.b) /\ Keeps(b, t.b)
       /\ t.ok => \A l \in L : t.b.row[o].rec[l] = ord[o].filled[l]
  BY <1>5, <1>8, <1>9, <1>10, RecordLegsKeep
<1>12. t.ok /\ res = "terminal" => Over(t.b, o)
  <2> SUFFICES ASSUME t.ok, res = "terminal"  PROVE Over(t.b, o)  OBVIOUS
  <2>1. row.legs \subseteq R \cup Settled(o) /\ ord[o].live = {}  BY <1>6
  <2>2. ASSUME NEW l \in Leg  PROVE t.b.row[o].rec[l] = ord[o].filled[l]
    <3>1. CASE l \in L  BY <1>11, <3>1
    <3>2. CASE l \in Settled(o)
      <4>1. l \in row.ended  BY <3>2 DEF Settled
      <4>2. row.rec[l] = ord[o].filled[l]  BY <1>8, <4>1 DEF RowInv
      <4> QED  BY <1>8, <1>11, <4>2 DEF Observed, Keeps
    <3>3. CASE l \notin row.legs
      <4>1. ord[o].filled[l] = 0 /\ row.rec[l] <= ord[o].filled[l]  BY <1>8, <3>3 DEF RowInv
      <4>2. row.rec[l] \in Nat  BY <1>8, RowTypes DEF Leg
      <4>3. row.rec[l] = ord[o].filled[l]  BY <4>1, <4>2
      <4> QED  BY <1>8, <1>11, <4>3 DEF Observed, Keeps
    <3> QED  BY <1>4, <2>1, <3>1, <3>2, <3>3
  <2> QED  BY <2>1, <2>2 DEF Over, Exact, Sellable
<1>13. CASE t.ok /\ res = "terminal"
  <2>1. PICK a, c : a = t.b /\ c = [a EXCEPT !.row[o].st = "done"]  OBVIOUS
  <2>2. Observed(c) /\ Keeps(a, c)  BY <1>8, <1>11, <1>12, <1>13, <2>1, ObservedDone
  <2>3. Over(c, o)  BY <1>8, <1>12, <1>13, <2>1, <2>2 DEF Over, Exact, Keeps
  <2>4. Keeps(b, c)  BY <1>11, <2>1, <2>2, KeepsThrough
  <2>5. v.b = c /\ v.ok = t.ok /\ v.res = res  BY <1>7, <1>13, <2>1
  <2> QED  BY <1>1, <1>11, <1>13, <2>2, <2>3, <2>4, <2>5
<1>14. CASE ~(t.ok /\ res = "terminal")
  <2>1. v.b = t.b /\ v.ok = t.ok /\ v.res = res  BY <1>7, <1>14
  <2>2. res \in {"unknown", "terminal", "working"}  BY <1>6
  <2> QED  BY <1>11, <1>14, <2>1, <2>2
<1> QED  BY <1>13, <1>14

------------------------------------------------------------------------------
(* What an observation leaves in the process.                               *)

\* The shape of a position, and what it still holds.
LEMMA PositionTypes ==
  ASSUME NEW p \in Positions
  PROVE  /\ p.qty \in Nat /\ p.exited \in Nat /\ p.reserved \in Nat /\ p.seen \in Nat
         /\ Remaining(p) \in Nat
BY DEF Positions, Remaining

\* What a pass writes into the cached position keeps its type.
LEMMA PositionKinds ==
  ASSUME NEW p \in Positions, DayTypes
  PROVE  /\ NoPosition \in Positions
         /\ Released(p) \in Positions /\ Doubtful(p) \in Positions
         /\ [p EXCEPT !.market = session] \in Positions
         /\ \A n \in Nat : /\ [p EXCEPT !.reserved = n] \in Positions
                           /\ [p EXCEPT !.exited = n] \in Positions
                           /\ [p EXCEPT !.seen = n] \in Positions
                           /\ [p EXCEPT !.unknown = FALSE, !.reserved = n] \in Positions
         /\ Remaining(Released(p)) = Remaining(p) /\ Remaining(Doubtful(p)) = Remaining(p)
<1>1. day.first \in Session  BY DEF DayTypes, Day
<1>2. NoPosition \in Positions  BY <1>1 DEF NoPosition, Positions
<1>3. Released(p) \in Positions /\ Doubtful(p) \in Positions
  BY DEF Released, Doubtful, Positions
<1>4. [p EXCEPT !.market = session] \in Positions  BY DEF DayTypes, Positions
<1>5. \A n \in Nat : /\ [p EXCEPT !.reserved = n] \in Positions
                     /\ [p EXCEPT !.exited = n] \in Positions
                     /\ [p EXCEPT !.seen = n] \in Positions
                     /\ [p EXCEPT !.unknown = FALSE, !.reserved = n] \in Positions
  BY DEF Positions
<1>6. Remaining(Released(p)) = Remaining(p) /\ Remaining(Doubtful(p)) = Remaining(p)
  BY DEF Released, Doubtful, Remaining, Positions
<1> QED  BY <1>2, <1>3, <1>4, <1>5, <1>6

\* So does what it writes after a read of the protective order, whether it stood or failed.
LEMMA PositionReads ==
  ASSUME NEW p \in Positions, NEW h \in Handles, NEW res, NEW n \in Nat
  PROVE  PositionAfter(p, h, res, n) \in Positions /\ PositionUnread(p, h) \in Positions
<1>0. h.qty \in Nat /\ p.exited \in Nat  BY PositionTypes DEF Handles
<1>1. PICK q : q = [p EXCEPT !.exited = IF n > @ THEN n ELSE @]  OBVIOUS
<1>2. q \in Positions  BY <1>0, <1>1 DEF Positions
<1>3. \A x \in Positions : LesserOf(h.qty, Remaining(x)) \in Nat
  BY <1>0, PositionTypes DEF LesserOf
<1>4. PICK rest, can, zero :
        /\ rest = (\/ res = "working"
                   \/ res = "unknown" /\ h.status \in {"working", "cancel_requested"})
        /\ can = (rest \/ (p.market = "AM" /\ res # "terminal"))
        /\ zero = (p.market = "AM" /\ res = "terminal" /\ q.exited = 0)
  OBVIOUS
<1>5. PICK conf, unkn, r : /\ conf = (rest /\ h.session = "NORMAL") /\ unkn = (res = "unknown")
                           /\ r = IF can THEN LesserOf(h.qty, Remaining(q)) ELSE 0
  OBVIOUS
<1>6. zero \in BOOLEAN /\ conf \in BOOLEAN /\ unkn \in BOOLEAN  BY <1>4, <1>5
<1>7. r \in Nat  BY <1>2, <1>3, <1>5
<1>8. PositionAfter(p, h, res, n) =
        [q EXCEPT !.confirmed = conf, !.zero = zero, !.reserved = r, !.unknown = unkn]
  BY <1>1, <1>4, <1>5 DEF PositionAfter
<1>9. PositionAfter(p, h, res, n) \in Positions  BY <1>2, <1>6, <1>7, <1>8 DEF Positions
<1>10. PositionUnread(p, h) \in Positions
  <2>1. PICK m : m = LesserOf(h.qty, Remaining(p))  OBVIOUS
  <2>2. m \in Nat  BY <1>3, <2>1
  <2> QED  BY <2>1, <2>2 DEF PositionUnread, Positions
<1> QED  BY <1>9, <1>10

\* A read keeps the order's number and its wire latches, and never un-sends it.
SameHandle(h, g) ==
  /\ g \in Handles /\ g.gen = h.gen /\ h.wires \subseteq g.wires
  /\ h.status # "unsent" => g.status # "unsent"

\* A read changes only the status of a handle and whether its legs are known.
LEMMA HandleReads ==
  ASSUME NEW h \in Handles, NEW res, NEW R
  PROVE  SameHandle(h, HandleAfter(h, res, R))
<1>1. PICK s, k : s = StatusAfter(h.status, res)
                  /\ k = (h.known \/ R # {} \/ (Provider = "webull" /\ h.session = "NORMAL"))
  OBVIOUS
<1>2. /\ s \in {"unsent", "submitted_unknown", "working", "cancel_requested", "terminal", "unknown"}
      /\ h.status # "unsent" => s # "unsent"
  BY <1>1 DEF StatusAfter, Handles
<1>3. k \in BOOLEAN  BY <1>1
<1>4. HandleAfter(h, res, R) = [h EXCEPT !.status = s, !.known = k]  BY <1>1 DEF HandleAfter
<1> QED  BY <1>2, <1>3, <1>4 DEF SameHandle, Handles

Looked(v) ==
  /\ v.ok \in BOOLEAN /\ Observed(v.b) /\ v.p \in Positions /\ SameHandle(mem.h, v.h)
  /\ v.ok /\ v.res = "terminal" => Over(v.b, Root)

\* An observation of the protective order: the books it leaves may be written, and when it
\* says that the order has ended all of it is booked and nothing of it can sell.
LEMMA LookKeeps ==
  ASSUME Types, LedgerInv, Root \in Orders, NEW b, Observed(b), NEW p \in Positions,
         NEW R, R \subseteq books.row[Root].legs, NEW v, v = Look(b, p, R)
  PROVE  Looked(v)
<1>1. PICK t : t = ReadTree(b, R)  OBVIOUS
<1>2. BrokerTypes /\ mem.h \in Handles  BY DEF Types, Journals
<1>3. /\ t.ok \in BOOLEAN /\ Observed(t.b)
      /\ t.ok /\ t.res = "terminal" => Over(t.b, Root)
  BY <1>1, <1>2, ReadTreeKeeps
<1>4. v = [ok |-> t.ok, b |-> t.b, res |-> t.res,
           h |-> IF t.ok THEN HandleAfter(mem.h, t.res, R) ELSE mem.h,
           p |-> IF t.ok THEN PositionAfter(p, mem.h, t.res, t.b.sold) ELSE PositionUnread(p, mem.h)]
  BY <1>1 DEF Look
<1>5. t.b.sold \in Nat  BY <1>3 DEF Observed, BooksInv, Books
<1>6. PositionAfter(p, mem.h, t.res, t.b.sold) \in Positions /\ PositionUnread(p, mem.h) \in Positions
  BY <1>2, <1>5, PositionReads
<1>7. SameHandle(mem.h, mem.h)  BY <1>2 DEF SameHandle
<1>8. SameHandle(mem.h, HandleAfter(mem.h, t.res, R))  BY <1>2, HandleReads
<1>9. /\ v.ok = t.ok /\ v.b = t.b /\ v.res = t.res
      /\ v.h = (IF t.ok THEN HandleAfter(mem.h, t.res, R) ELSE mem.h)
      /\ v.p = (IF t.ok THEN PositionAfter(p, mem.h, t.res, t.b.sold) ELSE PositionUnread(p, mem.h))
  BY <1>4
<1>10. v.p \in Positions /\ SameHandle(mem.h, v.h)  BY <1>6, <1>7, <1>8, <1>9
<1> QED  BY <1>3, <1>9, <1>10 DEF Looked

------------------------------------------------------------------------------
(* When nothing may still sell.                                             *)

\* What was over stays over.
LEMMA CleanKept ==
  ASSUME NEW b, Observed(b), Clean(books)  PROVE Clean(b)
BY DEF Observed, Keeps, Clean, Over, Exact

\* The fields of the journals have their types.
LEMMA TipTypes ==
  ASSUME Types
  PROVE  /\ saved.h.gen \in 0..MaxGen /\ saved.attempt \in 0..MaxAttempt
         /\ mem.h.gen \in 0..MaxGen /\ mem.attempt \in 0..MaxAttempt
         /\ mem.h \in Handles /\ saved.h \in Handles
         /\ mem.sent \in BOOLEAN /\ saved.sent \in BOOLEAN
         /\ mem.h.wires \in SUBSET Leg /\ saved.h.wires \in SUBSET Leg
         /\ mem.reason \in {"none", Target, Mandatory}
         /\ MaxGen \in Nat /\ MaxAttempt \in Nat
         /\ mem.h.gen > 0 => Root \in Orders
         /\ mem.attempt > 0 => Current \in Orders
BY OwnedExitConstants DEF Types, Journals, Handles, Root, Current, Orders, Native, Soft

\* A protective order read as ended, none at all, and a software exit that has ended.
LEMMA CleanNative ==
  ASSUME JournalInv, ~mem.sent, NEW b, Observed(b), Over(b, Root)
  PROVE  Clean(b)
<1>1. CASE mem.h = saved.h
  <2>1. Tip = Root  BY <1>1 DEF Tip, Root, JournalInv
  <2> QED  BY <2>1 DEF Observed, BooksInv, Clean
<1>2. CASE Fresh  BY <1>2, CleanKept DEF Fresh
<1> QED  BY <1>1, <1>2 DEF JournalInv

\* No protective order and no software exit: nothing can sell.
LEMMA CleanUnarmed ==
  ASSUME Types, JournalInv, ~mem.sent, mem.h.gen = 0, NEW b, Observed(b)
  PROVE  Clean(b)
<1>1. mem.h = saved.h  BY TipTypes DEF JournalInv, Fresh
<1>2. Tip = <<"native", 0>>  BY <1>1 DEF Tip, JournalInv
<1>3. Tip \notin Orders  BY <1>2 DEF Orders, Native, Soft
<1> QED  BY <1>3 DEF Observed, BooksInv, Clean

\* A sent software exit that has ended: nothing can sell.
LEMMA CleanSoft ==
  ASSUME JournalInv, mem.sent, NEW b, Observed(b), Over(b, Current)
  PROVE  Clean(b)
<1>1. Tip = Current  BY DEF Tip, Current, JournalInv
<1> QED  BY <1>1 DEF Observed, BooksInv, Clean

------------------------------------------------------------------------------
(* Steps that leave the broker's orders alone.                              *)

\* The orders unchanged, what was over is over.
LEMMA CleanNext ==
  ASSUME UNCHANGED ord, NEW b, books' = b, Clean(b)  PROVE Clean(books)'
BY DEF Clean, Over, Exact, Sellable

\* What an order may still sell is a number.
LEMMA LeftNat ==
  ASSUME BrokerTypes, NEW o \in Orders, OrderInv(o)
  PROVE  LeftToSell(o) \in Nat /\ (Sellable(o) => LeftToSell(o) > 0)
BY OrderTypes DEF OrderInv, LeftToSell

\* The one open order may change only when nothing is open.
LEMMA BooksStep ==
  ASSUME BrokerTypes, LedgerInv, UNCHANGED <<bought, sold, ord>>,
         NEW b, BooksInv(b, Tip), books' = b,
         \/ Clean(b)
         \/ /\ Tip' = Tip
            /\ ~saved.sent /\ saved.h.status # "unsent" => saved'.h.status # "unsent"
            /\ saved'.sent = saved.sent
  PROVE  LedgerInv'
<1>1. (\A o \in Orders : OrderInv(o))'  BY DEF LedgerInv, OrderInv, Sellable
<1>2. /\ b \in Books /\ b.bought <= bought /\ sold = b.sold + GapOf(b, Tip)
      /\ \A p \in Orders : RowInv(b, p) /\ (p # Tip => Over(b, p))
  BY DEF BooksInv
<1>3. (\A p \in Orders : RowInv(books, p))'  BY <1>2 DEF RowInv, Over, Exact, Sellable
<1>4. sold \in Nat /\ bought \in Nat /\ b.sold \in Nat  BY <1>2 DEF BrokerTypes, Books
<1>5. CASE Clean(b)
  <2>1. Clean(books)'  BY <1>5, CleanNext
  <2>2. \A o \in Orders : Gap(b, o) = 0
    BY <1>2, <1>5, RowTypes, OrderTypes DEF Clean, Over, Exact, Gap, Leg
  <2>3. GapOf(b, Tip) = 0 /\ GapOf(b, Tip') = 0  BY <2>2 DEF GapOf
  <2>4. GapOf(books, Tip)' = GapOf(b, Tip')  BY DEF GapOf, Gap
  <2>5. (sold = books.sold + GapOf(books, Tip))'  BY <1>2, <1>4, <2>3, <2>4
  <2>6. BooksInv(books, Tip)'
    BY <1>2, <1>3, <2>1, <2>5 DEF BooksInv, Clean
  <2>7. \A o \in Orders : ~Sellable(o)  BY <1>5 DEF Clean, Over
  <2>8. LeftOf(Tip) = 0 /\ LeftOf(Tip') = 0 /\ (Tip' \in Orders => ~Sellable(Tip'))
    BY <2>7 DEF LeftOf, LeftToSell
  <2>9. (sold + LeftOf(Tip) <= bought)'
    <3>1. LeftOf(Tip)' = LeftOf(Tip')  BY DEF LeftOf, LeftToSell, Sellable
    <3> QED  BY <1>4, <2>8, <3>1 DEF LedgerInv
  <2>10. (Tip \in Orders => ~Sellable(Tip))'  BY <2>8 DEF Sellable
  <2> QED  BY <1>1, <2>6, <2>9, <2>10 DEF LedgerInv
<1>6. CASE /\ Tip' = Tip
           /\ ~saved.sent /\ saved.h.status # "unsent" => saved'.h.status # "unsent"
           /\ saved'.sent = saved.sent
  <2>1. GapOf(books, Tip)' = GapOf(b, Tip)  BY <1>6 DEF GapOf, Gap
  <2>2. (\A p \in Orders : p # Tip => Over(books, p))'
    BY <1>2, <1>6 DEF Over, Exact, Sellable
  <2>3. BooksInv(books, Tip)'  BY <1>2, <1>3, <2>1, <2>2 DEF BooksInv
  <2>4. LeftOf(Tip)' = LeftOf(Tip)  BY <1>6 DEF LeftOf, LeftToSell, Sellable
  <2>5. (Tip \in Orders /\ Sellable(Tip))' <=> (Tip \in Orders /\ Sellable(Tip))
    BY <1>6 DEF Sellable
  <2> QED  BY <1>1, <1>6, <2>3, <2>4, <2>5 DEF LedgerInv
<1> QED  BY <1>5, <1>6

\* The same for books that a pass may write.
LEMMA LedgerStep ==
  ASSUME BrokerTypes, LedgerInv, UNCHANGED <<bought, sold, ord>>,
         NEW b, Observed(b), books' = b,
         \/ Clean(b)
         \/ /\ Tip' = Tip
            /\ ~saved.sent /\ saved.h.status # "unsent" => saved'.h.status # "unsent"
            /\ saved'.sent = saved.sent
  PROVE  LedgerInv'
<1>1. BooksInv(b, Tip)  BY DEF Observed
<1> QED  BY <1>1, BooksStep

Core == LedgerInv /\ JournalInv /\ AskedInv

\* The journal stays.
LEMMA AskingStep ==
  ASSUME Types, Core, UNCHANGED <<bought, sold, ord, saved, mem>>, AskedInv',
         NEW b, Observed(b), books' = b
  PROVE  Core'
<1>1. BrokerTypes /\ LedgerInv /\ JournalInv  BY DEF Types, Core
<1>2. Tip' = Tip  BY DEF Tip
<1>3. LedgerInv'  BY <1>1, <1>2, LedgerStep
<1>4. Fresh => Fresh'
  <2>1. Fresh => Clean(b)  BY CleanKept DEF Fresh
  <2>2. Clean(b) => Clean(books)'  BY CleanNext
  <2> QED  BY <2>1, <2>2 DEF Fresh
<1>5. JournalInv'  BY <1>1, <1>4 DEF JournalInv
<1> QED  BY <1>3, <1>5 DEF Core

\* A step that asks the broker for nothing.
LEMMA SilentStep ==
  ASSUME Types, Core, UNCHANGED <<bought, sold, ord, asked, saved, mem>>,
         NEW b, Observed(b), books' = b
  PROVE  Core'
<1>1. AskedInv'  BY DEF Core, AskedInv
<1> QED  BY <1>1, AskingStep

\* The handle is saved.
LEMMA KeepStep ==
  ASSUME Types, Core, UNCHANGED <<bought, sold, ord, asked>>,
         NEW b, Observed(b), books' = b, NEW h, SameHandle(mem.h, h), Keep(h)
  PROVE  /\ Core' /\ mem'.h = h /\ saved'.h = h /\ mem' = saved'
         /\ mem'.sent = mem.sent /\ mem'.reason = mem.reason /\ mem'.attempt = mem.attempt
         /\ mem' \in Journals /\ saved' \in Journals
<1>1. BrokerTypes /\ LedgerInv /\ JournalInv /\ AskedInv /\ mem \in Journals  BY DEF Types, Core
<1>2. h \in Handles /\ h.gen = mem.h.gen /\ mem.h.wires \subseteq h.wires
      /\ (mem.h.status # "unsent" => h.status # "unsent")
  BY DEF SameHandle
<1>3. /\ mem' = saved' /\ mem'.h = h
      /\ mem'.sent = mem.sent /\ mem'.reason = mem.reason /\ mem'.attempt = mem.attempt
      /\ mem' \in Journals
  BY <1>1, <1>2 DEF Keep, Journals
<1>4. saved'.sent = saved.sent /\ saved'.attempt = saved.attempt /\ saved'.h = h
  BY <1>1, <1>3 DEF JournalInv
<1>5. LedgerInv'
  <2>1. CASE mem.h = saved.h
    <3>1. Tip' = Tip  BY <1>2, <1>4, <2>1 DEF Tip
    <3>2. saved.h.status # "unsent" => saved'.h.status # "unsent"  BY <1>2, <1>4, <2>1
    <3> QED  BY <1>1, <1>4, <3>1, <3>2, LedgerStep
  <2>2. CASE Fresh
    <3>1. Clean(b)  BY <2>2, CleanKept DEF Fresh
    <3> QED  BY <1>1, <3>1, LedgerStep
  <2> QED  BY <1>1, <2>1, <2>2 DEF JournalInv
<1>6. JournalInv'  BY <1>1, <1>3 DEF JournalInv
<1>7. AskedInv'
  <2> SUFFICES ASSUME NEW g \in 1..MaxGen, NEW l \in Leg, <<<<"native", g>>, l>> \in asked
               PROVE  g <= h.gen /\ (g = h.gen => l \in h.wires)
    BY <1>4 DEF AskedInv
  <2>1. g <= saved.h.gen /\ (g = saved.h.gen => l \in saved.h.wires)  BY <1>1 DEF AskedInv
  <2>2. CASE mem.h = saved.h  BY <1>2, <2>1, <2>2
  <2>3. CASE Fresh
    <3>1. saved.h.gen \in Nat /\ g \in Nat  BY TipTypes
    <3>2. h.gen = saved.h.gen + 1  BY <1>2, <2>3 DEF Fresh
    <3> QED  BY <2>1, <3>1, <3>2
  <2> QED  BY <1>1, <2>2, <2>3 DEF JournalInv
<1> QED  BY <1>3, <1>4, <1>5, <1>6, <1>7 DEF Core

\* Places at which the process holds nothing.
LEMMA QuietPlace ==
  ASSUME pc' \in {"idle", "protect", "decide"}  PROVE PlaceInv'
BY DEF PlaceInv

\* The end of a pass.
LEMMA RaiseQuiet ==
  ASSUME DayTypes, NEW p \in Positions, Raise(p)
  PROVE  PlaceInv' /\ pos' \in Positions /\ ctx' \in Contexts
<1>1. pc' = "idle" /\ ctx' = NoContext  BY DEF Raise
<1>2. pos' \in Positions  BY PositionKinds DEF Raise
<1>3. ctx' \in Contexts  BY <1>1 DEF NoContext, Contexts, Leg
<1> QED  BY <1>1, <1>2, <1>3, QuietPlace

\* Going on to another place.
LEMMA GotoTypes ==
  ASSUME ctx \in Contexts, NEW place, Goto(place)
  PROVE  /\ pc' = place /\ ctx' \in Contexts
         /\ place \in {"release", "reread"} => ctx'.then = ctx.then
<1>1. NoContext \in Contexts  BY DEF NoContext, Contexts, Leg
<1>2. ctx.then \in {"exit", "resize", "flat"}  BY DEF Contexts
<1> QED  BY <1>1, <1>2 DEF Goto, Contexts

\* The types of a step that leaves the broker alone.
LEMMA WrittenTypes ==
  ASSUME Types, UNCHANGED <<day, bought, sold, ord, session>>, NEW b \in Books, books' = b,
         saved' \in Journals, mem' \in Journals, pos' \in Positions, ctx' \in Contexts
  PROVE  Types'
BY DEF Types, DayTypes, BrokerTypes

\* The types, when the books are ones a pass may write.
LEMMA StillTypes ==
  ASSUME Types, UNCHANGED <<day, bought, sold, ord, session>>, NEW b, Observed(b), books' = b,
         saved' \in Journals, mem' \in Journals, pos' \in Positions, ctx' \in Contexts
  PROVE  Types'
<1>1. b \in Books  BY DEF Observed, BooksInv
<1> QED  BY <1>1, WrittenTypes

Still == UNCHANGED <<day, bought, sold, ord, asked, session>>

\* The types, when the journal is not written.
LEMMA SilentTypes ==
  ASSUME Types, Core, Still, UNCHANGED <<saved, mem>>, NEW b, Observed(b), books' = b,
         pos' \in Positions, ctx' \in Contexts
  PROVE  Types' /\ Core'
<1>1. Core'  BY SilentStep DEF Still
<1>2. saved' \in Journals /\ mem' \in Journals  BY DEF Types
<1> QED  BY <1>1, <1>2, StillTypes DEF Still

\* The types, when the handle is saved.
LEMMA KeepTypes ==
  ASSUME Types, Core, Still, NEW b, Observed(b), books' = b, NEW h, SameHandle(mem.h, h), Keep(h),
         pos' \in Positions, ctx' \in Contexts
  PROVE  /\ Types' /\ Core' /\ mem'.h = h /\ saved'.h = h
         /\ mem'.sent = mem.sent /\ mem'.reason = mem.reason /\ mem'.attempt = mem.attempt
<1>1. /\ Core' /\ mem'.h = h /\ saved'.h = h
      /\ mem'.sent = mem.sent /\ mem'.reason = mem.reason /\ mem'.attempt = mem.attempt
      /\ mem' \in Journals /\ saved' \in Journals
  BY KeepStep DEF Still
<1> QED  BY <1>1, StillTypes DEF Still

\* A read answers only for legs of the order.
LEMMA ReadsLegs ==
  ASSUME NEW o, NEW R \in Reads(o)  PROVE R \subseteq books.row[o].legs
BY DEF Reads

\* The entry's executions are booked.
LEMMA ObservedBought ==
  ASSUME BrokerTypes, LedgerInv, NEW b, b = [books EXCEPT !.bought = bought]
  PROVE  Observed(b)
<1>1. /\ books \in Books /\ books.bought <= bought /\ sold = books.sold + GapOf(books, Tip)
      /\ \A p \in Orders : RowInv(books, p) /\ (p # Tip => Over(books, p))
  BY DEF LedgerInv, BooksInv
<1>2. bought \in Nat  BY DEF BrokerTypes
<1>3. b \in Books /\ b.bought = bought /\ b.sold = books.sold /\ b.row = books.row
  BY <1>1, <1>2 DEF Books
<1>4. GapOf(b, Tip) = GapOf(books, Tip)  BY <1>3 DEF GapOf, Gap
<1>5. \A p \in Orders : RowInv(b, p) /\ (p # Tip => Over(b, p))
  BY <1>1, <1>3 DEF RowInv, Over, Exact
<1>6. BooksInv(b, Tip)  BY <1>1, <1>2, <1>3, <1>4, <1>5 DEF BooksInv
<1> QED  BY <1>3, <1>6 DEF Observed, Keeps

\* _observe: positions, the software exit and the protective order are read and booked.
LEMMA RefreshKeeps ==
  ASSUME OwnInv, NEW e \in BOOLEAN, NEW x \in BOOLEAN, NEW R \in SUBSET Leg, Refresh(e, x, R), UNCHANGED day
  PROVE  OwnInv'
<1>0. /\ Types /\ Core /\ LedgerInv /\ JournalInv /\ BrokerTypes /\ DayTypes /\ ctx \in Contexts
      /\ mem.h \in Handles /\ session \in Session
  BY TipTypes DEF OwnInv, Core, Types, DayTypes
<1>1. PICK b1 : b1 = [books EXCEPT !.bought = IF e THEN bought ELSE @]  OBVIOUS
<1>2. PICK b2 : b2 = IF x THEN Book(b1, Current, "target") ELSE b1  OBVIOUS
<1>3. PICK p : p = [NoPosition EXCEPT !.on = TRUE, !.qty = b2.bought, !.exited = b2.sold,
                                      !.seen = b2.sold, !.market = session]
  OBVIOUS
<1>4. PICK v : v = Look(b2, p, R)  OBVIOUS
<1>5. Observed(b1)
  <2>1. CASE e  BY <1>0, <1>1, <2>1, ObservedBought
  <2>2. CASE ~e
    <3>1. books \in Books  BY <1>0 DEF LedgerInv, BooksInv
    <3>2. b1 = books  BY <1>1, <2>2, <3>1 DEF Books
    <3> QED  BY <1>0, <3>2, ObservedNow
  <2> QED  BY <2>1, <2>2
<1>6. Observed(b2)
  <2>1. CASE x
    <3>1. mem.attempt > 0  BY <2>1 DEF Refresh
    <3>2. Current \in Orders /\ "target" \in Leg  BY <1>0, <3>1, TipTypes DEF Leg
    <3>3. b2 = Book(b1, Current, "target")  BY <1>2, <2>1
    <3> QED  BY <1>0, <1>5, <3>2, <3>3, ObservedBook
  <2>2. CASE ~x  BY <1>2, <1>5, <2>2
  <2> QED  BY <2>1, <2>2
<1>7. p \in Positions
  <2>1. b2.bought \in Nat /\ b2.sold \in Nat  BY <1>6 DEF Observed, BooksInv, Books
  <2>2. NoPosition \in Positions  BY <1>0, PositionKinds DEF Types
  <2> QED  BY <1>0, <1>3, <2>1, <2>2 DEF Positions
<1>8. /\ R \in IF mem.h.gen = 0 THEN {{}} ELSE Reads(Root)
      /\ IF b2.bought = 0
         THEN UNCHANGED <<durable, process>>
         ELSE IF mem.h.gen = 0
         THEN books' = b2 /\ pos' = p /\ Goto("protect") /\ UNCHANGED <<saved, mem>>
         ELSE /\ books' = v.b
              /\ IF v.ok THEN Keep(v.h) /\ pos' = [v.p EXCEPT !.seen = v.p.exited] /\ Goto("protect")
                 ELSE Raise(NoPosition) /\ UNCHANGED <<saved, mem>>
      /\ UNCHANGED <<broker, crashes>>
  BY <1>1, <1>2, <1>3, <1>4 DEF Refresh
<1>9. Still  BY <1>8 DEF Still, broker
<1>10. CASE b2.bought = 0
  <2>1. UNCHANGED <<books, saved, mem, pos, pc, ctx>>  BY <1>8, <1>10 DEF durable, process
  <2>2. pc' = "idle"  BY <2>1 DEF Refresh
  <2>3. pos' \in Positions /\ ctx' \in Contexts  BY <1>0, <2>1 DEF Types
  <2>4. PICK b : b = books  OBVIOUS
  <2>5. Types' /\ Core'  BY <1>0, <1>9, <2>1, <2>3, <2>4, ObservedNow, SilentTypes
  <2> QED  BY <2>2, <2>5, QuietPlace DEF OwnInv, Core
<1>11. CASE b2.bought # 0 /\ mem.h.gen = 0
  <2>1. books' = b2 /\ pos' = p /\ Goto("protect") /\ UNCHANGED <<saved, mem>>  BY <1>8, <1>11
  <2>2. pc' = "protect" /\ ctx' \in Contexts  BY <1>0, <2>1, GotoTypes
  <2>3. Types' /\ Core'  BY <1>0, <1>6, <1>7, <1>9, <2>1, <2>2, SilentTypes
  <2> QED  BY <2>2, <2>3, QuietPlace DEF OwnInv, Core
<1>12. CASE b2.bought # 0 /\ mem.h.gen # 0
  <2>1. mem.h.gen > 0  BY <1>0, <1>12, TipTypes
  <2>2. Root \in Orders  BY <1>0, <2>1, TipTypes
  <2>3. R \subseteq books.row[Root].legs  BY <1>8, <1>12, ReadsLegs
  <2>4. Looked(v)  BY <1>0, <1>4, <1>6, <1>7, <2>2, <2>3, LookKeeps
  <2>5. PICK b, h : b = v.b /\ h = v.h  OBVIOUS
  <2>6. Observed(b) /\ SameHandle(mem.h, h) /\ books' = b /\ v.p \in Positions
    BY <1>8, <1>12, <2>4, <2>5 DEF Looked
  <2>7. CASE v.ok
    <3>1. Keep(h) /\ pos' = [v.p EXCEPT !.seen = v.p.exited] /\ Goto("protect")  BY <1>8, <1>12, <2>5, <2>7
    <3>2. pos' \in Positions  BY <2>6, <3>1, PositionTypes DEF Positions
    <3>3. pc' = "protect" /\ ctx' \in Contexts  BY <1>0, <3>1, GotoTypes
    <3>4. Types' /\ Core'  BY <1>0, <1>9, <2>6, <3>1, <3>2, <3>3, KeepTypes
    <3> QED  BY <3>3, <3>4, QuietPlace DEF OwnInv, Core
  <2>8. CASE ~v.ok
    <3>1. Raise(NoPosition) /\ UNCHANGED <<saved, mem>>  BY <1>8, <1>12, <2>8
    <3>2. NoPosition \in Positions  BY <1>0, <1>7, PositionKinds
    <3>3. PlaceInv' /\ pos' \in Positions /\ ctx' \in Contexts
      <4>1. PICK q : q = NoPosition  OBVIOUS
      <4> QED  BY <1>0, <3>1, <3>2, <4>1, RaiseQuiet
    <3>4. Types' /\ Core'  BY <1>0, <1>9, <2>6, <3>1, <3>3, SilentTypes
    <3> QED  BY <3>3, <3>4 DEF OwnInv, Core
  <2> QED  BY <2>4, <2>7, <2>8 DEF Looked
<1> QED  BY <1>10, <1>11, <1>12

------------------------------------------------------------------------------
(* What each place is entered with.                                         *)

\* What is known where a pass goes on: a new protective order may be sized.
LEMMA AtGrow ==
  ASSUME pc' = "grow", Clean(books)', mem'.h = saved'.h, ~mem'.sent, Remaining(pos') > 0
  PROVE  PlaceInv'
BY DEF PlaceInv

\* The protective order is to be released.
LEMMA AtRelease ==
  ASSUME pc' = "release", ~mem'.sent, ctx'.then = "exit" => mem'.reason # "none"
  PROVE  PlaceInv'
BY DEF PlaceInv

\* The protective order is to be cancelled.
LEMMA AtCancel ==
  ASSUME pc' \in {"cancel", "reread"}, ~mem'.sent, mem'.h.gen > 0,
         ctx'.then = "exit" => mem'.reason # "none"
  PROVE  PlaceInv'
BY DEF PlaceInv

\* Nothing is open and a software exit may be sized.
LEMMA AtClaim ==
  ASSUME pc' = "claim", Clean(books)', mem'.h = saved'.h, ~mem'.sent, mem'.reason # "none"
  PROVE  PlaceInv'
BY DEF PlaceInv

\* What the invariant gives every action.
LEMMA OwnParts ==
  ASSUME OwnInv
  PROVE  /\ Types /\ Core /\ LedgerInv /\ JournalInv /\ AskedInv /\ PlaceInv
         /\ BrokerTypes /\ DayTypes /\ Observed(books)
         /\ books \in Books /\ mem \in Journals /\ saved \in Journals
         /\ pos \in Positions /\ ctx \in Contexts
         /\ mem.h \in Handles /\ mem.h.gen \in 0..MaxGen
         /\ mem.h.gen # 0 => mem.h.gen > 0 /\ Root \in Orders
         /\ mem.sent \in BOOLEAN
BY TipTypes, ObservedNow DEF OwnInv, Core, Types

\* NativeProtection.ensure: keep the order, release it, or grow a new one.
LEMMA ProtectKeeps ==
  ASSUME OwnInv, NEW R \in SUBSET Leg, Protect(R), UNCHANGED day
  PROVE  OwnInv'
<1>0. /\ Types /\ Core /\ LedgerInv /\ JournalInv /\ BrokerTypes /\ DayTypes /\ ctx \in Contexts
      /\ mem.h \in Handles /\ pos \in Positions /\ Observed(books)
      /\ mem.h.gen # 0 => mem.h.gen > 0 /\ Root \in Orders
  BY OwnParts
<1>1. PICK p : p = [pos EXCEPT !.market = session]  OBVIOUS
<1>2. PICK v : v = Look(books, p, R)  OBVIOUS
<1>3. p \in Positions /\ Doubtful(p) \in Positions
  <2>1. p \in Positions  BY <1>0, <1>1, PositionKinds
  <2> QED  BY <1>0, <2>1, PositionKinds
<1>4. Still /\ R \in IF mem.h.gen = 0 THEN {{}} ELSE Reads(Root)  BY DEF Protect, Still, broker
<1>5. CASE /\ pos' \in Positions /\ Goto("decide") /\ UNCHANGED <<books, saved, mem>>
  <2>1. pc' = "decide" /\ ctx' \in Contexts  BY <1>0, <1>5, GotoTypes
  <2>2. PICK b : b = books  OBVIOUS
  <2>3. Types' /\ Core'  BY <1>0, <1>4, <1>5, <2>1, <2>2, SilentTypes
  <2> QED  BY <2>1, <2>3, QuietPlace DEF OwnInv, Core
<1>6. CASE mem.reason = "none"
  <2>0. ~mem.sent  BY <1>0, <1>6 DEF JournalInv
  <2>1. CASE /\ pos' = p /\ pc' = "release" /\ ctx' = [ctx EXCEPT !.then = "flat"]
             /\ UNCHANGED <<books, saved, mem>>
    <3>1. ctx' \in Contexts /\ ctx'.then = "flat"  BY <1>0, <2>1 DEF Contexts
    <3>2. PICK b : b = books  OBVIOUS
    <3>3. Types' /\ Core'  BY <1>0, <1>3, <1>4, <2>1, <3>1, <3>2, SilentTypes
    <3>4. PlaceInv'  BY <2>0, <2>1, <3>1, AtRelease
    <3> QED  BY <3>3, <3>4 DEF OwnInv, Core
  <2>2. CASE /\ mem.h.gen = 0 /\ Remaining(p) # 0
             /\ pos' = p /\ Goto("grow") /\ UNCHANGED <<books, saved, mem>>
    <3>1. pc' = "grow" /\ ctx' \in Contexts  BY <1>0, <2>2, GotoTypes
    <3>2. PICK b : b = books  OBVIOUS
    <3>3. Clean(b)  BY <1>0, <2>0, <2>2, <3>2, CleanUnarmed
    <3>4. Types' /\ Core'  BY <1>0, <1>3, <1>4, <2>2, <3>1, <3>2, SilentTypes
    <3>5. Clean(books)'  BY <1>4, <2>2, <3>2, <3>3, CleanNext DEF Still
    <3>6. mem.h = saved.h  BY <1>0, <2>2, TipTypes DEF JournalInv, Fresh
    <3>7. Remaining(pos') > 0  BY <1>3, <2>2, PositionTypes
    <3>8. PlaceInv'  BY <2>0, <2>2, <3>1, <3>5, <3>6, <3>7, AtGrow
    <3> QED  BY <3>4, <3>8 DEF OwnInv, Core
  <2>3. CASE /\ mem.h.gen # 0
             /\ books' = v.b
             /\ IF ~v.ok THEN Raise(v.p) /\ UNCHANGED <<saved, mem>>
                ELSE /\ Keep(v.h) /\ pos' = v.p
                     /\ IF v.res = "unknown" \/ Remaining(v.p) = 0 \/ SameOrder(v.h, v.p)
                        THEN Goto("decide")
                        ELSE IF v.res = "terminal" THEN Goto("grow")
                        ELSE pc' = "release" /\ ctx' = [ctx EXCEPT !.then = "resize"]
    <3>1. R \subseteq books.row[Root].legs  BY <1>4, <2>3, ReadsLegs
    <3>2. PICK b, h : b = v.b /\ h = v.h  OBVIOUS
    <3>3. Looked(v)
      <4>1. PICK a : a = books  OBVIOUS
      <4> QED  BY <1>0, <1>2, <1>3, <2>3, <3>1, <4>1, LookKeeps
    <3>4. Observed(b) /\ SameHandle(mem.h, h) /\ books' = b /\ v.p \in Positions
      BY <2>3, <3>2, <3>3 DEF Looked
    <3>5. CASE ~v.ok
      <4>1. Raise(v.p) /\ UNCHANGED <<saved, mem>>  BY <2>3, <3>5
      <4>2. PlaceInv' /\ pos' \in Positions /\ ctx' \in Contexts  BY <1>0, <3>4, <4>1, RaiseQuiet
      <4>3. Types' /\ Core'  BY <1>0, <1>4, <3>4, <4>1, <4>2, SilentTypes
      <4> QED  BY <4>2, <4>3 DEF OwnInv, Core
    <3>6. CASE v.ok
      <4>0. Keep(h) /\ pos' = v.p /\ pos' \in Positions  BY <2>3, <3>2, <3>4, <3>6
      <4>1. CASE Goto("decide")
        <5>1. pc' = "decide" /\ ctx' \in Contexts  BY <1>0, <4>1, GotoTypes
        <5>2. Types' /\ Core'  BY <1>0, <1>4, <3>4, <4>0, <5>1, KeepTypes
        <5> QED  BY <5>1, <5>2, QuietPlace DEF OwnInv, Core
      <4>2. CASE Goto("grow") /\ v.res = "terminal" /\ Remaining(v.p) # 0
        <5>1. pc' = "grow" /\ ctx' \in Contexts  BY <1>0, <4>2, GotoTypes
        <5>2. /\ Types' /\ Core' /\ mem'.h = saved'.h /\ mem'.sent = mem.sent
          BY <1>0, <1>4, <3>4, <4>0, <5>1, KeepTypes
        <5>3. Over(b, Root)  BY <3>2, <3>3, <3>6, <4>2 DEF Looked
        <5>4. Clean(b)  BY <1>0, <2>0, <3>4, <5>3, CleanNative
        <5>5. Clean(books)'  BY <1>4, <3>4, <5>4, CleanNext DEF Still
        <5>6. Remaining(pos') > 0  BY <3>4, <4>0, <4>2, PositionTypes
        <5>7. PlaceInv'  BY <2>0, <5>1, <5>2, <5>5, <5>6, AtGrow
        <5> QED  BY <5>2, <5>7 DEF OwnInv, Core
      <4>3. CASE pc' = "release" /\ ctx' = [ctx EXCEPT !.then = "resize"]
        <5>1. ctx' \in Contexts /\ ctx'.then = "resize"  BY <1>0, <4>3 DEF Contexts
        <5>2. Types' /\ Core' /\ mem'.sent = mem.sent  BY <1>0, <1>4, <3>4, <4>0, <5>1, KeepTypes
        <5>3. PlaceInv'  BY <2>0, <4>3, <5>1, <5>2, AtRelease
        <5> QED  BY <5>2, <5>3 DEF OwnInv, Core
      <4> QED  BY <2>3, <3>6, <4>1, <4>2, <4>3
    <3> QED  BY <3>3, <3>5, <3>6 DEF Looked
  <2>4. CASE UNCHANGED <<books, saved, mem>> /\ Goto("decide") /\ pos' \in Positions  BY <1>5, <2>4
  <2> QED
    <3>1. UNCHANGED <<broker, crashes>>  BY DEF Protect
    <3> QED  BY <1>1, <1>2, <1>3, <1>6, <2>1, <2>2, <2>3, <2>4 DEF Protect
<1>7. CASE mem.reason # "none"
  <2>1. pos' \in Positions /\ Goto("decide") /\ UNCHANGED <<books, saved, mem>>
    BY <1>1, <1>3, <1>7 DEF Protect
  <2> QED  BY <1>5, <2>1
<1> QED  BY <1>6, <1>7

------------------------------------------------------------------------------
(* Releasing the protective order.                                          *)

\* The order is proved ended: the pass goes on with nothing on the wire.
LEMMA ReleasedStep ==
  ASSUME OwnInv, Still, NEW b, Observed(b), books' = b, Clean(b),
         NEW h, SameHandle(mem.h, h), Keep(h), ~mem.sent,
         ctx.then = "exit" => mem.reason # "none",
         NEW p \in Positions, Proceed(p, ReleasedTo(p))
  PROVE  OwnInv'
<1>0. Types /\ Core /\ DayTypes /\ ctx \in Contexts /\ ctx.then \in {"exit", "resize", "flat"}
  BY OwnParts DEF Contexts
<1>1. PICK place : place = ReleasedTo(p)  OBVIOUS
<1>2. /\ place \in {"idle", "claim", "decide", "grow"}
      /\ place = "claim" => ctx.then = "exit"
      /\ place = "grow" => Remaining(p) # 0
  BY <1>0, <1>1 DEF ReleasedTo
<1>3. Clean(books)'  BY CleanNext DEF Still
<1>4. CASE place = "idle"
  <2>1. Raise(p)  BY <1>1, <1>4 DEF Proceed
  <2>2. PlaceInv' /\ pos' \in Positions /\ ctx' \in Contexts  BY <1>0, <2>1, RaiseQuiet
  <2>3. Types' /\ Core'  BY <1>0, <2>2, KeepTypes
  <2> QED  BY <2>2, <2>3 DEF OwnInv, Core
<1>5. CASE place # "idle"
  <2>1. pos' = p /\ Goto(place)  BY <1>1, <1>5 DEF Proceed
  <2>2. pc' = place /\ ctx' \in Contexts  BY <1>0, <2>1, GotoTypes
  <2>3. /\ Types' /\ Core' /\ mem'.h = saved'.h /\ mem'.sent = mem.sent /\ mem'.reason = mem.reason
    BY <1>0, <2>1, <2>2, KeepTypes
  <2>4. PlaceInv'
    <3>1. CASE place = "claim"  BY <1>2, <1>3, <2>2, <2>3, <3>1, AtClaim
    <3>2. CASE place = "decide"  BY <2>2, <3>2, QuietPlace
    <3>3. CASE place = "grow"
      <4>1. Remaining(pos') > 0  BY <1>2, <2>1, <3>3, PositionTypes
      <4> QED  BY <1>3, <2>2, <2>3, <3>3, <4>1, AtGrow
    <3> QED  BY <1>2, <1>5, <3>1, <3>2, <3>3
  <2> QED  BY <2>3, <2>4 DEF OwnInv, Core
<1> QED  BY <1>4, <1>5

\* A read that failed: the pass goes on without a release, or returns.
LEMMA RefusedStep ==
  ASSUME OwnInv, Still, NEW b, Observed(b), books' = b,
         NEW h, SameHandle(mem.h, h), Keep(h), NEW p \in Positions, Proceed(p, RefusedTo)
  PROVE  OwnInv'
<1>0. Types /\ Core /\ DayTypes /\ ctx \in Contexts  BY OwnParts
<1>1. CASE Raise(p)
  <2>1. PlaceInv' /\ pos' \in Positions /\ ctx' \in Contexts  BY <1>0, <1>1, RaiseQuiet
  <2>2. Types' /\ Core'  BY <1>0, <2>1, KeepTypes
  <2> QED  BY <2>1, <2>2 DEF OwnInv, Core
<1>2. CASE pos' = p /\ Goto("decide")
  <2>1. pc' = "decide" /\ ctx' \in Contexts  BY <1>0, <1>2, GotoTypes
  <2>2. Types' /\ Core'  BY <1>0, <1>2, <2>1, KeepTypes
  <2> QED  BY <2>1, <2>2, QuietPlace DEF OwnInv, Core
<1> QED  BY <1>1, <1>2 DEF Proceed, RefusedTo

\* A pass that ends after it wrote the books.
LEMMA RaiseStep ==
  ASSUME OwnInv, Still, NEW b, Observed(b), books' = b, NEW p \in Positions, Raise(p),
         UNCHANGED <<saved, mem>>
  PROVE  OwnInv'
<1>0. Types /\ Core /\ DayTypes  BY OwnParts
<1>1. PlaceInv' /\ pos' \in Positions /\ ctx' \in Contexts  BY <1>0, RaiseQuiet
<1>2. Types' /\ Core'  BY <1>0, <1>1, SilentTypes
<1> QED  BY <1>1, <1>2 DEF OwnInv, Core

\* Without a protective order the journal in memory is the durable one.
LEMMA SameJournal ==
  ASSUME Types, JournalInv, mem.h = saved.h  PROVE mem = saved
BY DEF Types, JournalInv, Journals

\* release_for_exit: only a read that says terminal lets the pass go on.
LEMMA ReleaseKeeps ==
  ASSUME OwnInv, NEW R \in SUBSET Leg, Release(R), UNCHANGED day
  PROVE  OwnInv'
<1>0. /\ Types /\ Core /\ LedgerInv /\ JournalInv /\ BrokerTypes /\ DayTypes /\ ctx \in Contexts
      /\ mem.h \in Handles /\ pos \in Positions /\ Observed(books) /\ mem \in Journals
      /\ mem.h.gen # 0 => mem.h.gen > 0 /\ Root \in Orders
  BY OwnParts
<1>1. Still /\ R \in IF mem.h.gen = 0 THEN {{}} ELSE Reads(Root)  BY DEF Release, Still, broker
<1>2. ~mem.sent /\ (ctx.then = "exit" => mem.reason # "none")  BY DEF Release, OwnInv, PlaceInv
<1>3. CASE mem.h.gen = 0
  <2>1. /\ IF pos.reserved > 0 \/ pos.unknown THEN Raise(pos) ELSE Proceed(pos, ReleasedTo(pos))
        /\ UNCHANGED <<books, saved, mem>>
    BY <1>3 DEF Release
  <2>2. PICK b, p, h : b = books /\ p = pos /\ h = mem.h  OBVIOUS
  <2>3. Observed(b) /\ books' = b /\ p \in Positions /\ SameHandle(mem.h, h)
    BY <1>0, <2>1, <2>2 DEF SameHandle
  <2>4. CASE Raise(p)  BY <1>1, <2>1, <2>3, <2>4, RaiseStep
  <2>5. CASE Proceed(p, ReleasedTo(p))
    <3>1. mem.h = saved.h  BY <1>0, <1>3, TipTypes DEF JournalInv, Fresh
    <3>2. mem = saved  BY <1>0, <3>1, SameJournal
    <3>3. Keep(h)  BY <1>0, <2>1, <2>2, <3>2 DEF Keep, Journals
    <3>4. Clean(b)  BY <1>0, <1>2, <1>3, <2>3, CleanUnarmed
    <3> QED  BY <1>1, <1>2, <2>3, <2>5, <3>3, <3>4, ReleasedStep
  <2> QED  BY <2>1, <2>2, <2>4, <2>5
<1>4. CASE mem.h.gen # 0
  <2>1. PICK v : v = Look(books, pos, R)  OBVIOUS
  <2>2. R \subseteq books.row[Root].legs  BY <1>1, <1>4, ReadsLegs
  <2>3. Looked(v)
    <3>1. PICK a, p : a = books /\ p = pos  OBVIOUS
    <3> QED  BY <1>0, <1>4, <2>1, <2>2, <3>1, LookKeeps
  <2>4. /\ books' = v.b
        /\ IF ~v.ok THEN Raise(v.p) /\ UNCHANGED <<saved, mem>>
           ELSE IF v.res = "terminal"
           THEN Keep(v.h) /\ Proceed(Released(v.p), ReleasedTo(Released(v.p)))
           ELSE IF v.res = "unknown" /\ mem.reason # Mandatory
           THEN Keep(v.h) /\ Proceed(Doubtful(v.p), RefusedTo)
           ELSE IF v.h.status = "cancel_requested"
           THEN Keep(v.h) /\ pos' = v.p /\ Goto("reread")
           ELSE /\ Keep([v.h EXCEPT !.status = "cancel_requested"]) /\ pos' = v.p
                /\ pc' = "cancel"
                /\ ctx' = [ctx EXCEPT !.todo = books.row[Root].legs, !.deferred = FALSE]
    BY <1>4, <2>1 DEF Release
  <2>5. PICK b, h : b = v.b /\ h = v.h  OBVIOUS
  <2>6. Observed(b) /\ SameHandle(mem.h, h) /\ books' = b /\ v.p \in Positions
    BY <2>3, <2>4, <2>5 DEF Looked
  <2>7. CASE ~v.ok  BY <1>1, <2>4, <2>6, <2>7, RaiseStep
  <2>8. CASE v.ok /\ v.res = "terminal"
    <3>1. PICK p : p = Released(v.p)  OBVIOUS
    <3>2. p \in Positions  BY <1>0, <2>6, <3>1, PositionKinds
    <3>3. Keep(h) /\ Proceed(p, ReleasedTo(p))  BY <2>4, <2>5, <2>8, <3>1
    <3>4. Over(b, Root)  BY <2>3, <2>5, <2>8 DEF Looked
    <3>5. Clean(b)  BY <1>0, <1>2, <2>6, <3>4, CleanNative
    <3> QED  BY <1>1, <1>2, <2>6, <3>2, <3>3, <3>5, ReleasedStep
  <2>9. CASE v.ok /\ v.res # "terminal" /\ Keep(v.h) /\ Proceed(Doubtful(v.p), RefusedTo)
    <3>1. PICK p : p = Doubtful(v.p)  OBVIOUS
    <3>2. p \in Positions  BY <1>0, <2>6, <3>1, PositionKinds
    <3> QED  BY <1>1, <2>5, <2>6, <2>9, <3>1, <3>2, RefusedStep
  <2>10. CASE Keep(v.h) /\ pos' = v.p /\ Goto("reread")
    <3>1. pc' = "reread" /\ ctx' \in Contexts /\ ctx'.then = ctx.then  BY <1>0, <2>10, GotoTypes
    <3>2. /\ Types' /\ Core' /\ mem'.h = h /\ mem'.sent = mem.sent /\ mem'.reason = mem.reason
      BY <1>0, <1>1, <2>5, <2>6, <2>10, <3>1, KeepTypes
    <3>3. mem'.h.gen > 0  BY <1>0, <1>4, <2>6, <3>2 DEF SameHandle
    <3>4. PlaceInv'  BY <1>2, <3>1, <3>2, <3>3, AtCancel
    <3> QED  BY <3>2, <3>4 DEF OwnInv, Core
  <2>11. CASE /\ Keep([v.h EXCEPT !.status = "cancel_requested"]) /\ pos' = v.p
              /\ pc' = "cancel"
              /\ ctx' = [ctx EXCEPT !.todo = books.row[Root].legs, !.deferred = FALSE]
    <3>1. PICK g : g = [h EXCEPT !.status = "cancel_requested"]  OBVIOUS
    <3>2. SameHandle(mem.h, g)  BY <2>6, <3>1 DEF SameHandle, Handles
    <3>3. books.row[Root].legs \in SUBSET Leg
      <4>1. books \in Books  BY OwnParts
      <4> QED  BY <1>0, <1>4, <4>1, RowTypes
    <3>4. ctx' \in Contexts /\ ctx'.then = ctx.then  BY <1>0, <2>11, <3>3 DEF Contexts
    <3>5. /\ Types' /\ Core' /\ mem'.h = g /\ mem'.sent = mem.sent /\ mem'.reason = mem.reason
      BY <1>0, <1>1, <2>5, <2>6, <2>11, <3>1, <3>2, <3>4, KeepTypes
    <3>6. mem'.h.gen > 0  BY <1>0, <1>4, <3>2, <3>5 DEF SameHandle
    <3>7. PlaceInv'  BY <1>2, <2>11, <3>4, <3>5, <3>6, AtCancel
    <3> QED  BY <3>5, <3>7 DEF OwnInv, Core
  <2>12. v.ok \in BOOLEAN  BY <2>3 DEF Looked
  <2> QED  BY <2>4, <2>7, <2>8, <2>9, <2>10, <2>11, <2>12
<1> QED  BY <1>3, <1>4

\* The read after the cancels.
LEMMA RereadKeeps ==
  ASSUME OwnInv, NEW R \in SUBSET Leg, Reread(R), UNCHANGED day
  PROVE  OwnInv'
<1>0. /\ Types /\ Core /\ LedgerInv /\ JournalInv /\ BrokerTypes /\ DayTypes
      /\ pos \in Positions /\ Observed(books)
      /\ mem.h.gen # 0 => mem.h.gen > 0 /\ Root \in Orders
  BY OwnParts
<1>1. Still /\ R \in Reads(Root)  BY DEF Reread, Still, broker
<1>2. ~mem.sent /\ (ctx.then = "exit" => mem.reason # "none") /\ mem.h.gen > 0
  BY DEF Reread, OwnInv, PlaceInv
<1>3. PICK v : v = Look(books, pos, R)  OBVIOUS
<1>4. Looked(v)
  <2>1. PICK a, p : a = books /\ p = pos  OBVIOUS
  <2>2. Root \in Orders  BY <1>0, <1>2
  <2>3. R \subseteq books.row[Root].legs  BY <1>1, ReadsLegs
  <2> QED  BY <1>0, <1>3, <2>1, <2>2, <2>3, LookKeeps
<1>5. /\ books' = v.b
      /\ IF ~v.ok THEN Raise(v.p) /\ UNCHANGED <<saved, mem>>
         ELSE /\ Keep(v.h)
              /\ IF v.res = "terminal"
                 THEN Proceed(Released(v.p), ReleasedTo(Released(v.p)))
                 ELSE Proceed(Doubtful(v.p), RefusedTo)
  BY <1>3 DEF Reread
<1>6. PICK b, h : b = v.b /\ h = v.h  OBVIOUS
<1>7. Observed(b) /\ SameHandle(mem.h, h) /\ books' = b /\ v.p \in Positions /\ v.ok \in BOOLEAN
  BY <1>4, <1>5, <1>6 DEF Looked
<1>8. CASE ~v.ok  BY <1>1, <1>5, <1>7, <1>8, RaiseStep
<1>9. CASE v.ok /\ v.res = "terminal"
  <2>1. PICK p : p = Released(v.p)  OBVIOUS
  <2>2. p \in Positions  BY <1>0, <1>7, <2>1, PositionKinds
  <2>3. Keep(h) /\ Proceed(p, ReleasedTo(p))  BY <1>5, <1>6, <1>9, <2>1
  <2>4. Over(b, Root)  BY <1>4, <1>6, <1>9 DEF Looked
  <2>5. Clean(b)  BY <1>0, <1>2, <1>7, <2>4, CleanNative
  <2> QED  BY <1>1, <1>2, <1>7, <2>2, <2>3, <2>5, ReleasedStep
<1>10. CASE v.ok /\ v.res # "terminal"
  <2>1. PICK p : p = Doubtful(v.p)  OBVIOUS
  <2>2. p \in Positions  BY <1>0, <1>7, <2>1, PositionKinds
  <2>3. Keep(h) /\ Proceed(p, RefusedTo)  BY <1>5, <1>6, <1>10, <2>1
  <2> QED  BY <1>1, <1>7, <2>2, <2>3, RefusedStep
<1> QED  BY <1>7, <1>8, <1>9, <1>10

\* The read made for a cancel.
LEMMA FreshReadKeeps ==
  ASSUME BrokerTypes, LedgerInv, Root \in Orders, NEW l, l \in books.row[Root].legs,
         NEW t, t = FreshRead(l)
  PROVE  t.ok \in BOOLEAN /\ Observed(t.b)
<1>1. PICK o : o = Root  OBVIOUS
<1>2. PICK L : L = IF Provider = "schwab" THEN books.row[o].legs ELSE {l}  OBVIOUS
<1>3. PICK u : u = [ok |-> TRUE, b |-> books]  OBVIOUS
<1>4. t = RecordLegs(u, o, L)  BY <1>1, <1>2, <1>3 DEF FreshRead
<1>5. books.row[o].legs \in {{}, {"target"}, Leg} /\ o \in Orders
  BY <1>1 DEF LedgerInv, BooksInv, RowInv
<1>6. L \in SUBSET Leg /\ \A k \in L : k = "target" \/ IsPair(o)
  BY <1>1, <1>2, <1>5 DEF IsPair, Leg
<1>7. u.ok \in BOOLEAN /\ u = [ok |-> u.ok, b |-> u.b] /\ Observed(u.b)  BY <1>3, ObservedNow
<1> QED  BY <1>4, <1>5, <1>6, <1>7, RecordLegsKeep

\* A leg is read and its wire latch saved before its cancel may go out.
LEMMA CancelLegKeeps ==
  ASSUME OwnInv, NEW l \in Leg, NEW how, CancelLeg(l, how), UNCHANGED day
  PROVE  OwnInv'
<1>0. /\ Types /\ Core /\ LedgerInv /\ JournalInv /\ AskedInv /\ BrokerTypes
      /\ mem.h \in Handles /\ mem.h.gen \in 0..MaxGen
      /\ pos \in Positions /\ ctx \in Contexts /\ Observed(books)
      /\ mem.h.gen # 0 => mem.h.gen > 0 /\ Root \in Orders
  BY OwnParts
<1>1. Still /\ pc = "cancel" /\ UNCHANGED pos /\ (how = "report" => l \in UNION Reads(Root))
  BY DEF CancelLeg, Still, broker
<1>2. ~mem.sent /\ (ctx.then = "exit" => mem.reason # "none") /\ mem.h.gen > 0
  BY <1>1 DEF OwnInv, PlaceInv
<1>3. Root \in Orders  BY <1>0, <1>2
<1>4. PICK skip : skip = (l \in mem.h.wires \cup Finished(Root))  OBVIOUS
<1>5. PICK t : t = IF how = "report" /\ ~skip THEN FreshRead(l) ELSE [ok |-> TRUE, b |-> books]  OBVIOUS
<1>6. PICK tree : tree = (Provider = "schwab" /\ IsPair(Root))  OBVIOUS
<1>7. PICK left : left = [ctx EXCEPT !.todo = @ \ {l}, !.leg = l]  OBVIOUS
<1>8. PICK fault : fault = (~t.ok \/ (tree /\ ~mem.h.known))  OBVIOUS
<1>9. /\ books' = t.b
      /\ \/ ctx' = left /\ UNCHANGED <<pc, mem, saved>>
         \/ l \notin mem.h.wires /\ ctx' = left /\ pc' = "wire"
            /\ Keep([mem.h EXCEPT !.wires = @ \cup {l}])
         \/ /\ ctx' = [left EXCEPT !.deferred = TRUE, !.todo = IF fault \/ tree THEN {} ELSE @]
            /\ UNCHANGED <<pc, mem, saved>>
  BY <1>4, <1>5, <1>6, <1>7, <1>8 DEF CancelLeg
<1>10. Observed(t.b)
  <2>1. CASE how = "report" /\ ~skip
    <3>1. t = FreshRead(l)  BY <1>5, <2>1
    <3>2. l \in books.row[Root].legs  BY <1>1, <2>1, ReadsLegs
    <3> QED  BY <1>0, <1>3, <3>1, <3>2, FreshReadKeeps
  <2>2. CASE ~(how = "report" /\ ~skip)  BY <1>0, <1>5, <2>2
  <2> QED  BY <2>1, <2>2
<1>11. PICK b : b = t.b  OBVIOUS
<1>12. Observed(b) /\ books' = b /\ pos' \in Positions  BY <1>0, <1>1, <1>9, <1>10, <1>11
<1>13. left \in Contexts /\ left.then = ctx.then /\ left.leg = l  BY <1>0, <1>7 DEF Contexts
<1>14. ASSUME UNCHANGED <<pc, mem, saved>>, ctx' \in Contexts, ctx'.then = ctx.then
       PROVE  OwnInv'
  <2>1. Types' /\ Core'  BY <1>0, <1>1, <1>12, <1>14, SilentTypes
  <2>2. PlaceInv'  BY <1>1, <1>2, <1>14, AtCancel
  <2> QED  BY <2>1, <2>2 DEF OwnInv, Core
<1>15. CASE ctx' = left /\ UNCHANGED <<pc, mem, saved>>  BY <1>13, <1>14, <1>15
<1>16. CASE /\ l \notin mem.h.wires /\ ctx' = left /\ pc' = "wire"
            /\ Keep([mem.h EXCEPT !.wires = @ \cup {l}])
  <2>1. PICK h : h = [mem.h EXCEPT !.wires = @ \cup {l}]  OBVIOUS
  <2>2. SameHandle(mem.h, h) /\ l \in h.wires  BY <1>0, <2>1 DEF SameHandle, Handles
  <2>3. /\ Types' /\ Core' /\ mem'.h = h /\ saved'.h = h /\ mem'.sent = mem.sent
        /\ mem'.reason = mem.reason
    BY <1>0, <1>1, <1>12, <1>13, <1>16, <2>1, <2>2, KeepTypes
  <2>4. mem'.h.gen = mem.h.gen  BY <2>2, <2>3 DEF SameHandle
  <2>5. <<Root, l>> \notin asked
    <3>1. mem.h.gen \in 1..MaxGen /\ saved.h.gen \in 0..MaxGen  BY <1>0, <1>2, TipTypes
    <3>2. PICK g : g = mem.h.gen  OBVIOUS
    <3>3. <<Root, l>> \in asked => g <= saved.h.gen /\ (g = saved.h.gen => l \in saved.h.wires)
      BY <1>0, <3>1, <3>2 DEF AskedInv, Root
    <3>4. CASE mem.h = saved.h  BY <1>16, <3>2, <3>3, <3>4
    <3>5. CASE Fresh  BY <3>1, <3>2, <3>3, <3>5 DEF Fresh
    <3> QED  BY <1>0, <3>4, <3>5 DEF JournalInv
  <2>6. Root' = Root /\ asked' = asked /\ ctx'.leg = l  BY <1>1, <1>13, <1>16, <2>4 DEF Root, Still
  <2>7. PlaceInv'
    <3>1. ~mem'.sent /\ mem'.h.gen > 0 /\ mem'.h = saved'.h /\ ctx'.leg \in mem'.h.wires
      BY <1>2, <2>2, <2>3, <2>4, <2>6
    <3>2. (<<Root, ctx.leg>> \notin asked)'  BY <2>5, <2>6
    <3>3. ctx'.then = "exit" => mem'.reason # "none"  BY <1>2, <1>13, <1>16, <2>3
    <3> QED  BY <1>16, <3>1, <3>2, <3>3 DEF PlaceInv
  <2> QED  BY <2>3, <2>7 DEF OwnInv, Core
<1>17. CASE /\ ctx' = [left EXCEPT !.deferred = TRUE, !.todo = IF fault \/ tree THEN {} ELSE @]
            /\ UNCHANGED <<pc, mem, saved>>
  <2>1. ctx' \in Contexts /\ ctx'.then = ctx.then  BY <1>13, <1>17 DEF Contexts
  <2> QED  BY <1>14, <1>17, <2>1
<1> QED  BY <1>9, <1>15, <1>16, <1>17

\* The cancel of a leg goes out.
LEMMA CancelWireKeeps ==
  ASSUME OwnInv, NEW seen \in BOOLEAN, CancelWire(seen), UNCHANGED day
  PROVE  OwnInv'
<1>0. /\ Types /\ Core /\ LedgerInv /\ JournalInv /\ AskedInv /\ BrokerTypes
      /\ mem.h.gen \in 0..MaxGen /\ pos \in Positions /\ ctx \in Contexts /\ Observed(books)
      /\ mem \in Journals /\ saved \in Journals
      /\ mem.h.gen # 0 => mem.h.gen > 0 /\ Root \in Orders
  BY OwnParts
<1>1. /\ pc = "wire" /\ pc' = "cancel" /\ (seen => ctx.leg \in UNION Reads(Root))
      /\ asked' = asked \cup {<<Root, ctx.leg>>}
      /\ UNCHANGED <<day, bought, sold, ord, session, saved, mem, pos>>
  BY DEF CancelWire
<1>2. /\ ~mem.sent /\ (ctx.then = "exit" => mem.reason # "none") /\ mem.h.gen > 0
      /\ ctx.leg \in mem.h.wires /\ mem.h = saved.h
  BY <1>1 DEF OwnInv, PlaceInv
<1>3. PICK t : t = IF seen THEN FreshRead(ctx.leg) ELSE [ok |-> TRUE, b |-> books]  OBVIOUS
<1>4. /\ books' = t.b
      /\ \/ ctx' = [ctx EXCEPT !.deferred = TRUE, !.todo = {}]
         \/ ctx' = ctx
  BY <1>3 DEF CancelWire
<1>5. Observed(t.b)
  <2>1. CASE seen
    <3>1. PICK l : l = ctx.leg  OBVIOUS
    <3>2. t = FreshRead(l)  BY <1>3, <2>1, <3>1
    <3>3. l \in books.row[Root].legs  BY <1>1, <2>1, <3>1, ReadsLegs
    <3> QED  BY <1>0, <1>2, <3>2, <3>3, FreshReadKeeps
  <2>2. CASE ~seen  BY <1>0, <1>3, <2>2
  <2> QED  BY <2>1, <2>2
<1>6. PICK b : b = t.b  OBVIOUS
<1>7. Observed(b) /\ books' = b  BY <1>4, <1>5, <1>6
<1>8. ctx' \in Contexts /\ ctx'.then = ctx.then  BY <1>0, <1>4 DEF Contexts
<1>9. AskedInv'
  <2> SUFFICES ASSUME NEW g \in 1..MaxGen, NEW l \in Leg, <<<<"native", g>>, l>> \in asked'
               PROVE  g <= saved.h.gen /\ (g = saved.h.gen => l \in saved.h.wires)
    BY <1>1 DEF AskedInv
  <2>1. CASE <<<<"native", g>>, l>> \in asked  BY <1>0, <2>1 DEF AskedInv
  <2>2. CASE <<<<"native", g>>, l>> = <<Root, ctx.leg>>
    <3>1. g = mem.h.gen /\ l = ctx.leg  BY <2>2 DEF Root
    <3> QED  BY <1>2, <3>1
  <2> QED  BY <1>1, <2>1, <2>2
<1>10. Core'  BY <1>0, <1>1, <1>7, <1>9, AskingStep
<1>11. Types'  BY <1>0, <1>1, <1>7, <1>8, StillTypes
<1>12. PlaceInv'  BY <1>1, <1>2, <1>8, AtCancel
<1> QED  BY <1>10, <1>11, <1>12 DEF OwnInv, Core

\* All legs are through; the request is un-latched when one was deferred.
LEMMA CancelEndKeeps ==
  ASSUME OwnInv, CancelEnd, UNCHANGED day
  PROVE  OwnInv'
<1>0. /\ Types /\ Core /\ DayTypes /\ mem.h \in Handles
      /\ pos \in Positions /\ ctx \in Contexts /\ Observed(books)
  BY OwnParts
<1>1. Still /\ pc = "cancel" /\ UNCHANGED books  BY DEF CancelEnd, Still, broker
<1>2. ~mem.sent /\ (ctx.then = "exit" => mem.reason # "none") /\ mem.h.gen > 0
  BY <1>1 DEF OwnInv, PlaceInv
<1>3. PICK b : b = books  OBVIOUS
<1>4. CASE Keep([mem.h EXCEPT !.status = "unknown"]) /\ Raise(pos)
  <2>1. PICK h, p : h = [mem.h EXCEPT !.status = "unknown"] /\ p = pos  OBVIOUS
  <2>2. SameHandle(mem.h, h)  BY <1>0, <2>1 DEF SameHandle, Handles
  <2>3. PlaceInv' /\ pos' \in Positions /\ ctx' \in Contexts  BY <1>0, <1>4, <2>1, RaiseQuiet
  <2>4. Types' /\ Core'  BY <1>0, <1>1, <1>3, <1>4, <2>1, <2>2, <2>3, KeepTypes
  <2> QED  BY <2>3, <2>4 DEF OwnInv, Core
<1>5. CASE Goto("reread") /\ UNCHANGED <<saved, mem, pos>>
  <2>1. pc' = "reread" /\ ctx' \in Contexts /\ ctx'.then = ctx.then  BY <1>0, <1>5, GotoTypes
  <2>2. Types' /\ Core'  BY <1>0, <1>1, <1>3, <1>5, <2>1, SilentTypes
  <2>3. PlaceInv'  BY <1>2, <1>5, <2>1, AtCancel
  <2> QED  BY <2>2, <2>3 DEF OwnInv, Core
<1> QED  BY <1>4, <1>5 DEF CancelEnd

------------------------------------------------------------------------------
(* Putting an order on the wire.                                            *)

\* With nothing open the books say exactly what was sold.
LEMMA CleanSold ==
  ASSUME BrokerTypes, LedgerInv, Clean(books)
  PROVE  sold = books.sold /\ books.bought <= bought
<1>1. books \in Books /\ books.bought <= bought /\ sold = books.sold + GapOf(books, Tip)
  BY DEF LedgerInv, BooksInv
<1>2. \A o \in Orders : Gap(books, o) = 0
  BY <1>1, RowTypes, OrderTypes DEF Clean, Over, Exact, Gap, Leg
<1>3. GapOf(books, Tip) = 0 /\ books.sold \in Nat  BY <1>1, <1>2 DEF GapOf, Books
<1> QED  BY <1>1, <1>3

\* The books b with a new row for o.
Prepared(b, o) ==
  /\ BooksInv(b, Tip) /\ Clean(b) /\ ord[o] = NoOrder
  /\ b.row[o].st = "pending" /\ b.row[o].ended = {} /\ b.row[o].legs # {}
  /\ b.row[o].qty > 0 /\ b.row[o].qty <= bought - sold

\* A new row: its order is not at the broker.
LEMMA NewRowBooks ==
  ASSUME BrokerTypes, LedgerInv, Clean(books), NEW o \in Orders, NEW q \in Nat,
         NEW L \in {{"target"}, Leg}, Prepares(o, q), q > 0,
         NEW b, b = [books EXCEPT !.row[o] = NewRow(q, L)]
  PROVE  Prepared(b, o)
<1>1. /\ books \in Books /\ books.bought <= bought /\ sold = books.sold + GapOf(books, Tip)
      /\ \A p \in Orders : RowInv(books, p) /\ (p # Tip => Over(books, p))
  BY DEF LedgerInv, BooksInv
<1>2. PICK r : r = NewRow(q, L)  OBVIOUS
<1>3. /\ r \in Row /\ r.st = "pending" /\ r.qty = q /\ r.legs = L /\ r.rec = Zero /\ r.ended = {}
  BY <1>2 DEF NewRow, NoRow, Row, Zero, Leg
<1>4. /\ b.bought = books.bought /\ b.sold = books.sold /\ b.row = [books.row EXCEPT ![o] = r]
      /\ books.row \in [Orders -> Row] /\ books.bought \in Nat /\ books.sold \in Nat
  BY <1>1, <1>2 DEF Books
<1>5. b \in Books
  <2>1. b.row \in [Orders -> Row]  BY <1>3, <1>4
  <2>2. b = [bought |-> b.bought, sold |-> b.sold, row |-> b.row]  BY <1>1 DEF Books
  <2> QED  BY <1>4, <2>1, <2>2 DEF Books
<1>6. b.row[o] = r /\ \A p \in Orders : p # o => b.row[p] = books.row[p]  BY <1>4
<1>7. ord[o] = NoOrder  BY <1>1 DEF Prepares, RowInv
<1>8. ord[o].st = "none" /\ ord[o].live = {} /\ \A l \in Leg : ord[o].filled[l] = 0
  BY <1>7 DEF NoOrder, Zero
<1>9. RowInv(b, o) /\ Over(b, o)
  <2>1. Over(b, o)  BY <1>3, <1>6, <1>8 DEF Over, Exact, Sellable, Zero
  <2>2. \A l \in Leg : b.row[o].rec[l] <= ord[o].filled[l]  BY <1>3, <1>6, <1>8 DEF Zero
  <2> QED  BY <1>3, <1>6, <1>8, <2>1, <2>2 DEF RowInv
<1>10. \A p \in Orders : RowInv(b, p) /\ Over(b, p)
  <2>1. ASSUME NEW p \in Orders, p # o  PROVE RowInv(b, p) /\ Over(b, p)
    <3>1. RowInv(books, p) /\ Over(books, p) /\ b.row[p] = books.row[p]
      BY <1>1, <1>6, <2>1 DEF Clean
    <3> QED  BY <3>1 DEF RowInv, Over, Exact
  <2> QED  BY <1>9, <2>1
<1>11. sold = books.sold /\ bought \in Nat /\ sold \in Nat  BY CleanSold DEF BrokerTypes
<1>12. GapOf(b, Tip) = 0
  <2>1. \A p \in Orders : Gap(b, p) = 0
    BY <1>5, <1>10, RowTypes, OrderTypes DEF Over, Exact, Gap, Leg
  <2> QED  BY <2>1 DEF GapOf
<1>13. BooksInv(b, Tip)  BY <1>1, <1>4, <1>5, <1>10, <1>11, <1>12 DEF BooksInv
<1>14. Clean(b)  BY <1>10 DEF Clean
<1>15. q <= bought - sold
  <2>1. q <= books.bought - books.sold  BY DEF Prepares, Owned
  <2> QED  BY <1>1, <1>4, <1>11, <2>1
<1>16. L # {}  BY DEF Leg
<1> QED  BY <1>3, <1>6, <1>7, <1>13, <1>14, <1>15, <1>16 DEF Prepared

\* The row of a new protective order is prepared.
LEMMA GrowKeeps ==
  ASSUME OwnInv, NEW fails \in BOOLEAN, Grow(fails), UNCHANGED day
  PROVE  OwnInv'
<1>0. /\ Types /\ Core /\ LedgerInv /\ JournalInv /\ AskedInv /\ BrokerTypes /\ DayTypes
      /\ mem.h.gen \in 0..MaxGen /\ pos \in Positions /\ ctx \in Contexts /\ Observed(books)
      /\ mem \in Journals /\ saved \in Journals /\ books \in Books
  BY OwnParts
<1>1. /\ Still /\ pc = "grow" /\ mem.h.gen < day.gens /\ mem' = [mem EXCEPT !.h = NewHandle]
      /\ UNCHANGED saved
  BY DEF Grow, Still, broker
<1>2. Clean(books) /\ mem.h = saved.h /\ ~mem.sent /\ Remaining(pos) > 0
  BY <1>1 DEF OwnInv, PlaceInv
<1>3. PICK h : h = NewHandle  OBVIOUS
<1>4. /\ h \in Handles /\ h.gen = mem.h.gen + 1 /\ h.wires = {} /\ h.qty = Remaining(pos)
      /\ h.session \in Session /\ h.gen \in 1..MaxGen
  <2>1. day.gens \in 1..MaxGen  BY <1>0 DEF DayTypes, Day
  <2>2. mem.h.gen + 1 \in 1..MaxGen  BY <1>0, <1>1, <2>1, OwnedExitConstants
  <2>3. Remaining(pos) \in Nat /\ session \in Session  BY <1>0, PositionTypes DEF DayTypes
  <2>4. NoHandle \in Handles  BY OwnedExitConstants DEF NoHandle, Handles
  <2>5. mem.h.gen + 1 \in 0..MaxGen  BY <2>2
  <2> QED  BY <1>3, <2>2, <2>3, <2>4, <2>5 DEF NewHandle, NoHandle, Handles
<1>5. /\ mem' \in Journals /\ mem'.h = h /\ mem'.sent = mem.sent /\ mem'.reason = mem.reason
      /\ mem'.attempt = mem.attempt
  BY <1>0, <1>1, <1>3, <1>4 DEF Journals
<1>6. Tip' = Tip  BY <1>1 DEF Tip
<1>7. AskedInv'  BY <1>0, <1>1 DEF AskedInv, Still
<1>8. ASSUME Clean(books)'  PROVE JournalInv'
  <2>1. Fresh'  BY <1>1, <1>2, <1>4, <1>5, <1>8 DEF Fresh
  <2> QED  BY <1>0, <1>1, <1>5, <2>1 DEF JournalInv
<1>9. CASE Raise(pos) /\ UNCHANGED books
  <2>1. PICK b, p : b = books /\ p = pos  OBVIOUS
  <2>2. PlaceInv' /\ pos' \in Positions /\ ctx' \in Contexts  BY <1>0, <1>9, <2>1, RaiseQuiet
  <2>3. Clean(books)'  BY <1>1, <1>2, <1>9, <2>1, CleanNext DEF Still
  <2>4. Types'  BY <1>0, <1>1, <1>5, <1>9, <2>1, <2>2, StillTypes DEF Still
  <2>5. LedgerInv'  BY <1>0, <1>1, <1>2, <1>9, <2>1, LedgerStep DEF Still
  <2> QED  BY <1>7, <1>8, <2>2, <2>3, <2>4, <2>5 DEF OwnInv
<1>10. CASE /\ Prepares(<<"native", h.gen>>, h.qty)
            /\ books' = [books EXCEPT !.row[<<"native", h.gen>>] = NewRow(h.qty, LegsOf(h))]
            /\ Goto("arm") /\ UNCHANGED pos
  <2>1. PICK o, b, q, L : o = <<"native", h.gen>> /\ b = books' /\ q = h.qty /\ L = LegsOf(h)  OBVIOUS
  <2>2. o \in Orders  BY <1>4, <2>1 DEF Orders, Native
  <2>3. L \in {{"target"}, Leg}  BY <2>1 DEF LegsOf
  <2>4. q \in Nat /\ q > 0  BY <1>0, <1>2, <1>4, <2>1, PositionTypes
  <2>5. Prepares(o, q) /\ b = [books EXCEPT !.row[o] = NewRow(q, L)] /\ books' = b  BY <1>10, <2>1
  <2>6. Prepared(b, o)  BY <1>0, <1>2, <2>2, <2>3, <2>4, <2>5, NewRowBooks
  <2>7. pc' = "arm" /\ ctx' \in Contexts  BY <1>0, <1>10, GotoTypes
  <2>8. LedgerInv'  BY <1>0, <1>1, <2>5, <2>6, BooksStep DEF Still, Prepared
  <2>9. Clean(books)'  BY <1>1, <2>5, <2>6, CleanNext DEF Still, Prepared
  <2>10. Types'
    <3>1. b \in Books  BY <2>6 DEF BooksInv, Prepared
    <3>2. pos' \in Positions /\ saved' \in Journals  BY <1>0, <1>1, <1>10
    <3> QED  BY <1>0, <1>1, <1>5, <2>5, <2>7, <3>1, <3>2, WrittenTypes DEF Still
  <2>11. Root' = o  BY <1>5, <2>1 DEF Root
  <2>12. Sized(Root)'  BY <1>1, <2>2, <2>5, <2>6, <2>11 DEF Sized, Still, Prepared
  <2>13. PlaceInv'  BY <1>2, <1>5, <2>7, <2>9, <2>12 DEF PlaceInv
  <2> QED  BY <1>7, <1>8, <2>8, <2>9, <2>10, <2>13 DEF OwnInv
<1> QED  BY <1>3, <1>9, <1>10 DEF Grow

\* The send latch is saved: the new order becomes the one that may be open.
LEMMA ArmKeeps ==
  ASSUME OwnInv, Arm, UNCHANGED day
  PROVE  OwnInv'
<1>0. /\ Types /\ Core /\ DayTypes /\ mem.h \in Handles
      /\ pos \in Positions /\ ctx \in Contexts /\ Observed(books)
  BY OwnParts
<1>1. /\ Still /\ pc = "arm" /\ Goto("send") /\ UNCHANGED books
      /\ Keep([mem.h EXCEPT !.status = "submitted_unknown"])
      /\ pos' = [Doubtful(pos) EXCEPT !.reserved = IF pos.market = "AM"
                                                   THEN LesserOf(mem.h.qty, Remaining(pos)) ELSE @]
  BY DEF Arm, Still, broker
<1>2. Clean(books) /\ ~mem.sent /\ Sized(Root)  BY <1>1 DEF OwnInv, PlaceInv
<1>3. PICK h, b : h = [mem.h EXCEPT !.status = "submitted_unknown"] /\ b = books  OBVIOUS
<1>4. SameHandle(mem.h, h) /\ h.status # "unsent" /\ h.gen = mem.h.gen
  BY <1>0, <1>3 DEF SameHandle, Handles
<1>5. pc' = "send" /\ ctx' \in Contexts  BY <1>0, <1>1, GotoTypes
<1>6. pos' \in Positions
  <2>1. PICK p : p = Doubtful(pos)  OBVIOUS
  <2>2. p \in Positions  BY <1>0, <2>1, PositionKinds
  <2>3. PICK n : n = IF pos.market = "AM" THEN LesserOf(mem.h.qty, Remaining(pos)) ELSE p.reserved  OBVIOUS
  <2>4. mem.h.qty \in Nat /\ Remaining(pos) \in Nat /\ p.reserved \in Nat
    BY <1>0, <2>2, PositionTypes DEF Handles
  <2>5. n \in Nat  BY <2>3, <2>4 DEF LesserOf
  <2>6. pos' = [p EXCEPT !.reserved = n]  BY <1>1, <2>1, <2>3
  <2> QED  BY <1>0, <2>2, <2>5, <2>6, PositionKinds
<1>7. Types' /\ Core' /\ mem'.h = h /\ saved'.h = h /\ mem'.sent = mem.sent
  BY <1>0, <1>1, <1>3, <1>4, <1>5, <1>6, KeepTypes
<1>8. Clean(books)'  BY <1>1, <1>2, <1>3, CleanNext DEF Still
<1>9. Root' = Root  BY <1>4, <1>7 DEF Root
<1>10. Sized(Root)'  BY <1>1, <1>2, <1>9 DEF Sized, Still
<1>11. PlaceInv'  BY <1>2, <1>4, <1>5, <1>7, <1>8, <1>10 DEF PlaceInv
<1> QED  BY <1>7, <1>11 DEF OwnInv, Core

\* An order goes on the wire: it is the one order that may be open, and it is covered.
LEMMA WireStep ==
  ASSUME BrokerTypes, LedgerInv, Clean(books), NEW o, o = Tip, Sized(o),
         saved.sent \/ saved.h.status # "unsent",
         ord' = [ord EXCEPT ![o] = Wired(o)], UNCHANGED <<bought, sold, books, saved>>
  PROVE  LedgerInv' /\ ord' \in [Orders -> Order]
<1>1. /\ books \in Books /\ books.bought <= bought /\ sold = books.sold + GapOf(books, Tip)
      /\ \A p \in Orders : RowInv(books, p) /\ (p # Tip => Over(books, p)) /\ OrderInv(p)
  BY DEF LedgerInv, BooksInv
<1>2. /\ o \in Orders /\ ord[o] = NoOrder
      /\ books.row[o].st = "pending" /\ books.row[o].ended = {}
      /\ books.row[o].qty > 0 /\ books.row[o].qty <= bought - sold
  BY DEF Sized
<1>3. books.row[o].qty \in Nat /\ books.row[o].legs \in SUBSET Leg /\ ord \in [Orders -> Order]
      /\ bought \in Nat /\ sold \in Nat
  BY <1>1, <1>2, RowTypes DEF BrokerTypes
<1>4. PICK w : w = Wired(o)  OBVIOUS
<1>5. /\ w \in Order /\ w.st = "flight" /\ w.qty = books.row[o].qty /\ w.filled = Zero
      /\ w.live = books.row[o].legs
  BY <1>3, <1>4 DEF Wired, NoOrder, Order, Zero, Leg
<1>6. /\ ord' \in [Orders -> Order] /\ ord'[o] = w /\ \A p \in Orders : p # o => ord'[p] = ord[p]
  BY <1>2, <1>3, <1>4, <1>5
<1>7. Tip' = Tip  BY DEF Tip
<1>8. w.filled["target"] = 0 /\ w.filled["stop"] = 0 /\ \A l \in Leg : w.filled[l] = ord[o].filled[l]
  BY <1>2, <1>5 DEF Zero, Leg, NoOrder
<1>9. (\A p \in Orders : OrderInv(p))'
  <2>1. ASSUME NEW p \in Orders, p # o  PROVE OrderInv(p)'
    BY <1>1, <1>6, <2>1 DEF OrderInv, Sellable
  <2>2. OrderInv(o)'  BY <1>2, <1>5, <1>6, <1>8 DEF OrderInv, Sellable
  <2> QED  BY <2>1, <2>2
<1>10. (\A p \in Orders : RowInv(books, p))'
  <2>1. ASSUME NEW p \in Orders, p # o  PROVE RowInv(books, p)'
    BY <1>1, <1>6, <2>1 DEF RowInv, Over, Exact, Sellable
  <2>2. RowInv(books, o)'
    <3>1. RowInv(books, o)  BY <1>1, <1>2
    <3>2. \A l \in Leg : books.row[o].rec[l] <= ord'[o].filled[l]
          /\ (l \notin books.row[o].legs => ord'[o].filled[l] = 0)
      BY <1>6, <1>8, <3>1 DEF RowInv
    <3> QED  BY <1>2, <1>5, <1>6, <3>1, <3>2 DEF RowInv
  <2> QED  BY <2>1, <2>2
<1>11. (\A p \in Orders : p # Tip => Over(books, p))'
  BY <1>1, <1>6, <1>7 DEF Over, Exact, Sellable
<1>12. GapOf(books, Tip)' = GapOf(books, Tip)
  BY <1>2, <1>6, <1>7, <1>8 DEF GapOf, Gap, Leg
<1>13. BooksInv(books, Tip)'  BY <1>1, <1>10, <1>11, <1>12 DEF BooksInv
<1>14. (sold + LeftOf(Tip) <= bought)'
  <2>1. LeftOf(Tip)' \in {0, books.row[o].qty}
    BY <1>2, <1>3, <1>5, <1>6, <1>7, <1>8 DEF LeftOf, LeftToSell
  <2>2. sold + books.row[o].qty <= bought /\ sold <= bought  BY <1>2, <1>3
  <2> QED  BY <1>3, <2>1, <2>2
<1> QED  BY <1>6, <1>9, <1>13, <1>14 DEF LedgerInv

\* The protective order goes on the wire.
LEMMA SendKeeps ==
  ASSUME OwnInv, Send, UNCHANGED day
  PROVE  OwnInv'
<1>0. /\ Types /\ LedgerInv /\ JournalInv /\ AskedInv /\ BrokerTypes /\ DayTypes
      /\ pos \in Positions /\ ctx \in Contexts
      /\ mem \in Journals /\ saved \in Journals /\ books \in Books
  BY OwnParts
<1>1. /\ pc = "send" /\ Goto("ack") /\ ord' = [ord EXCEPT ![Root] = Wired(Root)]
      /\ UNCHANGED <<bought, sold, asked, session, books, saved, mem, pos>>
  BY DEF Send, durable
<1>2. /\ Clean(books) /\ mem.h = saved.h /\ ~mem.sent /\ Sized(Root) /\ mem.h.status # "unsent"
  BY <1>1 DEF OwnInv, PlaceInv
<1>3. PICK o : o = Root  OBVIOUS
<1>4. o = Tip /\ saved.h.status # "unsent"  BY <1>0, <1>2, <1>3 DEF Tip, Root, JournalInv
<1>5. LedgerInv' /\ ord' \in [Orders -> Order]  BY <1>0, <1>1, <1>2, <1>3, <1>4, WireStep
<1>6. pc' = "ack" /\ ctx' \in Contexts  BY <1>0, <1>1, GotoTypes
<1>7. JournalInv' /\ AskedInv'  BY <1>0, <1>1, <1>2 DEF JournalInv, AskedInv
<1>8. Types'  BY <1>0, <1>1, <1>5, <1>6 DEF Types, DayTypes, BrokerTypes
<1>9. mem'.h.gen > 0
  <2>1. Root \in Orders  BY <1>2 DEF Sized
  <2>2. mem.h.gen # 0  BY <2>1 DEF Root, Orders, Native, Soft
  <2> QED  BY <1>1, <2>2, OwnParts
<1>10. PlaceInv'  BY <1>6, <1>9 DEF PlaceInv
<1> QED  BY <1>5, <1>7, <1>8, <1>10 DEF OwnInv

\* The software exit goes on the wire.
LEMMA GoKeeps ==
  ASSUME OwnInv, Go, UNCHANGED day
  PROVE  OwnInv'
<1>0. /\ Types /\ LedgerInv /\ JournalInv /\ AskedInv /\ BrokerTypes /\ DayTypes
      /\ pos \in Positions /\ ctx \in Contexts
      /\ mem \in Journals /\ saved \in Journals /\ books \in Books
  BY OwnParts
<1>1. /\ pc = "go" /\ Goto("done") /\ ord' = [ord EXCEPT ![Current] = Wired(Current)]
      /\ UNCHANGED <<bought, sold, asked, session, books, saved, mem, pos>>
  BY DEF Go, durable
<1>2. /\ Clean(books) /\ mem.h = saved.h /\ mem.sent /\ Sized(Current)
  BY <1>1 DEF OwnInv, PlaceInv
<1>3. PICK o : o = Current  OBVIOUS
<1>4. o = Tip /\ saved.sent  BY <1>0, <1>2, <1>3 DEF Tip, Current, JournalInv
<1>5. LedgerInv' /\ ord' \in [Orders -> Order]  BY <1>0, <1>1, <1>2, <1>3, <1>4, WireStep
<1>6. pc' = "done" /\ ctx' \in Contexts  BY <1>0, <1>1, GotoTypes
<1>7. JournalInv' /\ AskedInv'  BY <1>0, <1>1, <1>2 DEF JournalInv, AskedInv
<1>8. Types'  BY <1>0, <1>1, <1>5, <1>6 DEF Types, DayTypes, BrokerTypes
<1>9. mem'.attempt > 0  BY <1>0, <1>1, <1>2 DEF JournalInv
<1>10. PlaceInv'  BY <1>6, <1>9 DEF PlaceInv
<1> QED  BY <1>5, <1>7, <1>8, <1>10 DEF OwnInv

\* The receipt of an order is recorded.
LEMMA ObservedReceipt ==
  ASSUME NEW b, Observed(b), NEW o \in Orders, NEW c, c = [b EXCEPT !.row[o].receipt = TRUE]
  PROVE  Observed(c)
<1>1. /\ b \in Books /\ b.bought <= bought /\ sold = b.sold + GapOf(b, Tip)
      /\ \A p \in Orders : RowInv(b, p) /\ (p # Tip => Over(b, p))
  BY DEF Observed, BooksInv
<1> DEFINE r == [b.row[o] EXCEPT !.receipt = TRUE]
<1>2. b.row \in [Orders -> Row] /\ b.row[o] \in Row /\ b.sold \in Nat /\ b.bought \in Nat
  BY <1>1, RowTypes
<1>3. /\ r \in Row /\ r.st = b.row[o].st /\ r.legs = b.row[o].legs /\ r.rec = b.row[o].rec
      /\ r.ended = b.row[o].ended
  BY <1>2 DEF Row
<1>4. c = [b EXCEPT !.row[o] = r]  OBVIOUS
<1> HIDE DEF r
<1>5. c.sold = b.sold /\ c.bought = b.bought /\ c.row = [b.row EXCEPT ![o] = r]
  BY <1>1, <1>4 DEF Books
<1>6. c \in Books
  <2>0. r \in Row /\ b.row \in [Orders -> Row]  BY <1>2, <1>3
  <2>1. c.row \in [Orders -> Row]  BY <1>5, <2>0
  <2>2. c = [bought |-> c.bought, sold |-> c.sold, row |-> c.row]  BY <1>1, <1>4 DEF Books
  <2> QED  BY <1>2, <1>5, <2>1, <2>2 DEF Books
<1>7. \A p \in Orders : /\ c.row[p].legs = b.row[p].legs /\ c.row[p].rec = b.row[p].rec
                        /\ c.row[p].ended = b.row[p].ended /\ c.row[p].st = b.row[p].st
  BY <1>2, <1>3, <1>5
<1>8. \A p \in Orders : Over(b, p) <=> Over(c, p)  BY <1>7 DEF Over, Exact
<1>9. ASSUME NEW p \in Orders  PROVE RowInv(c, p)
  <2>1. RowInv(b, p) /\ (Over(b, p) <=> Over(c, p))  BY <1>1, <1>8
  <2> QED  BY <1>7, <2>1 DEF RowInv
<1>10. GapOf(c, Tip) = GapOf(b, Tip)  BY <1>7 DEF GapOf, Gap
<1>11. BooksInv(c, Tip)  BY <1>1, <1>5, <1>6, <1>8, <1>9, <1>10 DEF BooksInv
<1> QED  BY <1>7, <1>11 DEF Observed, Keeps

\* The answer to a submit is recorded; a refused order never sold.
LEMMA ObservedAcked ==
  ASSUME BrokerTypes, LedgerInv, NEW o \in Orders, NEW c, c = Acked(books, o)
  PROVE  Observed(c)
<1>1. PICK b : b = books  OBVIOUS
<1>2. Observed(b) /\ b \in Books /\ RowInv(b, o) /\ OrderInv(o)
  BY <1>1, ObservedNow DEF LedgerInv, BooksInv
<1>3. CASE ord[o].st = "held"
  <2>1. c = [b EXCEPT !.row[o].receipt = TRUE]  BY <1>1, <1>3 DEF Acked
  <2> QED  BY <1>2, <2>1, ObservedReceipt
<1>4. CASE ord[o].st = "refused"
  <2>1. c = [b EXCEPT !.row[o].st = "done"]  BY <1>1, <1>4 DEF Acked
  <2>2. \A l \in Leg : ord[o].filled[l] = 0  BY <1>2, <1>4 DEF OrderInv, Zero
  <2>3. \A l \in Leg : b.row[o].rec[l] \in Nat  BY <1>2, RowTypes DEF Leg
  <2>4. Exact(b, o)  BY <1>2, <2>2, <2>3 DEF RowInv, Exact
  <2>5. Over(b, o)  BY <1>4, <2>4 DEF Over, Sellable
  <2> QED  BY <1>2, <2>1, <2>5, ObservedDone
<1>5. CASE ord[o].st \notin {"held", "refused"}
  <2>1. c = b  BY <1>1, <1>5 DEF Acked
  <2> QED  BY <1>2, <2>1
<1> QED  BY <1>3, <1>4, <1>5

\* The answer to the submit, and the first observation.
LEMMA AckKeeps ==
  ASSUME OwnInv, NEW got \in BOOLEAN, NEW R \in SUBSET Leg, Ack(got, R), UNCHANGED day
  PROVE  OwnInv'
<1>0. /\ Types /\ Core /\ LedgerInv /\ BrokerTypes /\ DayTypes
      /\ pos \in Positions /\ ctx \in Contexts /\ Observed(books)
      /\ mem.h.gen # 0 => mem.h.gen > 0 /\ Root \in Orders
  BY OwnParts
<1>1. Still /\ pc = "ack"  BY DEF Ack, Still, broker
<1>2. Root \in Orders  BY <1>0, <1>1 DEF OwnInv, PlaceInv
<1>3. CASE ~got
  <2>1. PICK b, p : b = books /\ p = pos  OBVIOUS
  <2>2. Raise(pos) /\ UNCHANGED <<books, saved, mem>>  BY <1>3 DEF Ack, durable
  <2> QED  BY <1>0, <1>1, <2>1, <2>2, RaiseStep
<1>4. CASE got
  <2>1. PICK a, o : a = Acked(books, Root) /\ o = Root  OBVIOUS
  <2>2. Observed(a)  BY <1>0, <1>2, <2>1, ObservedAcked
  <2>3. PICK v, p : v = Look(a, p, R) /\ p = pos  OBVIOUS
  <2>4. R \subseteq books.row[Root].legs  BY <1>4 DEF Ack
  <2>5. Looked(v)  BY <1>0, <1>2, <2>2, <2>3, <2>4, LookKeeps
  <2>6. /\ books' = v.b
        /\ IF v.ok THEN Keep(v.h) /\ pos' = v.p /\ Goto("decide")
           ELSE Raise(v.p) /\ UNCHANGED <<saved, mem>>
    BY <1>4, <2>1, <2>3 DEF Ack
  <2>7. PICK b, h : b = v.b /\ h = v.h  OBVIOUS
  <2>8. Observed(b) /\ SameHandle(mem.h, h) /\ books' = b /\ v.p \in Positions /\ v.ok \in BOOLEAN
    BY <2>5, <2>6, <2>7 DEF Looked
  <2>9. CASE v.ok
    <3>1. Keep(h) /\ pos' = v.p /\ Goto("decide")  BY <2>6, <2>7, <2>9
    <3>2. pc' = "decide" /\ ctx' \in Contexts  BY <1>0, <3>1, GotoTypes
    <3>3. Types' /\ Core'  BY <1>0, <1>1, <2>8, <3>1, <3>2, KeepTypes
    <3> QED  BY <3>2, <3>3, QuietPlace DEF OwnInv, Core
  <2>10. CASE ~v.ok  BY <1>1, <2>6, <2>8, <2>10, RaiseStep
  <2> QED  BY <2>8, <2>9, <2>10
<1> QED  BY <1>3, <1>4

------------------------------------------------------------------------------
(* Software exits.                                                          *)

\* The journal is written: a new order may become the open one only when none is.
LEMMA JournalledStep ==
  ASSUME Types, Core, Still, NEW b, Observed(b), books' = b,
         NEW m \in Journals, m.h = mem.h, Journalled(m),
         m.sent => m.reason # "none" /\ m.attempt > 0,
         Clean(b) \/ (m.sent = mem.sent /\ m.attempt = mem.attempt)
  PROVE  Core' /\ mem' = m /\ mem' \in Journals /\ saved' \in Journals /\ saved'.h = saved.h
<1>1. BrokerTypes /\ LedgerInv /\ JournalInv /\ AskedInv /\ saved.h \in Handles
  BY TipTypes DEF Types, Core
<1>2. /\ mem' = m /\ saved' = [m EXCEPT !.h = saved.h] /\ saved' \in Journals /\ saved'.h = saved.h
      /\ saved'.sent = m.sent /\ saved'.attempt = m.attempt /\ saved'.reason = m.reason
  BY <1>1 DEF Journalled, Journals
<1>3. LedgerInv'
  <2>1. CASE Clean(b)  BY <1>1, <2>1, LedgerStep DEF Still
  <2>2. CASE m.sent = mem.sent /\ m.attempt = mem.attempt
    <3>1. saved'.sent = saved.sent /\ saved'.attempt = saved.attempt
      BY <1>1, <1>2, <2>2 DEF JournalInv
    <3>2. Tip' = Tip  BY <1>2, <3>1 DEF Tip
    <3> QED  BY <1>1, <1>2, <3>1, <3>2, LedgerStep DEF Still
  <2> QED  BY <2>1, <2>2
<1>4. Fresh => Fresh'
  <2>1. Fresh => Clean(b)  BY CleanKept DEF Fresh
  <2>2. Clean(b) => Clean(books)'  BY CleanNext DEF Still
  <2> QED  BY <1>2, <2>1, <2>2 DEF Fresh
<1>5. JournalInv'  BY <1>1, <1>2, <1>4 DEF JournalInv
<1>6. AskedInv'  BY <1>1, <1>2 DEF AskedInv, Still
<1> QED  BY <1>2, <1>3, <1>5, <1>6 DEF Core

\* A reason to sell is found.
LEMMA DecideKeeps ==
  ASSUME OwnInv, NEW r \in {Target, Mandatory}, Decide(r), UNCHANGED day
  PROVE  OwnInv'
<1>0. Types /\ Core /\ pos \in Positions /\ Observed(books)  BY OwnParts
<1>1. /\ Still /\ UNCHANGED <<books, saved, mem, pos>> /\ pc' = "exit"
      /\ ctx' = [NoContext EXCEPT !.why = r]
  BY DEF Decide, Still, broker, durable
<1>2. ctx' \in Contexts /\ ctx'.why # "none"
  BY <1>1 DEF NoContext, Contexts, Leg, Target, Mandatory
<1>3. PICK b : b = books  OBVIOUS
<1>4. Types' /\ Core'  BY <1>0, <1>1, <1>2, <1>3, SilentTypes
<1>5. PlaceInv'  BY <1>1, <1>2 DEF PlaceInv
<1> QED  BY <1>4, <1>5 DEF OwnInv, Core

\* A pass that ends here.
LEMMA RaiseHere ==
  ASSUME OwnInv, Still, UNCHANGED <<books, saved, mem>>, Raise(pos)
  PROVE  OwnInv'
<1>1. PICK b, p : b = books /\ p = pos  OBVIOUS
<1>2. Observed(b) /\ p \in Positions /\ books' = b /\ Raise(p)  BY <1>1, OwnParts
<1> QED  BY <1>2, RaiseStep

\* The reason is latched.
LEMMA ExitLatchKeeps ==
  ASSUME OwnInv, ExitLatch, UNCHANGED day
  PROVE  OwnInv'
<1>0. /\ Types /\ Core /\ pos \in Positions /\ Observed(books) /\ ctx \in Contexts
      /\ mem \in Journals /\ saved \in Journals /\ JournalInv
  BY OwnParts
<1>1. /\ Still /\ pc = "exit" /\ UNCHANGED <<books, pos>>
      /\ pc' = (IF mem.sent THEN "watch" ELSE "release") /\ ctx' = NoContext
  BY DEF ExitLatch, Still, broker
<1>2. ctx.why # "none" /\ ctx.why \in {"none", Target, Mandatory}
  BY <1>0, <1>1 DEF OwnInv, PlaceInv, Contexts
<1>3. ctx' \in Contexts /\ ctx'.then = "exit"  BY <1>1 DEF NoContext, Contexts, Leg
<1>4. PICK b : b = books  OBVIOUS
<1>5. CASE Journalled([mem EXCEPT !.reason = ctx.why])
  <2>1. PICK m : m = [mem EXCEPT !.reason = ctx.why]  OBVIOUS
  <2>2. /\ m \in Journals /\ m.h = mem.h /\ m.sent = mem.sent /\ m.attempt = mem.attempt
        /\ m.reason # "none"
    BY <1>0, <1>2, <2>1 DEF Journals
  <2>3. m.sent => m.reason # "none" /\ m.attempt > 0  BY <1>0, <2>2 DEF JournalInv
  <2>4. Core' /\ mem' = m /\ mem' \in Journals /\ saved' \in Journals
    BY <1>0, <1>1, <1>4, <1>5, <2>1, <2>2, <2>3, JournalledStep
  <2>5. Types'  BY <1>0, <1>1, <1>3, <1>4, <2>4, StillTypes DEF Still
  <2>6. PlaceInv'  BY <1>1, <2>2, <2>4 DEF PlaceInv
  <2> QED  BY <2>4, <2>5, <2>6 DEF OwnInv, Core
<1>6. CASE UNCHANGED <<saved, mem>> /\ mem.reason # "none"
  <2>1. Types' /\ Core'  BY <1>0, <1>1, <1>3, <1>4, <1>6, SilentTypes
  <2>2. PlaceInv'  BY <1>1, <1>6 DEF PlaceInv
  <2> QED  BY <2>1, <2>2 DEF OwnInv, Core
<1> QED  BY <1>5, <1>6 DEF ExitLatch

\* A software exit that has ended: what is left is released for another one.
LEMMA AfterExitKeeps ==
  ASSUME OwnInv, Still, NEW b, Observed(b), books' = b, mem.sent,
         b.row[Current].st = "done", AfterExit(b)
  PROVE  OwnInv'
<1>0. /\ Types /\ Core /\ pos \in Positions /\ ctx \in Contexts /\ mem \in Journals /\ JournalInv
      /\ DayTypes
  BY OwnParts
<1>1. Current \in Orders /\ mem.reason # "none"  BY <1>0, TipTypes DEF JournalInv
<1>2. Over(b, Current)  BY <1>1 DEF Observed, BooksInv, RowInv
<1>3. Clean(b)  BY <1>0, <1>2, CleanSoft
<1>4. PICK p : p = [pos EXCEPT !.exited = b.sold]  OBVIOUS
<1>5. p \in Positions
  <2>1. b.sold \in Nat  BY DEF Observed, BooksInv, Books
  <2> QED  BY <1>0, <1>4, <2>1, PositionKinds
<1>6. CASE Raise(pos) /\ UNCHANGED <<saved, mem>>
  <2>1. PICK q : q = pos  OBVIOUS
  <2> QED  BY <1>0, <1>6, <2>1, RaiseStep
<1>7. CASE Raise(p) /\ UNCHANGED <<saved, mem>>  BY <1>5, <1>7, RaiseStep
<1>8. CASE /\ Journalled([mem EXCEPT !.sent = FALSE])
           /\ pos' = IF mem.h.gen = 0 THEN [p EXCEPT !.unknown = FALSE, !.reserved = 0] ELSE p
           /\ Goto("release")
  <2>1. PICK m : m = [mem EXCEPT !.sent = FALSE]  OBVIOUS
  <2>2. m \in Journals /\ m.h = mem.h /\ ~m.sent /\ m.reason = mem.reason
    BY <1>0, <2>1 DEF Journals
  <2>3. Core' /\ mem' = m /\ mem' \in Journals /\ saved' \in Journals
    BY <1>0, <1>3, <1>8, <2>1, <2>2, JournalledStep
  <2>4. pos' \in Positions  BY <1>0, <1>5, <1>8, PositionKinds
  <2>5. pc' = "release" /\ ctx' \in Contexts  BY <1>0, <1>8, GotoTypes
  <2>6. Types'  BY <1>0, <2>3, <2>4, <2>5, StillTypes DEF Still
  <2>7. PlaceInv'  BY <1>1, <2>2, <2>3, <2>5, AtRelease
  <2> QED  BY <2>3, <2>6, <2>7 DEF OwnInv, Core
<1> QED  BY <1>4, <1>6, <1>7, <1>8 DEF AfterExit

\* A sent exit is read; one that ended re-arms the next.
LEMMA WatchKeeps ==
  ASSUME OwnInv, NEW seen \in BOOLEAN, Watch(seen), UNCHANGED day
  PROVE  OwnInv'
<1>0. /\ Types /\ Core /\ pos \in Positions /\ ctx \in Contexts /\ JournalInv /\ BrokerTypes
      /\ Observed(books)
  BY OwnParts
<1>1. Still /\ pc = "watch"  BY DEF Watch, Still, broker
<1>2. mem.sent  BY <1>1 DEF OwnInv, PlaceInv
<1>3. Current \in Orders /\ "target" \in Leg  BY <1>0, <1>2, TipTypes DEF JournalInv, Leg
<1>4. PICK b : b = IF seen /\ books.row[Current].st # "done" THEN Book(books, Current, "target") ELSE books
  OBVIOUS
<1>5. Observed(b)
  <2>1. CASE b = books  BY <1>0, <2>1
  <2>2. CASE b = Book(books, Current, "target")
    <3>1. PICK a : a = books  OBVIOUS
    <3> QED  BY <1>0, <1>3, <2>2, <3>1, ObservedBook
  <2> QED  BY <1>4, <2>1, <2>2
<1>6. /\ books' = b
      /\ IF b.row[Current].st = "done" THEN AfterExit(b)
         ELSE /\ IF ChaseWindow /\ (seen \/ MandatoryChase) THEN Goto("chase") /\ UNCHANGED pos
                 ELSE Raise(pos)
              /\ UNCHANGED <<saved, mem>>
  BY <1>4 DEF Watch
<1>7. CASE b.row[Current].st = "done"  BY <1>1, <1>2, <1>5, <1>6, <1>7, AfterExitKeeps
<1>8. CASE Raise(pos) /\ UNCHANGED <<saved, mem>>
  <2>1. PICK p : p = pos  OBVIOUS
  <2> QED  BY <1>0, <1>1, <1>5, <1>6, <1>8, <2>1, RaiseStep
<1>9. CASE Goto("chase") /\ UNCHANGED pos /\ UNCHANGED <<saved, mem>>
  <2>1. pc' = "chase" /\ ctx' \in Contexts  BY <1>0, <1>9, GotoTypes
  <2>2. Types' /\ Core'  BY <1>0, <1>1, <1>5, <1>6, <1>9, <2>1, SilentTypes
  <2>3. PlaceInv'  BY <1>2, <1>9, <2>1 DEF PlaceInv
  <2> QED  BY <2>2, <2>3 DEF OwnInv, Core
<1> QED  BY <1>6, <1>7, <1>8, <1>9

\* The same after its cancel.
LEMMA RewatchKeeps ==
  ASSUME OwnInv, NEW seen \in BOOLEAN, Rewatch(seen), UNCHANGED day
  PROVE  OwnInv'
<1>0. /\ Types /\ Core /\ pos \in Positions /\ ctx \in Contexts /\ JournalInv /\ BrokerTypes
      /\ Observed(books)
  BY OwnParts
<1>1. Still /\ pc = "rewatch"  BY DEF Rewatch, Still, broker
<1>2. mem.sent  BY <1>1 DEF OwnInv, PlaceInv
<1>3. Current \in Orders /\ "target" \in Leg  BY <1>0, <1>2, TipTypes DEF JournalInv, Leg
<1>4. PICK b : b = IF seen THEN Book(books, Current, "target") ELSE books  OBVIOUS
<1>5. Observed(b)
  <2>1. CASE b = books  BY <1>0, <2>1
  <2>2. CASE b = Book(books, Current, "target")
    <3>1. PICK a : a = books  OBVIOUS
    <3> QED  BY <1>0, <1>3, <2>2, <3>1, ObservedBook
  <2> QED  BY <1>4, <2>1, <2>2
<1>6. /\ books' = b
      /\ IF seen /\ b.row[Current].st = "done" THEN AfterExit(b)
         ELSE Raise(pos) /\ UNCHANGED <<saved, mem>>
  BY <1>4 DEF Rewatch
<1>7. CASE seen /\ b.row[Current].st = "done"  BY <1>1, <1>2, <1>5, <1>6, <1>7, AfterExitKeeps
<1>8. CASE Raise(pos) /\ UNCHANGED <<saved, mem>>
  <2>1. PICK p : p = pos  OBVIOUS
  <2> QED  BY <1>0, <1>1, <1>5, <1>6, <1>8, <2>1, RaiseStep
<1> QED  BY <1>6, <1>7, <1>8

\* A sent exit is read again and cancelled.
LEMMA ChaseKeeps ==
  ASSUME OwnInv, NEW seen \in BOOLEAN, Chase(seen), UNCHANGED day
  PROVE  OwnInv'
<1>0. /\ Types /\ Core /\ pos \in Positions /\ ctx \in Contexts /\ JournalInv /\ BrokerTypes
      /\ Observed(books) /\ AskedInv /\ DayTypes /\ mem \in Journals /\ saved \in Journals
  BY OwnParts
<1>1. /\ UNCHANGED <<day, bought, sold, ord, session, saved, mem>> /\ pc = "chase"
  BY DEF Chase
<1>2. mem.sent  BY <1>1 DEF OwnInv, PlaceInv
<1>3. Current \in Orders /\ "target" \in Leg  BY <1>0, <1>2, TipTypes DEF JournalInv, Leg
<1>4. PICK b : b = IF seen THEN Book(books, Current, "target") ELSE books  OBVIOUS
<1>5. Observed(b)
  <2>1. CASE b = books  BY <1>0, <2>1
  <2>2. CASE b = Book(books, Current, "target")
    <3>1. PICK a : a = books  OBVIOUS
    <3> QED  BY <1>0, <1>3, <2>2, <3>1, ObservedBook
  <2> QED  BY <1>4, <2>1, <2>2
<1>6. /\ books' = b
      /\ \/ asked' = asked \cup {<<Current, "target">>} /\ Goto("rewatch") /\ UNCHANGED pos
         \/ UNCHANGED asked /\ Raise(pos)
  BY <1>4 DEF Chase
<1>7. CASE asked' = asked \cup {<<Current, "target">>} /\ Goto("rewatch") /\ UNCHANGED pos
  <2>1. AskedInv'
    <3>1. \A g, l : <<<<"native", g>>, l>> \in asked' => <<<<"native", g>>, l>> \in asked
      BY <1>7 DEF Current
    <3> QED  BY <1>0, <1>1, <3>1 DEF AskedInv
  <2>2. pc' = "rewatch" /\ ctx' \in Contexts  BY <1>0, <1>7, GotoTypes
  <2>3. Core'  BY <1>0, <1>1, <1>5, <1>6, <2>1, AskingStep
  <2>4. Types'  BY <1>0, <1>1, <1>5, <1>6, <1>7, <2>2, StillTypes
  <2>5. PlaceInv'  BY <1>1, <1>2, <2>2 DEF PlaceInv
  <2> QED  BY <2>3, <2>4, <2>5 DEF OwnInv, Core
<1>8. CASE UNCHANGED asked /\ Raise(pos)
  <2>1. PICK p : p = pos  OBVIOUS
  <2>2. Still  BY <1>1, <1>8 DEF Still
  <2> QED  BY <1>0, <1>1, <1>5, <1>6, <1>8, <2>1, <2>2, RaiseStep
<1> QED  BY <1>6, <1>7, <1>8

\* The remainder is claimed.
LEMMA ClaimKeeps ==
  ASSUME OwnInv, NEW avail \in 0..MaxBuy, Claim(avail), UNCHANGED day
  PROVE  OwnInv'
<1>0. /\ Types /\ Core /\ DayTypes /\ pos \in Positions /\ ctx \in Contexts /\ Observed(books)
  BY OwnParts
<1>1. Still /\ pc = "claim" /\ UNCHANGED <<books, saved, mem>>  BY DEF Claim, Still, broker, durable
<1>2. Clean(books) /\ mem.h = saved.h /\ ~mem.sent /\ mem.reason # "none"
  BY <1>1 DEF OwnInv, PlaceInv
<1>3. PICK most : most = LesserOf(Remaining(pos) - pos.reserved, avail)  OBVIOUS
<1>4. CASE Raise(pos)  BY <1>1, <1>4, RaiseHere
<1>5. CASE /\ ~(most <= 0) /\ pos' = [pos EXCEPT !.reserved = @ + most]
           /\ pc' = "prepare" /\ ctx' = [ctx EXCEPT !.qty = most]
  <2>1. pos.reserved \in Nat /\ Remaining(pos) \in Nat /\ avail \in Nat
    BY <1>0, PositionTypes, OwnedExitConstants
  <2>2. most \in Int  BY <1>3, <2>1 DEF LesserOf
  <2>3. most \in Nat /\ most > 0 /\ pos.reserved + most \in Nat  BY <1>5, <2>1, <2>2
  <2>4. pos' \in Positions
    <3>1. pos' = [pos EXCEPT !.reserved = pos.reserved + most]  BY <1>5
    <3> QED  BY <1>0, <2>3, <3>1, PositionKinds
  <2>5. ctx' \in Contexts /\ ctx'.qty = most  BY <1>0, <1>5, <2>3 DEF Contexts
  <2>6. PICK b : b = books  OBVIOUS
  <2>7. Types' /\ Core'  BY <1>0, <1>1, <2>4, <2>5, <2>6, SilentTypes
  <2>8. Clean(books)'  BY <1>1, <1>2, <2>6, CleanNext DEF Still
  <2>9. PlaceInv'  BY <1>1, <1>2, <1>5, <2>3, <2>5, <2>8 DEF PlaceInv
  <2> QED  BY <2>7, <2>9 DEF OwnInv, Core
<1> QED  BY <1>3, <1>4, <1>5 DEF Claim

\* The row of a software exit is prepared.
LEMMA PrepareKeeps ==
  ASSUME OwnInv, NEW fails \in BOOLEAN, Prepare(fails), UNCHANGED day
  PROVE  OwnInv'
<1>0. /\ Types /\ Core /\ LedgerInv /\ JournalInv /\ AskedInv /\ BrokerTypes /\ DayTypes
      /\ pos \in Positions /\ ctx \in Contexts /\ mem \in Journals /\ saved \in Journals
  BY OwnParts
<1>1. Still /\ pc = "prepare" /\ UNCHANGED <<saved, mem>> /\ mem.attempt < day.attempts
  BY DEF Prepare, Still, broker
<1>2. Clean(books) /\ mem.h = saved.h /\ ~mem.sent /\ mem.reason # "none" /\ ctx.qty > 0
  BY <1>1 DEF OwnInv, PlaceInv
<1>3. CASE Raise(pos) /\ UNCHANGED books  BY <1>1, <1>3, RaiseHere
<1>4. CASE /\ Prepares(NextExit, ctx.qty)
           /\ books' = [books EXCEPT !.row[NextExit] = NewRow(ctx.qty, {"target"})]
           /\ Goto("latch") /\ UNCHANGED pos
  <2>1. PICK o, b, q, L : o = NextExit /\ b = books' /\ q = ctx.qty /\ L = {"target"}  OBVIOUS
  <2>2. o \in Orders
    <3>1. day.attempts \in 1..MaxAttempt /\ mem.attempt \in 0..MaxAttempt
      BY <1>0, TipTypes DEF DayTypes, Day
    <3>2. mem.attempt + 1 \in 1..MaxAttempt  BY <1>1, <3>1, OwnedExitConstants
    <3> QED  BY <2>1, <3>2 DEF NextExit, Orders, Soft
  <2>3. L \in {{"target"}, Leg}  BY <2>1
  <2>4. q \in Nat /\ q > 0  BY <1>0, <1>2, <2>1 DEF Contexts
  <2>5. Prepares(o, q) /\ b = [books EXCEPT !.row[o] = NewRow(q, L)] /\ books' = b  BY <1>4, <2>1
  <2>6. Prepared(b, o)  BY <1>0, <1>2, <2>2, <2>3, <2>4, <2>5, NewRowBooks
  <2>7. pc' = "latch" /\ ctx' \in Contexts  BY <1>0, <1>4, GotoTypes
  <2>8. LedgerInv'  BY <1>0, <1>1, <2>5, <2>6, BooksStep DEF Still, Prepared
  <2>9. Clean(books)'  BY <1>1, <2>5, <2>6, CleanNext DEF Still, Prepared
  <2>10. Types'
    <3>1. b \in Books  BY <2>6 DEF BooksInv, Prepared
    <3>2. pos' \in Positions /\ saved' \in Journals /\ mem' \in Journals  BY <1>0, <1>1, <1>4
    <3> QED  BY <1>0, <1>1, <2>5, <2>7, <3>1, <3>2, WrittenTypes DEF Still
  <2>11. NextExit' = o  BY <1>1, <2>1 DEF NextExit
  <2>12. Sized(NextExit)'  BY <1>1, <2>2, <2>5, <2>6, <2>11 DEF Sized, Still, Prepared
  <2>13. JournalInv' /\ AskedInv'  BY <1>0, <1>1, <1>2 DEF JournalInv, AskedInv, Still
  <2>14. PlaceInv'  BY <1>1, <1>2, <2>7, <2>9, <2>12 DEF PlaceInv
  <2> QED  BY <2>8, <2>10, <2>13, <2>14 DEF OwnInv
<1> QED  BY <1>3, <1>4 DEF Prepare

\* The sent latch is saved: the software exit becomes the order that may be open.
LEMMA SentLatchKeeps ==
  ASSUME OwnInv, SentLatch, UNCHANGED day
  PROVE  OwnInv'
<1>0. /\ Types /\ Core /\ pos \in Positions /\ ctx \in Contexts /\ mem \in Journals
      /\ Observed(books)
  BY OwnParts
<1>1. /\ Still /\ pc = "latch" /\ UNCHANGED <<books, pos>> /\ Goto("go")
      /\ Journalled([mem EXCEPT !.sent = TRUE, !.attempt = @ + 1])
  BY DEF SentLatch, Still, broker
<1>2. Clean(books) /\ mem.h = saved.h /\ mem.reason # "none" /\ Sized(NextExit)
  BY <1>1 DEF OwnInv, PlaceInv
<1>3. PICK b : b = books  OBVIOUS
<1>4. PICK m : m = [mem EXCEPT !.sent = TRUE, !.attempt = @ + 1]  OBVIOUS
<1>5. mem.attempt \in Nat /\ mem.attempt + 1 \in 0..MaxAttempt
  <2>1. NextExit \in Orders  BY <1>2 DEF Sized
  <2>2. mem.attempt + 1 \in 1..MaxAttempt  BY <2>1 DEF NextExit, Orders, Native, Soft
  <2> QED  BY <1>0, <2>2, TipTypes
<1>6. /\ m \in Journals /\ m.h = mem.h /\ m.sent = TRUE /\ m.reason = mem.reason
      /\ m.attempt = mem.attempt + 1
  BY <1>0, <1>4, <1>5 DEF Journals
<1>7. m.reason # "none" /\ m.attempt > 0  BY <1>2, <1>5, <1>6
<1>8. Core' /\ mem' = m /\ mem' \in Journals /\ saved' \in Journals /\ saved'.h = saved.h
  BY <1>0, <1>1, <1>2, <1>3, <1>4, <1>6, <1>7, JournalledStep
<1>9. pc' = "go" /\ ctx' \in Contexts  BY <1>0, <1>1, GotoTypes
<1>10. Types'  BY <1>0, <1>1, <1>3, <1>8, <1>9, StillTypes DEF Still
<1>11. Clean(books)'  BY <1>1, <1>2, <1>3, CleanNext DEF Still
<1>12. Current' = NextExit  BY <1>6, <1>8 DEF Current, NextExit
<1>13. Sized(Current)'  BY <1>1, <1>2, <1>12 DEF Sized, Still
<1>14. PlaceInv'  BY <1>2, <1>6, <1>8, <1>9, <1>11, <1>13 DEF PlaceInv
<1> QED  BY <1>8, <1>10, <1>14 DEF OwnInv, Core

\* A row of an order that was never sent is aborted.
LEMMA AbortedBooks ==
  ASSUME BrokerTypes, LedgerInv, Clean(books), NEW o \in Orders, ord[o] = NoOrder,
         NEW b, b = [books EXCEPT !.row[o].st = "aborted"]
  PROVE  BooksInv(b, Tip) /\ Clean(b)
<1>1. /\ books \in Books /\ books.bought <= bought /\ sold = books.sold + GapOf(books, Tip)
      /\ \A p \in Orders : RowInv(books, p) /\ Over(books, p)
  BY DEF LedgerInv, BooksInv, Clean
<1> DEFINE r == [books.row[o] EXCEPT !.st = "aborted"]
<1>2. books.row \in [Orders -> Row] /\ books.row[o] \in Row /\ books.sold \in Nat /\ books.bought \in Nat
  BY <1>1, RowTypes
<1>3. /\ r \in Row /\ r.st = "aborted" /\ r.legs = books.row[o].legs /\ r.rec = books.row[o].rec
      /\ r.ended = books.row[o].ended
  BY <1>2 DEF Row
<1>4. b = [books EXCEPT !.row[o] = r]  OBVIOUS
<1> HIDE DEF r
<1>5. b.sold = books.sold /\ b.bought = books.bought /\ b.row = [books.row EXCEPT ![o] = r]
  BY <1>1, <1>4 DEF Books
<1>6. b \in Books
  <2>0. r \in Row /\ books.row \in [Orders -> Row]  BY <1>2, <1>3
  <2>1. b.row \in [Orders -> Row]  BY <1>5, <2>0
  <2>2. b = [bought |-> b.bought, sold |-> b.sold, row |-> b.row]  BY <1>1, <1>4 DEF Books
  <2> QED  BY <1>2, <1>5, <2>1, <2>2 DEF Books
<1>7. /\ \A p \in Orders : p # o => b.row[p] = books.row[p]
      /\ b.row[o].st = "aborted"
      /\ \A p \in Orders : /\ b.row[p].legs = books.row[p].legs /\ b.row[p].rec = books.row[p].rec
                           /\ b.row[p].ended = books.row[p].ended
  BY <1>2, <1>3, <1>5
<1>8. \A p \in Orders : Over(b, p)  BY <1>1, <1>7 DEF Over, Exact
<1>9. \A p \in Orders : RowInv(b, p)
  <2>1. ASSUME NEW p \in Orders, p # o  PROVE RowInv(b, p)  BY <1>1, <1>7, <1>8, <2>1 DEF RowInv
  <2>2. RowInv(b, o)  BY <1>1, <1>7, <1>8 DEF RowInv
  <2> QED  BY <2>1, <2>2
<1>10. GapOf(b, Tip) = GapOf(books, Tip)  BY <1>7 DEF GapOf, Gap
<1> QED  BY <1>1, <1>5, <1>6, <1>8, <1>9, <1>10 DEF BooksInv, Clean

\* The row of an exit that was not sent is aborted.
LEMMA AbandonKeeps ==
  ASSUME OwnInv, AbandonUnsent, UNCHANGED day
  PROVE  OwnInv'
<1>0. /\ Types /\ Core /\ LedgerInv /\ JournalInv /\ AskedInv /\ BrokerTypes /\ DayTypes
      /\ pos \in Positions /\ ctx \in Contexts /\ mem \in Journals /\ saved \in Journals
  BY OwnParts
<1>1. /\ Still /\ pc = "go" /\ UNCHANGED <<saved, mem, pos>> /\ Goto("undo")
      /\ books' = [books EXCEPT !.row[Current].st = "aborted"]
  BY DEF AbandonUnsent, Still, broker
<1>2. Clean(books) /\ mem.h = saved.h /\ mem.sent /\ Sized(Current)
  BY <1>1 DEF OwnInv, PlaceInv
<1>3. PICK o, b : o = Current /\ b = books'  OBVIOUS
<1>4. BooksInv(b, Tip) /\ Clean(b)
  <2>1. o \in Orders /\ ord[o] = NoOrder  BY <1>2, <1>3 DEF Sized
  <2>2. b = [books EXCEPT !.row[o].st = "aborted"]  BY <1>1, <1>3
  <2> QED  BY <1>0, <1>2, <2>1, <2>2, AbortedBooks
<1>5. LedgerInv'  BY <1>0, <1>1, <1>3, <1>4, BooksStep DEF Still
<1>6. Clean(books)'  BY <1>1, <1>3, <1>4, CleanNext DEF Still
<1>7. pc' = "undo" /\ ctx' \in Contexts  BY <1>0, <1>1, GotoTypes
<1>8. Types'
  <2>1. b \in Books /\ books' = b  BY <1>3, <1>4 DEF BooksInv
  <2>2. pos' \in Positions /\ saved' \in Journals /\ mem' \in Journals  BY <1>0, <1>1
  <2> QED  BY <1>0, <1>1, <1>7, <2>1, <2>2, WrittenTypes DEF Still
<1>9. JournalInv' /\ AskedInv'  BY <1>0, <1>1, <1>2 DEF JournalInv, AskedInv, Still
<1>10. PlaceInv'  BY <1>1, <1>2, <1>6, <1>7 DEF PlaceInv
<1> QED  BY <1>5, <1>8, <1>9, <1>10 DEF OwnInv

\* Its latch is taken back.
LEMMA RearmKeeps ==
  ASSUME OwnInv, Rearm, UNCHANGED day
  PROVE  OwnInv'
<1>0. /\ Types /\ Core /\ DayTypes /\ pos \in Positions /\ mem \in Journals /\ Observed(books)
  BY OwnParts
<1>1. /\ Still /\ pc = "undo" /\ UNCHANGED books /\ Raise([pos EXCEPT !.reserved = 0])
      /\ Journalled([mem EXCEPT !.sent = FALSE])
  BY DEF Rearm, Still, broker
<1>2. Clean(books)  BY <1>1 DEF OwnInv, PlaceInv
<1>3. PICK b, p, m : b = books /\ p = [pos EXCEPT !.reserved = 0] /\ m = [mem EXCEPT !.sent = FALSE]
  OBVIOUS
<1>4. m \in Journals /\ m.h = mem.h /\ ~m.sent  BY <1>0, <1>3 DEF Journals
<1>5. p \in Positions  BY <1>0, <1>3, PositionKinds
<1>6. Core' /\ mem' \in Journals /\ saved' \in Journals
  BY <1>0, <1>1, <1>2, <1>3, <1>4, JournalledStep
<1>7. PlaceInv' /\ pos' \in Positions /\ ctx' \in Contexts  BY <1>0, <1>1, <1>3, <1>5, RaiseQuiet
<1>8. Types'  BY <1>0, <1>1, <1>3, <1>6, <1>7, StillTypes DEF Still
<1> QED  BY <1>6, <1>7, <1>8 DEF OwnInv, Core

\* The answer to the exit's submit.
LEMMA DoneKeeps ==
  ASSUME OwnInv, NEW got \in BOOLEAN, Done(got), UNCHANGED day
  PROVE  OwnInv'
<1>0. Types /\ LedgerInv /\ BrokerTypes /\ pos \in Positions /\ Observed(books)  BY OwnParts
<1>1. /\ Still /\ pc = "done" /\ UNCHANGED <<saved, mem>> /\ Raise(pos)
      /\ books' = IF got THEN Acked(books, Current) ELSE books
  BY DEF Done, Still, broker
<1>2. Current \in Orders
  <2>1. mem.attempt > 0  BY <1>1 DEF OwnInv, PlaceInv
  <2> QED  BY <1>0, <2>1, TipTypes
<1>3. PICK b, p : b = books' /\ p = pos  OBVIOUS
<1>4. Observed(b)
  <2>1. CASE got
    <3>1. PICK o : o = Current  OBVIOUS
    <3>2. b = Acked(books, o)  BY <1>1, <1>3, <2>1, <3>1
    <3> QED  BY <1>0, <1>2, <3>1, <3>2, ObservedAcked
  <2>2. CASE ~got  BY <1>0, <1>1, <1>3, <2>2
  <2> QED  BY <2>1, <2>2
<1> QED  BY <1>0, <1>1, <1>3, <1>4, RaiseStep

\* A restart reads the durable journal back.
LEMMA CrashKeeps ==
  ASSUME OwnInv, Crash, UNCHANGED day
  PROVE  OwnInv'
<1>0. /\ Types /\ LedgerInv /\ JournalInv /\ AskedInv /\ BrokerTypes /\ DayTypes
      /\ pos \in Positions /\ saved \in Journals /\ Observed(books)
  BY OwnParts
<1>1. Still /\ UNCHANGED <<books, saved>> /\ mem' = saved /\ Raise(NoPosition)
  BY DEF Crash, Still, broker, durable
<1>2. PICK b, p : b = books /\ p = NoPosition  OBVIOUS
<1>3. p \in Positions  BY <1>0, <1>2, PositionKinds
<1>4. PlaceInv' /\ pos' \in Positions /\ ctx' \in Contexts  BY <1>0, <1>1, <1>2, <1>3, RaiseQuiet
<1>5. Types'  BY <1>0, <1>1, <1>2, <1>4, StillTypes DEF Still
<1>6. LedgerInv'
  <2>1. Tip' = Tip  BY <1>1 DEF Tip
  <2> QED  BY <1>0, <1>1, <1>2, <2>1, LedgerStep DEF Still
<1>7. JournalInv'  BY <1>0, <1>1 DEF JournalInv
<1>8. AskedInv'  BY <1>0, <1>1 DEF AskedInv, Still
<1> QED  BY <1>4, <1>5, <1>6, <1>7, <1>8 DEF OwnInv

\* A pass that ends here.
LEMMA PassEnds ==
  ASSUME OwnInv, DecideNothing \/ Return, UNCHANGED day
  PROVE  OwnInv'
<1>1. Still /\ UNCHANGED <<books, saved, mem>> /\ Raise(pos)
  BY DEF DecideNothing, Return, Still, broker, durable
<1> QED  BY <1>1, RaiseHere

------------------------------------------------------------------------------
(* The broker's own steps.                                                  *)

\* One order moves on: it gains no leg, sells only through a leg that works, and what
\* it sold and may still sell does not grow.
OrderMoves(o, w) ==
  /\ w \in Order /\ ord[o] # NoOrder /\ ord' = [ord EXCEPT ![o] = w]
  /\ w.live \subseteq ord[o].live
  /\ w.st \in {"flight", "held"} => ord[o].st \in {"flight", "held"}
  /\ \A l \in Leg : \/ w.filled[l] = ord[o].filled[l]
                    \/ l \in ord[o].live /\ Sellable(o) /\ w.filled[l] >= ord[o].filled[l]
  /\ sold' = sold + (w.filled["target"] + w.filled["stop"]
                     - ord[o].filled["target"] - ord[o].filled["stop"])
  /\ OrderInv(o)' /\ sold' + LeftToSell(o)' <= sold + LeftToSell(o)

\* Whatever order moves on, the books stay behind it and the sales stay covered.
LEMMA MovesLedger ==
  ASSUME Types, LedgerInv, NEW o \in Orders, NEW w, OrderMoves(o, w),
         UNCHANGED <<bought, books, saved>>
  PROVE  /\ LedgerInv' /\ ord' \in [Orders -> Order] /\ sold' \in Nat
         /\ \A p \in Orders : p # o => ord'[p] = ord[p]
         /\ Clean(books) => Clean(books)' /\ sold' = sold
<1>1. /\ books \in Books /\ books.bought <= bought /\ sold = books.sold + GapOf(books, Tip)
      /\ \A p \in Orders : RowInv(books, p) /\ (p # Tip => Over(books, p)) /\ OrderInv(p)
      /\ sold + LeftOf(Tip) <= bought
      /\ ~saved.sent /\ Tip \in Orders /\ Sellable(Tip) => saved.h.status # "unsent"
  BY DEF LedgerInv, BooksInv
<1>2. /\ w \in Order /\ ord[o] # NoOrder /\ ord' = [ord EXCEPT ![o] = w]
      /\ w.live \subseteq ord[o].live
      /\ w.st \in {"flight", "held"} => ord[o].st \in {"flight", "held"}
      /\ \A l \in Leg : \/ w.filled[l] = ord[o].filled[l]
                        \/ l \in ord[o].live /\ Sellable(o) /\ w.filled[l] >= ord[o].filled[l]
      /\ sold' = sold + (w.filled["target"] + w.filled["stop"]
                         - ord[o].filled["target"] - ord[o].filled["stop"])
      /\ OrderInv(o)' /\ sold' + LeftToSell(o)' <= sold + LeftToSell(o)
  BY DEF OrderMoves
<1>3. /\ ord \in [Orders -> Order] /\ bought \in Nat /\ sold \in Nat /\ BrokerTypes
      /\ books.sold \in Nat
  BY <1>1 DEF Types, BrokerTypes, Books
<1>4. ord' \in [Orders -> Order] /\ ord'[o] = w /\ \A p \in Orders : p # o => ord'[p] = ord[p]
  BY <1>2, <1>3
<1>5. /\ \A l \in Leg : w.filled[l] \in Nat /\ ord[o].filled[l] \in Nat /\ books.row[o].rec[l] \in Nat
      /\ "target" \in Leg /\ "stop" \in Leg
      /\ books.row[o].ended \in SUBSET Leg
  BY <1>1, <1>2, <1>3, OrderTypes, RowTypes DEF Order, Leg
<1>6. sold' \in Nat /\ sold <= sold' /\ (~Sellable(o) => sold' = sold)
  <2>1. w.filled["target"] >= ord[o].filled["target"] /\ w.filled["stop"] >= ord[o].filled["stop"]
    BY <1>2, <1>5
  <2>2. ~Sellable(o) => w.filled["target"] = ord[o].filled["target"]
                        /\ w.filled["stop"] = ord[o].filled["stop"]
    BY <1>2, <1>5
  <2> QED  BY <1>2, <1>3, <1>5, <2>1, <2>2
<1>7. (Sellable(o)' => Sellable(o)) /\ (Over(books, o) => Over(books, o)')
  <2>1. Sellable(o)' => Sellable(o)  BY <1>2, <1>4 DEF Sellable
  <2>2. Over(books, o) => Exact(books, o)'  BY <1>2, <1>4 DEF Over, Exact
  <2> QED  BY <2>1, <2>2 DEF Over
<1>8. Tip' = Tip  BY DEF Tip
<1>9. \A p \in Orders : Over(books, p) => Over(books, p)'
  <2>1. ASSUME NEW p \in Orders, p # o  PROVE Over(books, p) => Over(books, p)'
    BY <1>4, <2>1 DEF Over, Exact, Sellable
  <2> QED  BY <1>7, <2>1
<1>10. (\A p \in Orders : OrderInv(p))'
  <2>1. ASSUME NEW p \in Orders, p # o  PROVE OrderInv(p)'
    BY <1>1, <1>4, <2>1 DEF OrderInv, Sellable
  <2> QED  BY <1>2, <2>1
<1>11. (\A p \in Orders : RowInv(books, p))'
  <2>1. ASSUME NEW p \in Orders, p # o  PROVE RowInv(books, p)'
    BY <1>1, <1>4, <2>1 DEF RowInv, Over, Exact, Sellable
  <2>2. RowInv(books, o)'
    <3>1. RowInv(books, o)  BY <1>1
    <3>2. \A l \in Leg : l \notin books.row[o].legs => w.filled[l] = 0
      BY <1>2, <3>1 DEF RowInv
    <3>3. \A l \in Leg : books.row[o].rec[l] <= w.filled[l]  BY <1>2, <1>5, <3>1 DEF RowInv
    <3>4. \A l \in books.row[o].ended : l \notin w.live /\ books.row[o].rec[l] = w.filled[l]
      BY <1>2, <1>5, <3>1 DEF RowInv
    <3>5. books.row[o].st \notin {"none", "aborted"}  BY <1>2, <3>1 DEF RowInv
    <3>6. books.row[o].st = "done" => Over(books, o)'  BY <1>7, <3>1 DEF RowInv
    <3> QED  BY <1>2, <1>4, <3>1, <3>2, <3>3, <3>4, <3>5, <3>6 DEF RowInv
  <2> QED  BY <2>1, <2>2
<1>12. (\A p \in Orders : p # Tip => Over(books, p))'  BY <1>1, <1>8, <1>9
<1>13. (sold = books.sold + GapOf(books, Tip))' /\ (sold + LeftOf(Tip) <= bought)'
  <2>1. CASE o = Tip
    <3>1. GapOf(books, Tip) = Gap(books, o) /\ GapOf(books, Tip)' = Gap(books, o)'
      BY <1>8, <2>1 DEF GapOf
    <3>2. Gap(books, o)' = w.filled["target"] + w.filled["stop"]
                           - books.row[o].rec["target"] - books.row[o].rec["stop"]
      BY <1>4 DEF Gap
    <3>3. sold' = books.sold + Gap(books, o)'
      BY <1>1, <1>2, <1>3, <1>5, <3>1, <3>2 DEF Gap
    <3>4. LeftOf(Tip) = LeftToSell(o) /\ LeftOf(Tip)' = LeftToSell(o)'
      BY <1>8, <2>1 DEF LeftOf
    <3>5. LeftToSell(o) \in Nat  BY <1>1, <1>3, LeftNat
    <3>6. LeftToSell(o)' \in Int
      BY <1>2, <1>4, <1>5 DEF LeftToSell, Order
    <3>7. sold' + LeftToSell(o)' <= bought
      BY <1>1, <1>2, <1>3, <1>6, <3>4, <3>5, <3>6
    <3> QED  BY <3>1, <3>3, <3>4, <3>7
  <2>2. CASE o # Tip
    <3>1. sold' = sold  BY <1>1, <1>6, <2>2 DEF Over
    <3>2. GapOf(books, Tip)' = GapOf(books, Tip) /\ LeftOf(Tip)' = LeftOf(Tip)
      BY <1>4, <1>8, <2>2 DEF GapOf, Gap, LeftOf, LeftToSell, Sellable
    <3> QED  BY <1>1, <3>1, <3>2
  <2> QED  BY <2>1, <2>2
<1>14. BooksInv(books, Tip)'  BY <1>1, <1>11, <1>12, <1>13 DEF BooksInv
<1>15. (~saved.sent /\ Tip \in Orders /\ Sellable(Tip) => saved.h.status # "unsent")'
  <2>1. \A p \in Orders : Sellable(p)' => Sellable(p)
    <3>1. ASSUME NEW p \in Orders, p # o  PROVE Sellable(p)' => Sellable(p)
      BY <1>4, <3>1 DEF Sellable
    <3> QED  BY <1>7, <3>1
  <2>2. PICK t : t = Tip  OBVIOUS
  <2>3. Sellable(Tip)' = Sellable(t)'  BY <1>8, <2>2 DEF Sellable
  <2> QED  BY <1>1, <1>8, <2>1, <2>2, <2>3
<1>16. LedgerInv'  BY <1>10, <1>13, <1>14, <1>15 DEF LedgerInv
<1>17. Clean(books) => Clean(books)' /\ sold' = sold
  <2>1. Clean(books) => Clean(books)'  BY <1>9 DEF Clean
  <2>2. Clean(books) => sold' = sold  BY <1>6 DEF Clean, Over
  <2> QED  BY <2>1, <2>2
<1> QED  BY <1>4, <1>6, <1>16, <1>17

StillProcess == UNCHANGED <<day, asked, books, saved, mem, pos, pc, ctx>>

\* A broker's step on one order keeps the invariant: the worker does not notice it.
LEMMA MovesKeep ==
  ASSUME OwnInv, NEW o \in Orders, NEW w, OrderMoves(o, w), StillProcess, UNCHANGED <<bought, session>>
  PROVE  OwnInv'
<1>0. Types /\ LedgerInv /\ JournalInv /\ AskedInv /\ PlaceInv /\ DayTypes  BY OwnParts
<1>1. /\ LedgerInv' /\ ord' \in [Orders -> Order] /\ sold' \in Nat
      /\ \A p \in Orders : p # o => ord'[p] = ord[p]
      /\ Clean(books) => Clean(books)' /\ sold' = sold
  BY <1>0, MovesLedger DEF StillProcess
<1>2. Types'  BY <1>0, <1>1 DEF Types, DayTypes, BrokerTypes, StillProcess
<1>3. JournalInv' /\ AskedInv'
  BY <1>0, <1>1 DEF JournalInv, AskedInv, Fresh, StillProcess
<1>4. Root' = Root /\ Current' = Current /\ NextExit' = NextExit /\ Remaining(pos)' = Remaining(pos)
  BY DEF Root, Current, NextExit, Remaining, StillProcess
<1>5. ASSUME NEW x, Sized(x), Clean(books)  PROVE Sized(x)'
  <2>1. x \in Orders /\ x # o  BY <1>5 DEF Sized, OrderMoves
  <2>2. ord'[x] = ord[x] /\ sold' = sold  BY <1>1, <1>5, <2>1
  <2> QED  BY <1>5, <2>2 DEF Sized, StillProcess
<1>6. /\ Sized(Root) /\ Clean(books) => Sized(Root)'
      /\ Sized(NextExit) /\ Clean(books) => Sized(NextExit)'
      /\ Sized(Current) /\ Clean(books) => Sized(Current)'
  <2>1. PICK x, y, z : x = Root /\ y = NextExit /\ z = Current  OBVIOUS
  <2>2. x = Root' /\ y = NextExit' /\ z = Current'  BY <1>4, <2>1
  <2>3. /\ Sized(x) /\ Clean(books) => Sized(x)'
        /\ Sized(y) /\ Clean(books) => Sized(y)'
        /\ Sized(z) /\ Clean(books) => Sized(z)'
    BY <1>5
  <2> QED  BY <2>1, <2>2, <2>3
<1>7. /\ pc \in {"grow", "arm", "send", "claim", "prepare", "latch", "go", "undo"} => Clean(books)'
      /\ pc \in {"arm", "send"} => Sized(Root)'
      /\ pc = "latch" => Sized(NextExit)'
      /\ pc = "go" => Sized(Current)'
  BY <1>0, <1>1, <1>6 DEF PlaceInv
<1>8. PlaceInv'  BY <1>0, <1>4, <1>7 DEF PlaceInv, StillProcess
<1> QED  BY <1>1, <1>2, <1>3, <1>8 DEF OwnInv

\* A share bought covers more.
LEMMA BuyKeeps ==
  ASSUME OwnInv, Buy, UNCHANGED day
  PROVE  OwnInv'
<1>0. Types /\ LedgerInv /\ JournalInv /\ AskedInv /\ PlaceInv /\ DayTypes /\ books \in Books  BY OwnParts
<1>1. /\ bought' = bought + 1
      /\ UNCHANGED <<sold, ord, asked, session, books, saved, mem, pos, pc, ctx>>
  BY DEF Buy, durable, process
<1>2. bought \in Nat /\ sold \in Nat /\ books.bought \in Nat  BY <1>0 DEF Types, BrokerTypes, Books
<1>3. Types'  BY <1>0, <1>1, <1>2 DEF Types, DayTypes, BrokerTypes
<1>4. Tip' = Tip /\ GapOf(books, Tip)' = GapOf(books, Tip) /\ LeftOf(Tip)' = LeftOf(Tip)
  BY <1>1 DEF Tip, GapOf, Gap, LeftOf, LeftToSell, Sellable
<1>5. LeftOf(Tip) \in Int
  <2>1. CASE Tip \in Orders
    <3>1. OrderInv(Tip) /\ BrokerTypes  BY <1>0, <2>1 DEF LedgerInv, Types
    <3>2. PICK t : t = Tip  OBVIOUS
    <3>3. LeftToSell(t) \in Nat  BY <2>1, <3>1, <3>2, LeftNat
    <3> QED  BY <2>1, <3>2, <3>3 DEF LeftOf
  <2>2. CASE Tip \notin Orders  BY <2>2 DEF LeftOf
  <2> QED  BY <2>1, <2>2
<1>6. (sold + LeftOf(Tip) <= bought)' /\ (books.bought <= bought)'
  <2>1. sold + LeftOf(Tip) <= bought /\ books.bought <= bought  BY <1>0 DEF LedgerInv, BooksInv
  <2> QED  BY <1>1, <1>2, <1>4, <1>5, <2>1
<1>7. \A p \in Orders : /\ Over(books, p)' <=> Over(books, p)
                        /\ RowInv(books, p)' <=> RowInv(books, p)
                        /\ OrderInv(p)' <=> OrderInv(p)
                        /\ Sellable(p)' <=> Sellable(p)
  BY <1>1 DEF Over, Exact, RowInv, OrderInv, Sellable
<1>8. BooksInv(books, Tip)'
  BY <1>0, <1>1, <1>4, <1>6, <1>7 DEF LedgerInv, BooksInv
<1>9. (~saved.sent /\ Tip \in Orders /\ Sellable(Tip) => saved.h.status # "unsent")'
  BY <1>0, <1>1, <1>4 DEF LedgerInv, Sellable
<1>10. LedgerInv'  BY <1>0, <1>6, <1>7, <1>8, <1>9 DEF LedgerInv
<1>11. Clean(books)' <=> Clean(books)  BY <1>7 DEF Clean
<1>12. JournalInv' /\ AskedInv'  BY <1>0, <1>1, <1>11 DEF JournalInv, AskedInv, Fresh
<1>13. Root' = Root /\ Current' = Current /\ NextExit' = NextExit /\ Remaining(pos)' = Remaining(pos)
  BY <1>1 DEF Root, Current, NextExit, Remaining
<1>14. \A x : Sized(x) => Sized(x)'
  <2>1. ASSUME NEW x, Sized(x)  PROVE Sized(x)'
    <3>1. x \in Orders /\ books.row[x].qty <= bought - sold  BY <2>1 DEF Sized
    <3>2. books.row[x].qty \in Nat  BY <1>0, <3>1, RowTypes
    <3>3. books.row[x].qty <= (bought + 1) - sold  BY <1>2, <3>1, <3>2
    <3> QED  BY <1>1, <2>1, <3>3 DEF Sized
  <2> QED  BY <2>1
<1>15. (Sized(Root) => Sized(Root)') /\ (Sized(NextExit) => Sized(NextExit)')
       /\ (Sized(Current) => Sized(Current)')
  <2>1. PICK x, y, z : x = Root /\ y = NextExit /\ z = Current  OBVIOUS
  <2>2. x = Root' /\ y = NextExit' /\ z = Current'  BY <1>13, <2>1
  <2>3. (Sized(x) => Sized(x)') /\ (Sized(y) => Sized(y)') /\ (Sized(z) => Sized(z)')  BY <1>14
  <2> QED  BY <2>1, <2>2, <2>3
<1>16. PlaceInv'  BY <1>0, <1>1, <1>11, <1>13, <1>15 DEF PlaceInv
<1> QED  BY <1>3, <1>10, <1>12, <1>16 DEF OwnInv

\* Nothing but the session changes.
LEMMA BellKeeps ==
  ASSUME OwnInv, Bell, UNCHANGED day
  PROVE  OwnInv'
<1>0. Types /\ LedgerInv /\ JournalInv /\ AskedInv /\ PlaceInv /\ DayTypes  BY OwnParts
<1>1. /\ session' \in Session
      /\ UNCHANGED <<bought, sold, ord, asked, books, saved, mem, pos, pc, ctx>>
  BY DEF Bell, durable, process, Session
<1>2. Types'  BY <1>0, <1>1 DEF Types, DayTypes, BrokerTypes
<1>3. /\ Tip' = Tip /\ GapOf(books, Tip)' = GapOf(books, Tip) /\ LeftOf(Tip)' = LeftOf(Tip)
      /\ (Tip \in Orders /\ Sellable(Tip))' <=> (Tip \in Orders /\ Sellable(Tip))
  BY <1>1 DEF Tip, GapOf, Gap, LeftOf, LeftToSell, Sellable
<1>4. \A p \in Orders : /\ Over(books, p)' <=> Over(books, p)
                        /\ RowInv(books, p)' <=> RowInv(books, p)
                        /\ OrderInv(p)' <=> OrderInv(p)
  BY <1>1 DEF Over, Exact, RowInv, OrderInv, Sellable
<1>5. BooksInv(books, Tip)'  BY <1>0, <1>1, <1>3, <1>4 DEF LedgerInv, BooksInv
<1>6. LedgerInv'  BY <1>0, <1>1, <1>3, <1>4, <1>5 DEF LedgerInv
<1>7. Clean(books)' <=> Clean(books)  BY <1>4 DEF Clean
<1>8. JournalInv' /\ AskedInv'  BY <1>0, <1>1, <1>7 DEF JournalInv, AskedInv, Fresh
<1>9. PlaceInv'
  BY <1>0, <1>1, <1>7 DEF PlaceInv, Sized, Root, Current, NextExit, Remaining
<1> QED  BY <1>2, <1>6, <1>8, <1>9 DEF OwnInv

\* A request arrives, is refused or is lost: the order gains nothing.
LEMMA ArriveMoves ==
  ASSUME OwnInv, NEW o \in Orders, NEW st \in {"held", "lost", "refused"}, Arrive(o, st)
  PROVE  \E w : OrderMoves(o, w) /\ sold' = sold
                /\ w.st = st /\ w.live = (IF st = "held" THEN ord[o].live ELSE {})
                /\ w.qty = ord[o].qty /\ w.filled = ord[o].filled
<1>0. /\ ord \in [Orders -> Order] /\ ord[o] \in Order /\ sold \in Nat
      /\ ord[o].filled["target"] \in Nat /\ ord[o].filled["stop"] \in Nat /\ ord[o].qty \in Nat
      /\ ord[o].live \in SUBSET Leg /\ OrderInv(o)
  BY OwnParts, OrderTypes DEF BrokerTypes, LedgerInv
<1>1. PICK w : w = [ord[o] EXCEPT !.st = st, !.live = IF st = "held" THEN @ ELSE {}]  OBVIOUS
<1>2. /\ w \in Order /\ w.st = st /\ w.live = (IF st = "held" THEN ord[o].live ELSE {})
      /\ w.qty = ord[o].qty /\ w.filled = ord[o].filled
  BY <1>0, <1>1 DEF Order
<1>3. ord[o].st = "flight" /\ sold' = sold  BY DEF Arrive
<1>4. ord' = [ord EXCEPT ![o] = w]
  <2>1. ord' = [ord EXCEPT ![o].st = st, ![o].live = IF st = "held" THEN @ ELSE {}]  BY DEF Arrive
  <2> QED  BY <1>0, <1>1, <2>1
<1>5. ord'[o] = w  BY <1>0, <1>4
<1>6. ord[o] # NoOrder  BY <1>3 DEF NoOrder
<1>7. OrderInv(o)'  BY <1>0, <1>2, <1>3, <1>5 DEF OrderInv, Sellable
<1>8. LeftToSell(o)' \in {0, LeftToSell(o)} /\ LeftToSell(o) \in Nat
  <2>1. LeftToSell(o) \in Nat  BY <1>0, OwnParts, LeftNat
  <2> QED  BY <1>2, <1>3, <1>5, <2>1 DEF LeftToSell, Sellable
<1>9. sold' + LeftToSell(o)' <= sold + LeftToSell(o)  BY <1>0, <1>3, <1>8
<1>10. OrderMoves(o, w)
  BY <1>0, <1>2, <1>3, <1>4, <1>6, <1>7, <1>9 DEF OrderMoves
<1> QED  BY <1>2, <1>3, <1>10

\* A leg ends: the order loses it.
LEMMA EndLegMoves ==
  ASSUME OwnInv, NEW o \in Orders, NEW l \in Leg, EndLeg(o, l)
  PROVE  \E w : OrderMoves(o, w) /\ sold' = sold
                /\ w.st = ord[o].st /\ w.live = ord[o].live \ {l}
                /\ w.qty = ord[o].qty /\ w.filled = ord[o].filled
<1>0. /\ ord \in [Orders -> Order] /\ ord[o] \in Order /\ sold \in Nat
      /\ ord[o].filled["target"] \in Nat /\ ord[o].filled["stop"] \in Nat /\ ord[o].qty \in Nat
      /\ ord[o].live \in SUBSET Leg /\ OrderInv(o)
  BY OwnParts, OrderTypes DEF BrokerTypes, LedgerInv
<1>1. PICK w : w = [ord[o] EXCEPT !.live = @ \ {l}]  OBVIOUS
<1>2. /\ w \in Order /\ w.st = ord[o].st /\ w.live = ord[o].live \ {l}
      /\ w.qty = ord[o].qty /\ w.filled = ord[o].filled
  BY <1>0, <1>1 DEF Order
<1>3. ord[o].st = "held" /\ sold' = sold /\ l \in ord[o].live  BY DEF EndLeg
<1>4. ord' = [ord EXCEPT ![o] = w]
  <2>1. ord' = [ord EXCEPT ![o].live = @ \ {l}]  BY DEF EndLeg
  <2> QED  BY <1>0, <1>1, <2>1
<1>5. ord'[o] = w  BY <1>0, <1>4
<1>6. ord[o] # NoOrder  BY <1>3 DEF NoOrder
<1>7. OrderInv(o)'  BY <1>0, <1>2, <1>3, <1>5 DEF OrderInv, Sellable
<1>8. LeftToSell(o)' \in {0, LeftToSell(o)} /\ LeftToSell(o) \in Nat
  <2>1. LeftToSell(o) \in Nat  BY <1>0, OwnParts, LeftNat
  <2> QED  BY <1>2, <1>3, <1>5, <2>1 DEF LeftToSell, Sellable
<1>9. sold' + LeftToSell(o)' <= sold + LeftToSell(o)  BY <1>0, <1>3, <1>8
<1>10. OrderMoves(o, w)
  BY <1>0, <1>2, <1>3, <1>4, <1>6, <1>7, <1>9 DEF OrderMoves
<1> QED  BY <1>2, <1>3, <1>10

\* A share is sold, one that the order could still sell.
LEMMA FillMoves ==
  ASSUME OwnInv, NEW o \in Orders, NEW l \in Leg, Fill(o, l)
  PROVE  /\ \E w : OrderMoves(o, w)
         /\ sold' = sold + 1 /\ Sellable(o) /\ LeftToSell(o)' = LeftToSell(o) - 1
<1>0. /\ ord \in [Orders -> Order] /\ ord[o] \in Order /\ sold \in Nat
      /\ ord[o].filled["target"] \in Nat /\ ord[o].filled["stop"] \in Nat /\ ord[o].qty \in Nat
      /\ ord[o].filled \in [Leg -> Nat]
      /\ ord[o].live \in SUBSET Leg /\ OrderInv(o)
  BY OwnParts, OrderTypes DEF BrokerTypes, LedgerInv
<1>1. PICK sum : sum = ord[o].filled["target"] + ord[o].filled["stop"]  OBVIOUS
<1>2. PICK f, v : f = [ord[o].filled EXCEPT ![l] = @ + 1]
                  /\ v = IF sum + 1 = ord[o].qty THEN {} ELSE ord[o].live
  OBVIOUS
<1>3. PICK w : w = [ord[o] EXCEPT !.filled = f, !.live = v]  OBVIOUS
<1>4. /\ f \in [Leg -> Nat] /\ f[l] = ord[o].filled[l] + 1 /\ ord[o].filled[l] \in Nat
      /\ \A k \in Leg : k # l => f[k] = ord[o].filled[k]
  BY <1>0, <1>2
<1>5. w \in Order /\ w.st = ord[o].st /\ w.live = v /\ w.qty = ord[o].qty /\ w.filled = f
  BY <1>0, <1>2, <1>3, <1>4 DEF Order
<1>6. ord[o].st = "held" /\ sold' = sold + 1 /\ l \in ord[o].live  BY DEF Fill
<1>7. Sellable(o) /\ sum < ord[o].qty  BY <1>0, <1>1, <1>6 DEF OrderInv, Sellable
<1>8. ord' = [ord EXCEPT ![o] = w]
  <2>1. ord' = [ord EXCEPT ![o].filled[l] = @ + 1,
                           ![o].live = IF sum + 1 = ord[o].qty THEN {} ELSE @]
    BY <1>1 DEF Fill
  <2> QED  BY <1>0, <1>2, <1>3, <2>1
<1>9. ord'[o] = w  BY <1>0, <1>8
<1>10. ord[o] # NoOrder  BY <1>6 DEF NoOrder
<1>11. f["target"] + f["stop"] = sum + 1 /\ f["target"] \in Nat /\ f["stop"] \in Nat
  <2>1. l \in {"target", "stop"} /\ "target" \in Leg /\ "stop" \in Leg  BY DEF Leg
  <2> QED  BY <1>0, <1>1, <1>4, <2>1
<1>12. Sellable(o)' <=> sum + 1 # ord[o].qty  BY <1>2, <1>5, <1>6, <1>9 DEF Sellable
<1>13. OrderInv(o)'
  <2>1. Sellable(o)' => f["target"] + f["stop"] < ord[o].qty
    BY <1>0, <1>1, <1>7, <1>11, <1>12
  <2> QED  BY <1>5, <1>6, <1>9, <2>1 DEF OrderInv
<1>14. LeftToSell(o)' = LeftToSell(o) - 1 /\ LeftToSell(o) \in Nat
  <2>1. LeftToSell(o) = ord[o].qty - ord[o].filled["target"] - ord[o].filled["stop"]
    BY <1>7 DEF LeftToSell
  <2>2. LeftToSell(o)' = IF Sellable(o)' THEN ord[o].qty - f["target"] - f["stop"] ELSE 0
    BY <1>5, <1>9 DEF LeftToSell
  <2> QED  BY <1>0, <1>1, <1>7, <1>11, <1>12, <2>1, <2>2
<1>15. sold' + LeftToSell(o)' <= sold + LeftToSell(o)  BY <1>0, <1>6, <1>14
<1>16. sold' = sold + (w.filled["target"] + w.filled["stop"]
                       - ord[o].filled["target"] - ord[o].filled["stop"])
  BY <1>0, <1>1, <1>5, <1>6, <1>11
<1>17. \A k \in Leg : \/ w.filled[k] = ord[o].filled[k]
                      \/ k \in ord[o].live /\ Sellable(o) /\ w.filled[k] >= ord[o].filled[k]
  BY <1>4, <1>5, <1>6, <1>7
<1>18. OrderMoves(o, w)
  BY <1>2, <1>5, <1>6, <1>8, <1>10, <1>13, <1>15, <1>16, <1>17 DEF OrderMoves
<1> QED  BY <1>6, <1>7, <1>14, <1>18

\* A request arrives, is refused or is lost.
LEMMA ArriveKeeps ==
  ASSUME OwnInv, NEW o \in Orders, NEW st \in {"held", "lost", "refused"}, Arrive(o, st),
         UNCHANGED day
  PROVE  OwnInv'
<1>1. PICK w : OrderMoves(o, w)  BY ArriveMoves
<1>2. StillProcess /\ UNCHANGED <<bought, session>>  BY DEF Arrive, StillProcess, durable, process
<1> QED  BY <1>1, <1>2, MovesKeep

\* A leg ends.
LEMMA EndLegKeeps ==
  ASSUME OwnInv, NEW o \in Orders, NEW l \in Leg, EndLeg(o, l), UNCHANGED day
  PROVE  OwnInv'
<1>1. PICK w : OrderMoves(o, w)  BY EndLegMoves
<1>2. StillProcess /\ UNCHANGED <<bought, session>>  BY DEF EndLeg, StillProcess, durable, process
<1> QED  BY <1>1, <1>2, MovesKeep

\* A share is sold.
LEMMA FillKeeps ==
  ASSUME OwnInv, NEW o \in Orders, NEW l \in Leg, Fill(o, l), UNCHANGED day
  PROVE  OwnInv'
<1>1. PICK w : OrderMoves(o, w)  BY FillMoves
<1>2. StillProcess /\ UNCHANGED <<bought, session>>  BY DEF Fill, StillProcess, durable, process
<1> QED  BY <1>1, <1>2, MovesKeep

------------------------------------------------------------------------------
(* The invariant of the specification.                                      *)

\* At the start there is no order, no row and no handle.
LEMMA OwnStarts ==
  ASSUME Init  PROVE OwnInv
<1>1. /\ day \in Day /\ bought = 0 /\ sold = 0 /\ asked = {} /\ session = day.first
      /\ ord = [o \in Orders |-> NoOrder] /\ pos = NoPosition /\ pc = "idle" /\ ctx = NoContext
      /\ books = [bought |-> 0, sold |-> 0, row |-> [o \in Orders |-> NoRow]]
      /\ mem = [h |-> NoHandle, reason |-> "none", sent |-> FALSE, attempt |-> 0] /\ saved = mem
  BY OwnedExitConstants DEF Init
<1>2. MaxGen \in Nat /\ MaxAttempt \in Nat  BY OwnedExitConstants
<1>3. Zero \in [Leg -> Nat] /\ \A l \in Leg : Zero[l] = 0  BY DEF Zero
<1>4. NoOrder \in Order /\ NoRow \in Row /\ NoHandle \in Handles
  BY <1>2, <1>3 DEF NoOrder, Order, NoRow, Row, NoHandle, Handles
<1>5. Types
  <2>1. DayTypes  BY <1>1 DEF DayTypes, Day
  <2>2. BrokerTypes  BY <1>1, <1>4 DEF BrokerTypes
  <2>3. books \in Books  BY <1>1, <1>4 DEF Books
  <2>4. mem \in Journals /\ saved \in Journals  BY <1>1, <1>2, <1>4 DEF Journals
  <2>5. pos \in Positions  BY <1>1, <2>1 DEF NoPosition, Positions, DayTypes, Day
  <2>6. ctx \in Contexts  BY <1>1 DEF NoContext, Contexts, Leg
  <2> QED  BY <2>1, <2>2, <2>3, <2>4, <2>5, <2>6 DEF Types
<1>6. /\ books.sold = 0 /\ books.bought = 0
      /\ \A o \in Orders : /\ ord[o] = NoOrder /\ books.row[o] = NoRow /\ ~Sellable(o)
                           /\ Over(books, o)
  <2>1. \A o \in Orders : ord[o] = NoOrder /\ books.row[o] = NoRow  BY <1>1
  <2>2. \A o \in Orders : ~Sellable(o)  BY <2>1 DEF Sellable, NoOrder
  <2>3. \A o \in Orders : Exact(books, o)  BY <2>1 DEF Exact, NoOrder, NoRow
  <2> QED  BY <1>1, <2>1, <2>2, <2>3 DEF Over
<1>7. Tip = <<"native", 0>> /\ Tip \notin Orders
  <2>1. Tip = <<"native", 0>>  BY <1>1 DEF Tip, NoHandle
  <2> QED  BY <2>1 DEF Orders, Native, Soft
<1>8. \A o \in Orders : OrderInv(o)  BY <1>6 DEF OrderInv, NoOrder
<1>9. \A o \in Orders : RowInv(books, o)
  BY <1>3, <1>6 DEF RowInv, NoRow, NoOrder
<1>10. BooksInv(books, Tip)
  BY <1>1, <1>5, <1>6, <1>7, <1>9 DEF BooksInv, GapOf, Types
<1>11. LedgerInv  BY <1>1, <1>7, <1>8, <1>10 DEF LedgerInv, LeftOf
<1>12. JournalInv /\ AskedInv  BY <1>1 DEF JournalInv, AskedInv
<1>13. PlaceInv  BY <1>1 DEF PlaceInv
<1> QED  BY <1>5, <1>11, <1>12, <1>13 DEF OwnInv

\* A step that changes nothing.
LEMMA OwnStutters ==
  ASSUME OwnInv, UNCHANGED vars  PROVE OwnInv'
<1>1. UNCHANGED <<day, bought, sold, ord, asked, session, books, saved, mem, pos, pc, ctx>>
  BY DEF vars, broker, durable, process
<1>2. PICK b, p : b = books /\ p = pos  OBVIOUS
<1>3. Types /\ LedgerInv /\ JournalInv /\ AskedInv /\ PlaceInv  BY DEF OwnInv
<1>4. Types'  BY <1>1, <1>3 DEF Types, DayTypes, BrokerTypes
<1>5. Tip' = Tip  BY <1>1 DEF Tip
<1>6. LedgerInv'
  BY <1>1, <1>2, <1>3, <1>5, LedgerStep, OwnParts
<1>7. Clean(books)' <=> Clean(books)  BY <1>1 DEF Clean, Over, Exact, Sellable
<1>8. JournalInv' /\ AskedInv'  BY <1>1, <1>3, <1>7 DEF JournalInv, AskedInv, Fresh
<1>9. PlaceInv'
  BY <1>1, <1>3, <1>7 DEF PlaceInv, Sized, Root, Current, NextExit, Remaining
<1> QED  BY <1>4, <1>6, <1>8, <1>9 DEF OwnInv

\* Every step of the worker, of the broker and of the market keeps the invariant.
LEMMA OwnInductive ==
  ASSUME OwnInv, [Next]_vars  PROVE OwnInv'
<1>1. CASE UNCHANGED vars  BY <1>1, OwnStutters
<1>2. CASE Next
  <2>0. UNCHANGED day  BY <1>2 DEF Next
  <2>1. CASE Refreshes  BY <2>0, <2>1, RefreshKeeps DEF Refreshes
  <2>2. CASE Protects
    <3>1. ASSUME NEW R \in SUBSET Leg, Protect(R)  PROVE OwnInv'  BY <2>0, <3>1, ProtectKeeps
    <3>2. ASSUME NEW fails \in BOOLEAN, Grow(fails)  PROVE OwnInv'  BY <2>0, <3>2, GrowKeeps
    <3>3. CASE Arm  BY <2>0, <3>3, ArmKeeps
    <3>4. CASE Send  BY <2>0, <3>4, SendKeeps
    <3>5. ASSUME NEW got \in BOOLEAN, NEW R \in SUBSET Leg, Ack(got, R)  PROVE OwnInv'
      BY <2>0, <3>5, AckKeeps
    <3> QED  BY <2>2, <3>1, <3>2, <3>3, <3>4, <3>5 DEF Protects
  <2>3. CASE Releases
    <3>1. ASSUME NEW R \in SUBSET Leg, Release(R)  PROVE OwnInv'  BY <2>0, <3>1, ReleaseKeeps
    <3>2. ASSUME NEW R \in SUBSET Leg, Reread(R)  PROVE OwnInv'  BY <2>0, <3>2, RereadKeeps
    <3> QED  BY <2>3, <3>1, <3>2 DEF Releases
  <2>4. CASE Cancels
    <3>1. ASSUME NEW l \in Leg, NEW how \in {"report", "unavailable", "invalid"}, CancelLeg(l, how)
          PROVE  OwnInv'
      BY <2>0, <3>1, CancelLegKeeps
    <3>2. ASSUME NEW seen \in BOOLEAN, CancelWire(seen)  PROVE OwnInv'
      BY <2>0, <3>2, CancelWireKeeps
    <3>3. CASE CancelEnd  BY <2>0, <3>3, CancelEndKeeps
    <3> QED  BY <2>4, <3>1, <3>2, <3>3 DEF Cancels
  <2>5. CASE Decides
    <3>1. ASSUME NEW r \in {Target, Mandatory}, Decide(r)  PROVE OwnInv'
      BY <2>0, <3>1, DecideKeeps
    <3>2. CASE DecideNothing  BY <2>0, <3>2, PassEnds
    <3> QED  BY <2>5, <3>1, <3>2 DEF Decides
  <2>6. CASE ExitLatch  BY <2>0, <2>6, ExitLatchKeeps
  <2>7. CASE Watches
    <3>1. ASSUME NEW seen \in BOOLEAN, Watch(seen)  PROVE OwnInv'  BY <2>0, <3>1, WatchKeeps
    <3>2. ASSUME NEW seen \in BOOLEAN, Chase(seen)  PROVE OwnInv'  BY <2>0, <3>2, ChaseKeeps
    <3>3. ASSUME NEW seen \in BOOLEAN, Rewatch(seen)  PROVE OwnInv'  BY <2>0, <3>3, RewatchKeeps
    <3> QED  BY <2>7, <3>1, <3>2, <3>3 DEF Watches
  <2>8. CASE Sells
    <3>1. ASSUME NEW avail \in 0..MaxBuy, Claim(avail)  PROVE OwnInv'  BY <2>0, <3>1, ClaimKeeps
    <3>2. ASSUME NEW fails \in BOOLEAN, Prepare(fails)  PROVE OwnInv'  BY <2>0, <3>2, PrepareKeeps
    <3>3. CASE SentLatch  BY <2>0, <3>3, SentLatchKeeps
    <3>4. CASE Go  BY <2>0, <3>4, GoKeeps
    <3>5. CASE AbandonUnsent  BY <2>0, <3>5, AbandonKeeps
    <3>6. CASE Rearm  BY <2>0, <3>6, RearmKeeps
    <3>7. ASSUME NEW got \in BOOLEAN, Done(got)  PROVE OwnInv'  BY <2>0, <3>7, DoneKeeps
    <3> QED  BY <2>8, <3>1, <3>2, <3>3, <3>4, <3>5, <3>6, <3>7 DEF Sells
  <2>9. CASE Return  BY <2>0, <2>9, PassEnds
  <2>10. CASE Crash  BY <2>0, <2>10, CrashKeeps
  <2>11. CASE Buy  BY <2>0, <2>11, BuyKeeps
  <2>12. CASE Bell  BY <2>0, <2>12, BellKeeps
  <2>13. ASSUME NEW o \in Orders, NEW st \in {"held", "lost", "refused"}, Arrive(o, st)
         PROVE  OwnInv'
    BY <2>0, <2>13, ArriveKeeps
  <2>14. ASSUME NEW o \in Orders, NEW l \in Leg, Fill(o, l)  PROVE OwnInv'
    BY <2>0, <2>14, FillKeeps
  <2>15. ASSUME NEW o \in Orders, NEW l \in Leg, EndLeg(o, l)  PROVE OwnInv'
    BY <2>0, <2>15, EndLegKeeps
  <2>16. CASE Worker
    BY <2>1, <2>2, <2>3, <2>4, <2>5, <2>6, <2>7, <2>8, <2>9, <2>16 DEF Worker
  <2>17. CASE Market  BY <2>11, <2>12, <2>13, <2>14, <2>15, <2>17 DEF Market
  <2> QED  BY <1>2, <2>10, <2>16, <2>17 DEF Next
<1> QED  BY <1>1, <1>2

\* The invariant holds whatever the day, the number of shares, of protective orders, of
\* software exits and of restarts.
THEOREM OwnAlways == Spec => []OwnInv
<1>1. Init => OwnInv  BY OwnStarts
<1>2. OwnInv /\ [Next]_vars => OwnInv'  BY OwnInductive
<1> QED  BY <1>1, <1>2, PTL DEF Spec

------------------------------------------------------------------------------
(* What the invariant says of the exits.                                    *)

\* Only the order the saved journal names can sell, over a row that is still open.
LEMMA OneSells ==
  ASSUME OwnInv, NEW o \in Orders, Sellable(o)
  PROVE  o = Tip /\ books.row[o].st = "pending"
<1>1. RowInv(books, o) /\ (o # Tip => Over(books, o)) /\ books \in Books
  BY OwnParts DEF LedgerInv, BooksInv
<1>2. o = Tip  BY <1>1 DEF Over
<1>3. books.row[o].st \notin {"none", "aborted"}  BY <1>1 DEF RowInv, NoOrder, Sellable
<1>4. books.row[o].st # "done"  BY <1>1 DEF RowInv, Over
<1> QED  BY <1>1, <1>2, <1>3, <1>4, RowTypes

\* OneTree: at most one of the episode's sell orders can sell at any time.
THEOREM OneTreeAlways == Spec => []OneTree
<1>1. OwnInv => OneTree
  <2> SUFFICES ASSUME OwnInv PROVE OneTree  OBVIOUS
  <2> DEFINE S == {o \in Orders : Sellable(o)}
  <2>1. S \subseteq {Tip}  BY OneSells
  <2>2. IsFiniteSet({Tip}) /\ Cardinality({Tip}) = 1  BY FS_Singleton
  <2>3. Cardinality(S) <= Cardinality({Tip})
    <3> HIDE DEF S
    <3> QED  BY <2>1, <2>2, FS_Subset
  <2> QED  BY <2>2, <2>3 DEF OneTree
<1> QED  BY <1>1, OwnAlways, PTL

\* RecoverableWire: what can sell is what a restarted process reads back.
THEOREM RecoverableAlways == Spec => []RecoverableWire
<1>1. OwnInv => RecoverableWire
  <2> SUFFICES ASSUME OwnInv, NEW o \in Orders, Sellable(o)
               PROVE  /\ books.row[o].st = "pending"
                      /\ \/ o = <<"native", saved.h.gen>> /\ saved.h.status # "unsent"
                         \/ o = <<"soft", saved.attempt>> /\ saved.sent
    BY DEF RecoverableWire
  <2>1. o = Tip /\ books.row[o].st = "pending"  BY OneSells
  <2>2. CASE saved.sent  BY <2>1, <2>2 DEF Tip
  <2>3. CASE ~saved.sent
    <3>1. saved.h.status # "unsent"  BY <2>1, <2>3, OwnParts DEF LedgerInv
    <3> QED  BY <2>1, <2>3, <3>1 DEF Tip
  <2> QED  BY <2>2, <2>3
<1> QED  BY <1>1, OwnAlways, PTL

\* LegCancelledOnce: the leg whose cancel is about to go out has not been asked for.
THEOREM CancelledOnceAlways == Spec => []LegCancelledOnce
<1>1. OwnInv => LegCancelledOnce  BY DEF OwnInv, PlaceInv, LegCancelledOnce
<1> QED  BY <1>1, OwnAlways, PTL

\* BooksExact: the books lag the broker, never lead it, and an ended row has it all.
THEOREM BooksAlways == Spec => []BooksExact
<1>1. OwnInv => BooksExact
  <2> SUFFICES ASSUME OwnInv PROVE BooksExact  OBVIOUS
  <2>1. /\ books \in Books /\ books.bought <= bought /\ sold = books.sold + GapOf(books, Tip)
        /\ \A o \in Orders : RowInv(books, o)
        /\ BrokerTypes
    BY OwnParts DEF LedgerInv, BooksInv
  <2>2. \A o \in Orders : Gap(books, o) \in Nat
    <3> TAKE o \in Orders
    <3>1. /\ books.row[o].rec["target"] <= ord[o].filled["target"]
          /\ books.row[o].rec["stop"] <= ord[o].filled["stop"]
      BY <2>1 DEF RowInv, Leg
    <3>2. /\ books.row[o].rec["target"] \in Nat /\ books.row[o].rec["stop"] \in Nat
          /\ ord[o].filled["target"] \in Nat /\ ord[o].filled["stop"] \in Nat
      BY <2>1, RowTypes, OrderTypes
    <3> QED  BY <3>1, <3>2 DEF Gap
  <2>3. GapOf(books, Tip) \in Nat /\ books.sold \in Nat  BY <2>1, <2>2 DEF GapOf, Books
  <2>4. books.sold <= sold  BY <2>1, <2>3
  <2>5. ASSUME NEW o \in Orders, books.row[o].st = "done"  PROVE books.row[o].rec = ord[o].filled
    <3>1. Exact(books, o)  BY <2>1, <2>5 DEF RowInv, Over
    <3>2. books.row[o].rec \in [Leg -> Nat] /\ ord[o].filled \in [Leg -> Nat]
      BY <2>1, RowTypes, OrderTypes
    <3> QED  BY <3>1, <3>2 DEF Exact
  <2> QED  BY <2>1, <2>4, <2>5 DEF BooksExact
<1> QED  BY <1>1, OwnAlways, PTL

------------------------------------------------------------------------------
(* The episode implements SellBudget.                                       *)

\* An episode has finitely many sell orders.
LEMMA OrdersFinite == IsFiniteSet(Orders)
<1>1. IsFiniteSet(1..MaxGen) /\ IsFiniteSet(1..MaxAttempt)
  <2>1. MaxGen \in Int /\ MaxAttempt \in Int /\ 1 \in Int  BY OwnedExitConstants
  <2> QED  BY <2>1, FS_Interval
<1>2. IsFiniteSet({"native"}) /\ IsFiniteSet({"soft"})  BY FS_Singleton
<1>3. IsFiniteSet(Native) /\ IsFiniteSet(Soft)  BY <1>1, <1>2, FS_Product DEF Native, Soft
<1> QED  BY <1>3, FS_Union DEF Orders

\* All that may still be sold, the one open order may sell.
LEMMA OpenIsTip ==
  ASSUME OwnInv
  PROVE  OpenQty = LeftOf(Tip) /\ OpenQty \in Nat
<1> DEFINE f == [o \in Orders |-> LeftToSell(o)]
           z == [o \in Orders |-> 0]
<1>1. \A o \in Orders : LeftToSell(o) \in Nat  BY OwnParts, LeftNat DEF LedgerInv
<1>2. \A o \in Orders : o # Tip => LeftToSell(o) = 0  BY OneSells DEF LeftToSell
<1>3. IsFiniteSet(Orders)  BY OrdersFinite
<1>4. OpenQty = Total(f, Orders)  BY DEF OpenQty
<1>5. \A o \in Orders : f[o] = LeftToSell(o) /\ z[o] = 0  OBVIOUS
<1> HIDE DEF f, z
<1>6. Total(z, Orders) = 0  BY <1>3, <1>5, TotalZero
<1>7. CASE Tip \in Orders
  <2>1. PICK t \in Orders : t = Tip  BY <1>7
  <2>2. \A o \in Orders \ {t} : f[o] = z[o]  BY <1>2, <1>5, <2>1
  <2>3. Total(f, Orders) = Total(z, Orders) + (f[t] - z[t])
    <3>1. \A o \in Orders : f[o] \in Int /\ z[o] \in Int  BY <1>1, <1>5
    <3> QED  BY <1>3, <2>2, <3>1, TotalChange
  <2>4. Total(f, Orders) = LeftToSell(t)  BY <1>1, <1>5, <1>6, <2>3
  <2> QED  BY <1>1, <1>4, <1>7, <2>1, <2>4 DEF LeftOf
<1>8. CASE Tip \notin Orders
  <2>1. \A o \in Orders : f[o] = 0  BY <1>2, <1>5, <1>8
  <2>2. Total(f, Orders) = 0  BY <1>3, <2>1, TotalZero
  <2> QED  BY <1>4, <1>8, <2>2 DEF LeftOf
<1> QED  BY <1>7, <1>8

\* A step that leaves the orders alone leaves what they may sell alone.
LEMMA OpenStays ==
  ASSUME UNCHANGED ord  PROVE OpenQty' = OpenQty
BY DEF OpenQty, LeftToSell, Sellable

\* When one order changes, what may be sold changes as that order does.
LEMMA OpenMoves ==
  ASSUME OwnInv, NEW o \in Orders, LeftToSell(o)' \in Int,
         \A p \in Orders : p # o => ord'[p] = ord[p]
  PROVE  OpenQty' = OpenQty + (LeftToSell(o)' - LeftToSell(o))
<1>1. PICK f : f = [p \in Orders |-> LeftToSell(p)]  OBVIOUS
<1>2. PICK g : g = [p \in Orders |-> LeftToSell(p)']  OBVIOUS
<1>3. OpenQty = Total(f, Orders)  BY <1>1 DEF OpenQty
<1>4. OpenQty' = Total(g, Orders)  BY <1>2 DEF OpenQty
<1>5. \A p \in Orders : p # o => LeftToSell(p)' = LeftToSell(p)  BY DEF LeftToSell, Sellable
<1>6. \A p \in Orders : LeftToSell(p) \in Nat  BY OwnParts, LeftNat DEF LedgerInv
<1>7. \A p \in Orders : f[p] \in Int /\ g[p] \in Int  BY <1>1, <1>2, <1>5, <1>6
<1>8. \A p \in Orders \ {o} : g[p] = f[p]  BY <1>1, <1>2, <1>5
<1>9. Total(g, Orders) = Total(f, Orders) + (g[o] - f[o])
  BY <1>7, <1>8, OrdersFinite, TotalChange
<1>10. g[o] = LeftToSell(o)' /\ f[o] = LeftToSell(o)  BY <1>1, <1>2
<1> QED  BY <1>3, <1>4, <1>9, <1>10

\* An order that stops selling closes the budget's open shares.
LEMMA ClosesBudget ==
  ASSUME OwnInv, NEW o \in Orders, \A p \in Orders : p # o => ord'[p] = ord[p],
         LeftToSell(o)' \in {0, LeftToSell(o)}, UNCHANGED <<bought, sold>>
  PROVE  Budget!Close \/ UNCHANGED Budget!budget
<1>1. LeftToSell(o) \in Nat /\ (Sellable(o) => LeftToSell(o) > 0)  BY OwnParts, LeftNat DEF LedgerInv
<1>2. OpenQty' = OpenQty + (LeftToSell(o)' - LeftToSell(o))  BY <1>1, OpenMoves
<1>3. OpenQty \in Nat  BY OpenIsTip
<1>4. CASE LeftToSell(o)' = LeftToSell(o)
  <2>1. OpenQty' = OpenQty  BY <1>1, <1>2, <1>3, <1>4
  <2> QED  BY <2>1 DEF Budget!budget
<1>5. CASE LeftToSell(o)' = 0 /\ LeftToSell(o) # 0
  <2>1. Sellable(o)  BY <1>5 DEF LeftToSell
  <2>2. OpenQty = LeftToSell(o)
    <3>1. o = Tip  BY <2>1, OneSells
    <3> QED  BY <3>1, OpenIsTip DEF LeftOf
  <2>3. OpenQty > 0 /\ OpenQty' = 0  BY <1>1, <1>2, <1>3, <1>5, <2>1, <2>2
  <2> QED  BY <2>3 DEF Budget!Close
<1> QED  BY <1>4, <1>5

\* A request that does not arrive, and a leg that ends.
LEMMA ArriveBudget ==
  ASSUME OwnInv, NEW o \in Orders, NEW st \in {"held", "lost", "refused"}, Arrive(o, st)
  PROVE  Budget!Close \/ UNCHANGED Budget!budget
<1>1. PICK w : OrderMoves(o, w) /\ sold' = sold
               /\ w.st = st /\ w.live = (IF st = "held" THEN ord[o].live ELSE {})
               /\ w.qty = ord[o].qty /\ w.filled = ord[o].filled
  BY ArriveMoves
<1>2. ord \in [Orders -> Order]  BY OwnParts DEF BrokerTypes
<1>3. ord'[o] = w /\ \A p \in Orders : p # o => ord'[p] = ord[p]  BY <1>1, <1>2 DEF OrderMoves
<1>4. ord[o].st = "flight" /\ bought' = bought  BY DEF Arrive
<1>5. LeftToSell(o)' \in {0, LeftToSell(o)}  BY <1>1, <1>3, <1>4 DEF LeftToSell, Sellable
<1> QED  BY <1>1, <1>3, <1>4, <1>5, ClosesBudget

\* A leg that ends closes the order when it was the last one.
LEMMA EndLegBudget ==
  ASSUME OwnInv, NEW o \in Orders, NEW l \in Leg, EndLeg(o, l)
  PROVE  Budget!Close \/ UNCHANGED Budget!budget
<1>1. PICK w : /\ OrderMoves(o, w) /\ sold' = sold
               /\ w.st = ord[o].st /\ w.live = ord[o].live \ {l}
               /\ w.qty = ord[o].qty /\ w.filled = ord[o].filled
  BY EndLegMoves
<1>2. ord \in [Orders -> Order]  BY OwnParts DEF BrokerTypes
<1>3. ord'[o] = w /\ \A p \in Orders : p # o => ord'[p] = ord[p]  BY <1>1, <1>2 DEF OrderMoves
<1>4. ord[o].st = "held" /\ bought' = bought  BY DEF EndLeg
<1>5. LeftToSell(o)' \in {0, LeftToSell(o)}  BY <1>1, <1>3, <1>4 DEF LeftToSell, Sellable
<1> QED  BY <1>1, <1>3, <1>4, <1>5, ClosesBudget

\* A share sold is one the open order could sell.
LEMMA FillBudget ==
  ASSUME OwnInv, NEW o \in Orders, NEW l \in Leg, Fill(o, l)
  PROVE  Budget!Fill
<1>1. /\ \E w : OrderMoves(o, w)
      /\ sold' = sold + 1 /\ Sellable(o) /\ LeftToSell(o)' = LeftToSell(o) - 1
  BY FillMoves
<1>2. ord \in [Orders -> Order]  BY OwnParts DEF BrokerTypes
<1>3. \A p \in Orders : p # o => ord'[p] = ord[p]  BY <1>1, <1>2 DEF OrderMoves
<1>4. LeftToSell(o) \in Nat /\ LeftToSell(o) > 0  BY <1>1, OwnParts, LeftNat DEF LedgerInv
<1>5. OpenQty' = OpenQty + (LeftToSell(o)' - LeftToSell(o))
  <2>1. LeftToSell(o)' \in Int  BY <1>1, <1>4
  <2> QED  BY <1>3, <2>1, OpenMoves
<1>6. OpenQty = LeftToSell(o)
  <2>1. o = Tip  BY <1>1, OneSells
  <2> QED  BY <2>1, OpenIsTip DEF LeftOf
<1>7. OpenQty > 0 /\ OpenQty' = OpenQty - 1  BY <1>1, <1>4, <1>5, <1>6
<1>8. bought' = bought  BY DEF Fill
<1> QED  BY <1>1, <1>7, <1>8 DEF Budget!Fill

\* An order put on the wire is covered by what is neither sold nor on another order.
LEMMA PlacesBudget ==
  ASSUME OwnInv, Clean(books), NEW o, Sized(o), ord' = [ord EXCEPT ![o] = Wired(o)],
         UNCHANGED <<bought, sold>>
  PROVE  \E n \in 1..bought : Budget!Place(n)
<1>0. BrokerTypes /\ books \in Books /\ ord \in [Orders -> Order] /\ bought \in Nat /\ sold \in Nat
  BY OwnParts DEF BrokerTypes
<1>1. /\ o \in Orders /\ books.row[o].legs # {} /\ ord[o] = NoOrder
      /\ books.row[o].qty > 0 /\ books.row[o].qty <= bought - sold
  BY DEF Sized
<1>2. PICK n : n = books.row[o].qty  OBVIOUS
<1>3. n \in Nat /\ n \in 1..bought  BY <1>0, <1>1, <1>2, RowTypes
<1>4. \A p \in Orders : ~Sellable(p)  BY DEF Clean, Over
<1>5. OpenQty = 0
  <2>1. OpenQty = LeftOf(Tip)  BY OpenIsTip
  <2> QED  BY <1>4, <2>1 DEF LeftOf, LeftToSell
<1>6. LeftToSell(o) = 0  BY <1>1, <1>4 DEF LeftToSell
<1>7. PICK w : w = Wired(o)  OBVIOUS
<1>8. /\ w.st = "flight" /\ w.qty = n /\ w.live = books.row[o].legs
      /\ w.filled["target"] = 0 /\ w.filled["stop"] = 0
  BY <1>2, <1>7 DEF Wired, NoOrder, Zero, Leg
<1>9. ord'[o] = w /\ \A p \in Orders : p # o => ord'[p] = ord[p]  BY <1>0, <1>1, <1>7
<1>10. LeftToSell(o)' = n  BY <1>1, <1>3, <1>8, <1>9 DEF LeftToSell, Sellable
<1>11. OpenQty' = OpenQty + (LeftToSell(o)' - LeftToSell(o))
  <2>1. LeftToSell(o)' \in Int  BY <1>3, <1>10
  <2> QED  BY <1>1, <1>9, <2>1, OpenMoves
<1>12. OpenQty' = OpenQty + n  BY <1>3, <1>5, <1>6, <1>10, <1>11
<1>13. sold + OpenQty + n <= bought  BY <1>0, <1>1, <1>2, <1>3, <1>5
<1>14. Budget!Place(n)  BY <1>12, <1>13 DEF Budget!Place
<1> QED  BY <1>3, <1>14

\* Every step of the episode is a step of the budget, or leaves it alone.
LEMMA BudgetSteps ==
  ASSUME OwnInv, [Next]_vars  PROVE [Budget!Next]_(Budget!budget)
<1>1. ASSUME UNCHANGED <<bought, sold, ord>>  PROVE UNCHANGED Budget!budget
  BY <1>1, OpenStays DEF Budget!budget
<1>2. CASE UNCHANGED vars  BY <1>1, <1>2 DEF vars, broker
<1>3. CASE Refreshes  BY <1>1, <1>3 DEF Refreshes, Refresh, broker
<1>4. CASE Send
  <2>1. Clean(books) /\ Sized(Root)  BY <1>4 DEF OwnInv, PlaceInv, Send
  <2>2. PICK o : o = Root  OBVIOUS
  <2>3. ord' = [ord EXCEPT ![o] = Wired(o)] /\ UNCHANGED <<bought, sold>>  BY <1>4, <2>2 DEF Send
  <2>4. \E n \in 1..bought : Budget!Place(n)  BY <2>1, <2>2, <2>3, PlacesBudget
  <2> QED  BY <2>4 DEF Budget!Next
<1>5. CASE Go
  <2>1. Clean(books) /\ Sized(Current)  BY <1>5 DEF OwnInv, PlaceInv, Go
  <2>2. PICK o : o = Current  OBVIOUS
  <2>3. ord' = [ord EXCEPT ![o] = Wired(o)] /\ UNCHANGED <<bought, sold>>  BY <1>5, <2>2 DEF Go
  <2>4. \E n \in 1..bought : Budget!Place(n)  BY <2>1, <2>2, <2>3, PlacesBudget
  <2> QED  BY <2>4 DEF Budget!Next
<1>6. CASE Protects
  <2>1. ASSUME NEW R \in SUBSET Leg, Protect(R)  PROVE UNCHANGED <<bought, sold, ord>>
    BY <2>1 DEF Protect, broker
  <2>2. ASSUME NEW fails \in BOOLEAN, Grow(fails)  PROVE UNCHANGED <<bought, sold, ord>>
    BY <2>2 DEF Grow, broker
  <2>3. CASE Arm  BY <1>1, <2>3 DEF Arm, broker
  <2>4. ASSUME NEW got \in BOOLEAN, NEW R \in SUBSET Leg, Ack(got, R)
        PROVE  UNCHANGED <<bought, sold, ord>>
    BY <2>4 DEF Ack, broker
  <2> QED  BY <1>1, <1>4, <1>6, <2>1, <2>2, <2>3, <2>4 DEF Protects
<1>7. CASE Releases
  <2>1. ASSUME NEW R \in SUBSET Leg, Release(R)  PROVE UNCHANGED <<bought, sold, ord>>
    BY <2>1 DEF Release, broker
  <2>2. ASSUME NEW R \in SUBSET Leg, Reread(R)  PROVE UNCHANGED <<bought, sold, ord>>
    BY <2>2 DEF Reread, broker
  <2> QED  BY <1>1, <1>7, <2>1, <2>2 DEF Releases
<1>8. CASE Cancels
  <2>1. ASSUME NEW l \in Leg, NEW how \in {"report", "unavailable", "invalid"}, CancelLeg(l, how)
        PROVE  UNCHANGED <<bought, sold, ord>>
    BY <2>1 DEF CancelLeg, broker
  <2>2. ASSUME NEW seen \in BOOLEAN, CancelWire(seen)  PROVE UNCHANGED <<bought, sold, ord>>
    BY <2>2 DEF CancelWire, broker
  <2>3. CASE CancelEnd  BY <1>1, <2>3 DEF CancelEnd, broker
  <2> QED  BY <1>1, <1>8, <2>1, <2>2, <2>3 DEF Cancels
<1>9. CASE Decides  BY <1>1, <1>9 DEF Decides, Decide, DecideNothing, broker
<1>10. CASE ExitLatch  BY <1>1, <1>10 DEF ExitLatch, broker
<1>11. CASE Watches
  <2>1. ASSUME NEW seen \in BOOLEAN, Watch(seen) \/ Chase(seen) \/ Rewatch(seen)
        PROVE  UNCHANGED <<bought, sold, ord>>
    BY <2>1 DEF Watch, Chase, Rewatch, broker
  <2> QED  BY <1>1, <1>11, <2>1 DEF Watches
<1>12. CASE Sells
  <2>1. ASSUME NEW avail \in 0..MaxBuy, Claim(avail)  PROVE UNCHANGED <<bought, sold, ord>>
    BY <2>1 DEF Claim, broker
  <2>2. ASSUME NEW fails \in BOOLEAN, Prepare(fails)  PROVE UNCHANGED <<bought, sold, ord>>
    BY <2>2 DEF Prepare, broker
  <2>3. CASE SentLatch \/ AbandonUnsent \/ Rearm
    BY <1>1, <2>3 DEF SentLatch, AbandonUnsent, Rearm, broker
  <2>4. ASSUME NEW got \in BOOLEAN, Done(got)  PROVE UNCHANGED <<bought, sold, ord>>
    BY <2>4 DEF Done, broker
  <2> QED  BY <1>1, <1>5, <1>12, <2>1, <2>2, <2>3, <2>4 DEF Sells
<1>13. CASE Return \/ Crash  BY <1>1, <1>13 DEF Return, Crash, broker
<1>14. CASE Buy
  <2>1. bought' = bought + 1 /\ UNCHANGED <<sold, ord>>  BY <1>14 DEF Buy
  <2>2. OpenQty' = OpenQty  BY <2>1, OpenStays
  <2> QED  BY <2>1, <2>2 DEF Budget!Next, Budget!Buy
<1>15. CASE Bell  BY <1>1, <1>15 DEF Bell
<1>16. ASSUME NEW o \in Orders, NEW st \in {"held", "lost", "refused"}, Arrive(o, st)
       PROVE  [Budget!Next]_(Budget!budget)
  BY <1>16, ArriveBudget DEF Budget!Next
<1>17. ASSUME NEW o \in Orders, NEW l \in Leg, Fill(o, l) \/ EndLeg(o, l)
       PROVE  [Budget!Next]_(Budget!budget)
  BY <1>17, FillBudget, EndLegBudget DEF Budget!Next
<1>18. CASE Worker
  BY <1>3, <1>6, <1>7, <1>8, <1>9, <1>10, <1>11, <1>12, <1>13, <1>18 DEF Worker
<1>19. CASE Market  BY <1>14, <1>15, <1>16, <1>17, <1>19 DEF Market
<1> QED  BY <1>2, <1>13, <1>18, <1>19 DEF Next

\* BudgetKept: the detailed exits implement SellBudget.
THEOREM BudgetAlways == Spec => BudgetKept
<1>1. Init => Budget!Init
  <2> SUFFICES ASSUME Init PROVE Budget!Init  OBVIOUS
  <2>1. OwnInv /\ bought = 0 /\ sold = 0 /\ ord = [o \in Orders |-> NoOrder]
    BY OwnStarts DEF Init
  <2>2. \A o \in Orders : LeftToSell(o) = 0  BY <2>1 DEF LeftToSell, Sellable, NoOrder
  <2>3. OpenQty = 0  BY <2>1, <2>2, OpenIsTip DEF LeftOf
  <2> QED  BY <2>1, <2>3 DEF Budget!Init
<1>2. OwnInv /\ [Next]_vars => [Budget!Next]_(Budget!budget)  BY BudgetSteps
<1> QED  BY <1>1, <1>2, OwnAlways, PTL DEF Spec, BudgetKept, Budget!Spec

\* What SellBudget promises whoever implements it: shares sold and shares on offer are
\* bought shares.
LEMMA BudgetCovers == Budget!Spec => []Budget!Covered
<1> DEFINE Inv == bought \in Nat /\ sold \in Nat /\ OpenQty \in Nat /\ Budget!Covered
<1>1. Budget!Init => Inv  BY DEF Budget!Init, Budget!Covered
<1>2. Inv /\ [Budget!Next]_(Budget!budget) => Inv'
  <2> SUFFICES ASSUME Inv, [Budget!Next]_(Budget!budget) PROVE Inv'  OBVIOUS
  <2>1. CASE Budget!Buy \/ Budget!Fill \/ Budget!Close
    BY <2>1 DEF Budget!Buy, Budget!Fill, Budget!Close, Budget!Covered
  <2>2. ASSUME NEW n \in 1..bought, Budget!Place(n)  PROVE Inv'
    BY <2>2 DEF Budget!Place, Budget!Covered
  <2>3. CASE UNCHANGED Budget!budget  BY <2>3 DEF Budget!budget, Budget!Covered
  <2> QED  BY <2>1, <2>2, <2>3 DEF Budget!Next
<1>3. Inv => Budget!Covered  OBVIOUS
<1> QED  BY <1>1, <1>2, <1>3, PTL DEF Budget!Spec

\* So the exits never have more shares sold and on offer than the entry bought, whatever
\* was lost, filled late or restarted: the rule of lifecycle.py and protection.py that a
\* sell never exceeds the owned remainder, inherited through the refinement.
THEOREM NeverOversold == Spec => []Budget!Covered
BY BudgetAlways, BudgetCovers, PTL DEF BudgetKept

------------------------------------------------------------------------------
(****************************************************************************)
(* One worker for an episode.  OwnedExit has one worker act for the entry   *)
(* at a time; that is what the episode work queue promises, for any set of  *)
(* episodes, any number of workers and any size of the queue.               *)
(*                                                                          *)
(* SingleFlight is not inductive as it stands: that the head of the queue   *)
(* leaves pending for good needs a queue without repetitions, and that a    *)
(* worker which ends its turn has an episode to give back needs that only   *)
(* a worker with an episode is past the lock.                               *)
(****************************************************************************)

\* The queue, its index pending and the sets beside it agree.
Lined(q) ==
  /\ q \in Work /\ Len(q.queue) <= Slots
  /\ \A a, b \in 1..Len(q.queue) : q.queue[a] = q.queue[b] => a = b
  /\ \A i \in Ids : i \in q.pending <=> \E a \in 1..Len(q.queue) : q.queue[a] = i
  /\ IsFiniteSet(q.pending) /\ Cardinality(q.pending) = Len(q.queue)
  /\ q.pending \cap q.running = {} /\ q.dirty \subseteq q.running

\* Running is what the workers hold, no two the same, and one of them has the lock.
Held ==
  /\ work.running = {turn[w].id : w \in Workers} \ {Free}
  /\ \A v, w \in Workers : turn[v].id = turn[w].id /\ turn[v].id # Free => v = w
  /\ \A w \in Workers : turn[w].serving => turn[w].id # Free /\ lock = w

\* The inductive invariant.
FlightInv == QueueTypeOK /\ Lined(work) /\ Held

\* Queueing an id that is neither queued nor running keeps the queue in order.
LEMMA PutLined ==
  ASSUME NEW q, NEW i \in Ids, Lined(q), i \notin q.pending, i \notin q.running, Len(q.queue) < Slots
  PROVE  Lined(Put(q, i)) /\ Put(q, i).running = q.running
<1> DEFINE p == Put(q, i)
<1>0. q \in Work /\ q.queue \in Seq(Ids) /\ Append(q.queue, i) \in Seq(Ids)
  BY DEF Lined, Work
<1>1. /\ p \in Work /\ p.running = q.running /\ p.dirty = q.dirty
      /\ p.pending = q.pending \cup {i} /\ p.queue = Append(q.queue, i)
  BY <1>0 DEF Put, Work
<1>2. /\ Len(p.queue) = Len(q.queue) + 1 /\ p.queue[Len(q.queue) + 1] = i
      /\ \A a \in 1..Len(q.queue) : p.queue[a] = q.queue[a]
      /\ Len(q.queue) \in Nat
  BY <1>0, <1>1 DEF Work
<1>3. IsFiniteSet(p.pending) /\ Cardinality(p.pending) = Len(p.queue)
  <2>1. IsFiniteSet(q.pending) /\ Cardinality(q.pending) = Len(q.queue)  BY DEF Lined
  <2>2. IsFiniteSet(q.pending \cup {i}) /\ Cardinality(q.pending \cup {i}) = Cardinality(q.pending) + 1
    BY <2>1, FS_AddElement
  <2> QED  BY <1>1, <1>2, <2>1, <2>2
<1>4. \A a, b \in 1..Len(p.queue) : p.queue[a] = p.queue[b] => a = b
  <2> SUFFICES ASSUME NEW a \in 1..(Len(q.queue) + 1), NEW b \in 1..(Len(q.queue) + 1),
                      p.queue[a] = p.queue[b]
               PROVE  a = b
    BY <1>2
  <2>1. \A c \in 1..Len(q.queue) : p.queue[c] # i
    BY <1>2, i \notin q.pending DEF Lined
  <2>2. CASE a = Len(q.queue) + 1  BY <2>1, <2>2, <1>2
  <2>3. CASE b = Len(q.queue) + 1  BY <2>1, <2>3, <1>2
  <2>4. CASE a \in 1..Len(q.queue) /\ b \in 1..Len(q.queue)  BY <2>4, <1>2 DEF Lined
  <2> QED  BY <2>2, <2>3, <2>4, <1>2
<1>5. \A j \in Ids : j \in p.pending <=> \E a \in 1..Len(p.queue) : p.queue[a] = j
  <2> TAKE j \in Ids
  <2>1. j \in q.pending <=> \E a \in 1..Len(q.queue) : q.queue[a] = j  BY DEF Lined
  <2>2. (\E a \in 1..Len(p.queue) : p.queue[a] = j) <=> (j = i \/ \E a \in 1..Len(q.queue) : q.queue[a] = j)
    BY <1>2
  <2> QED  BY <2>1, <2>2, <1>1
<1>6. p.pending \cap p.running = {} /\ p.dirty \subseteq p.running
  BY <1>1 DEF Lined
<1>7. Len(p.queue) <= Slots  BY <1>2, QueueConstants
<1> QED  BY <1>1, <1>3, <1>4, <1>5, <1>6, <1>7 DEF Lined

\* offer() keeps the queue in order and starts nothing.
LEMMA OfferLined ==
  ASSUME NEW q, NEW i \in Ids, Lined(q)
  PROVE  Lined(Offer(q, i)) /\ Offer(q, i).running = q.running
<1>1. CASE i \in q.owners /\ i \in q.running
  <2>1. Offer(q, i) = [q EXCEPT !.dirty = @ \cup {i}]  BY <1>1 DEF Offer
  <2> QED  BY <1>1, <2>1 DEF Lined, Work
<1>2. CASE i \in q.owners \ (q.running \cup q.pending) /\ Len(q.queue) < Slots
  <2>1. Offer(q, i) = Put(q, i)  BY <1>2 DEF Offer
  <2> QED  BY <1>2, <2>1, PutLined
<1>3. CASE ~(i \in q.owners /\ i \in q.running)
           /\ ~(i \in q.owners \ (q.running \cup q.pending) /\ Len(q.queue) < Slots)
  <2>1. Offer(q, i) = q  BY <1>3 DEF Offer
  <2> QED  BY <2>1
<1> QED  BY <1>1, <1>2, <1>3

\* So does _refresh_owners().
LEMMA RefreshedLined ==
  ASSUME NEW q, NEW active \in SUBSET Ids, Lined(q)
  PROVE  Lined(Refreshed(q, active)) /\ Refreshed(q, active).running = q.running
BY DEF Lined, Work, Refreshed

\* Taking the head of the queue keeps it in order.
LEMMA GetLined ==
  ASSUME NEW q, Lined(q), q.queue # <<>>,
         NEW p, p = [q EXCEPT !.queue = Tail(@), !.pending = @ \ {Head(q.queue)},
                              !.running = @ \cup {Head(q.queue)}]
  PROVE  /\ Lined(p) /\ Head(q.queue) \in Ids /\ Head(q.queue) \notin q.running
         /\ p.running = q.running \cup {Head(q.queue)}
<1> DEFINE h == Head(q.queue)
           n == Len(q.queue)
<1>1. q \in Work /\ q.queue \in Seq(Ids)  BY DEF Lined, Work
<1>2. /\ n \in Nat \ {0} /\ h = q.queue[1] /\ h \in Ids
      /\ Len(Tail(q.queue)) = n - 1 /\ Tail(q.queue) \in Seq(Ids)
      /\ \A a \in 1..(n - 1) : Tail(q.queue)[a] = q.queue[a + 1]
  BY <1>1
<1>3. /\ p \in Work /\ p.queue = Tail(q.queue) /\ p.pending = q.pending \ {h}
      /\ p.running = q.running \cup {h} /\ p.dirty = q.dirty
  BY <1>1, <1>2 DEF Work
<1>4. h \in q.pending  BY <1>2 DEF Lined
<1>5. IsFiniteSet(p.pending) /\ Cardinality(p.pending) = n - 1
  <2>1. IsFiniteSet(q.pending) /\ Cardinality(q.pending) = n  BY DEF Lined
  <2>2. IsFiniteSet(q.pending \ {h}) /\ Cardinality(q.pending \ {h}) = Cardinality(q.pending) - 1
    BY <1>4, <2>1, FS_RemoveElement
  <2> QED  BY <1>3, <2>1, <2>2
<1>6. \A a, b \in 1..(n - 1) : Tail(q.queue)[a] = Tail(q.queue)[b] => a = b
  <2> SUFFICES ASSUME NEW a \in 1..(n - 1), NEW b \in 1..(n - 1), q.queue[a + 1] = q.queue[b + 1]
               PROVE  a = b
    BY <1>2
  <2>1. a + 1 \in 1..n /\ b + 1 \in 1..n  BY <1>2
  <2>2. a + 1 = b + 1  BY <2>1 DEF Lined
  <2> QED  BY <2>2
<1>7. \A j \in Ids : j \in p.pending <=> \E a \in 1..(n - 1) : Tail(q.queue)[a] = j
  <2> TAKE j \in Ids
  <2>1. ASSUME j \in p.pending  PROVE \E a \in 1..(n - 1) : Tail(q.queue)[a] = j
    <3>1. PICK a \in 1..n : q.queue[a] = j  BY <2>1, <1>3 DEF Lined
    <3>2. a # 1  BY <3>1, <2>1, <1>3, <1>2
    <3>3. a - 1 \in 1..(n - 1) /\ (a - 1) + 1 = a  BY <3>2, <1>2
    <3>4. Tail(q.queue)[a - 1] = j  BY <3>1, <3>3, <1>2
    <3> QED  BY <3>3, <3>4
  <2>2. ASSUME NEW a \in 1..(n - 1), Tail(q.queue)[a] = j  PROVE j \in p.pending
    <3>1. a + 1 \in 1..n /\ a + 1 # 1 /\ 1 \in 1..n /\ q.queue[a + 1] = j  BY <2>2, <1>2
    <3>2. j \in q.pending  BY <3>1 DEF Lined
    <3>3. j # h  BY <3>1, <1>2 DEF Lined
    <3> QED  BY <3>2, <3>3, <1>3
  <2> QED  BY <2>1, <2>2
<1>8. Len(p.queue) <= Slots /\ p.pending \cap p.running = {} /\ p.dirty \subseteq p.running
      /\ h \notin q.running
  BY <1>2, <1>3, <1>4, QueueConstants DEF Lined
<1> QED  BY <1>2, <1>3, <1>5, <1>6, <1>7, <1>8 DEF Lined

\* Ending the turn of an episode that is dirty offers it again; of any other, forgets it.
LEMMA EndedLined ==
  ASSUME NEW q, Lined(q), NEW i
  PROVE  /\ Lined([q EXCEPT !.running = @ \ {i}, !.dirty = @ \ {i}])
         /\ [q EXCEPT !.running = @ \ {i}, !.dirty = @ \ {i}].running = q.running \ {i}
BY DEF Lined, Work

\* Workers change one at a time: what they hold together follows.
LEMMA HeldIds ==
  ASSUME Held, NEW w \in Workers, NEW t, \A v \in Workers : turn'[v] = IF v = w THEN t ELSE turn[v]
  PROVE  {turn'[v].id : v \in Workers} \ {Free}
           = ((work.running \ {turn[w].id}) \cup {t.id}) \ {Free}
<1>2. \A v \in Workers : v # w /\ turn[v].id # Free => turn[v].id # turn[w].id  BY DEF Held
<1> QED  BY <1>2 DEF Held

\* The initial state.
LEMMA FlightInit == QueueInit => FlightInv
<1> SUFFICES ASSUME QueueInit PROVE FlightInv  OBVIOUS
<1>1. life \in [Ids -> {"new", "claimed", "open", "closed"}] /\ Active \subseteq Ids
  BY DEF QueueInit, Active
<1>2. work \in Work /\ work.queue = <<>> /\ work.pending = {} /\ work.running = {} /\ work.dirty = {}
  BY <1>1 DEF QueueInit, Work
<1>3. Lined(work)
  BY <1>2, FS_EmptySet, QueueConstants DEF Lined
<1>4. \A w \in Workers : turn[w].id = Free /\ ~turn[w].serving  BY DEF QueueInit, NoTurn
<1>5. Held  BY <1>2, <1>4 DEF Held
<1>6. turn \in [Workers -> Turn] /\ lock \in Workers \cup {"proof", Free}
  BY DEF QueueInit, NoTurn, Turn
<1> QED  BY <1>1, <1>2, <1>3, <1>5, <1>6, QueueConstants DEF FlightInv, QueueTypeOK, Lined

\* The head of the queue goes to a worker that had nothing.
LEMMA FlightGet ==
  ASSUME FlightInv, NEW w \in Workers, Get(w)
  PROVE  FlightInv'
<1> DEFINE i == Head(work.queue)
           t == [id |-> i, serving |-> FALSE]
<1>1. /\ turn[w].id = Free /\ work.queue # <<>> /\ life' = life /\ lock' = lock
      /\ work' = [work EXCEPT !.queue = Tail(@), !.pending = @ \ {i}, !.running = @ \cup {i}]
      /\ turn' = [turn EXCEPT ![w] = t]
  BY DEF Get
<1>2. Lined(work') /\ i \in Ids /\ i \notin work.running /\ work'.running = work.running \cup {i}
  BY <1>1, GetLined DEF FlightInv
<1>3. turn \in [Workers -> Turn] /\ t \in Turn /\ i # Free /\ Held
  BY <1>2, QueueConstants DEF FlightInv, QueueTypeOK, Turn
<1>4. turn' \in [Workers -> Turn] /\ \A v \in Workers : turn'[v] = IF v = w THEN t ELSE turn[v]
  BY <1>1, <1>3
<1>5. work'.running = {turn'[v].id : v \in Workers} \ {Free}
  <2>1. Free \notin work.running  BY <1>3 DEF Held
  <2>2. {turn'[v].id : v \in Workers} \ {Free} = ((work.running \ {turn[w].id}) \cup {t.id}) \ {Free}
    BY <1>3, <1>4, HeldIds
  <2>3. t.id = i  OBVIOUS
  <2> QED  BY <1>1, <1>2, <1>3, <2>1, <2>2, <2>3
<1>6. \A v \in Workers : turn[v].id # i
  BY <1>2, <1>3 DEF Held
<1>7. Held'
  BY <1>1, <1>3, <1>4, <1>5, <1>6 DEF Held
<1>8. QueueTypeOK'
  BY <1>1, <1>2, <1>4 DEF FlightInv, QueueTypeOK, Lined
<1> QED  BY <1>2, <1>7, <1>8 DEF FlightInv

\* A worker passes the lock.
LEMMA FlightEnter ==
  ASSUME FlightInv, NEW w \in Workers, Enter(w)
  PROVE  FlightInv'
<1>1. /\ turn[w].id # Free /\ lock = Free /\ lock' = w /\ life' = life /\ work' = work
      /\ turn' = [turn EXCEPT ![w].serving = TRUE] /\ turn \in [Workers -> Turn]
  BY DEF Enter, FlightInv, QueueTypeOK
<1>2. /\ turn' \in [Workers -> Turn]
      /\ \A v \in Workers : turn'[v].id = turn[v].id
      /\ \A v \in Workers : turn'[v].serving => v = w \/ turn[v].serving
  BY <1>1 DEF Turn
<1>3. \A v \in Workers : ~turn[v].serving
  BY <1>1, QueueConstants DEF FlightInv, Held
<1>4. {turn'[v].id : v \in Workers} = {turn[v].id : v \in Workers}  BY <1>2
<1>5. Held'  BY <1>1, <1>2, <1>3, <1>4 DEF Held, FlightInv
<1> QED  BY <1>1, <1>2, <1>5 DEF FlightInv, QueueTypeOK, Lined

\* A worker ends its turn.
LEMMA FlightFinish ==
  ASSUME FlightInv, NEW w \in Workers, Finish(w)
  PROVE  FlightInv'
<1> DEFINE i == turn[w].id
           kept(over, refresh) == IF refresh THEN Refreshed(work, Active \ (IF over THEN {i} ELSE {})) ELSE work
           ended(k) == [k EXCEPT !.running = @ \ {i}, !.dirty = @ \ {i}]
<1>1. turn[w].serving /\ turn' = [turn EXCEPT ![w] = NoTurn] /\ lock' = Free
  BY DEF Finish
<1>2. PICK over, refresh \in BOOLEAN :
        /\ life' = IF over THEN [life EXCEPT ![i] = "closed"] ELSE life
        /\ work' = IF i \in kept(over, refresh).dirty THEN Offer(ended(kept(over, refresh)), i)
                                                      ELSE ended(kept(over, refresh))
  BY DEF Finish
<1>3. turn \in [Workers -> Turn] /\ Held /\ Lined(work)  BY DEF FlightInv, QueueTypeOK
<1>4. i \in Ids /\ i # Free  BY <1>1, <1>3 DEF Held, Turn
<1>5. Lined(kept(over, refresh)) /\ kept(over, refresh).running = work.running
  <2>1. (Active \ (IF over THEN {i} ELSE {})) \in SUBSET Ids  BY DEF Active
  <2> QED  BY <1>3, <2>1, RefreshedLined
<1> HIDE DEF kept
<1>6. Lined(ended(kept(over, refresh))) /\ ended(kept(over, refresh)).running = work.running \ {i}
  BY <1>4, <1>5, EndedLined
<1> HIDE DEF ended
<1>7. Lined(work') /\ work'.running = work.running \ {i}
  BY <1>2, <1>4, <1>6, OfferLined
<1>8. /\ NoTurn \in Turn /\ NoTurn.id = Free /\ ~NoTurn.serving /\ turn' \in [Workers -> Turn]
      /\ \A v \in Workers : turn'[v] = IF v = w THEN NoTurn ELSE turn[v]
  BY <1>1, <1>3 DEF NoTurn, Turn
<1>9. work'.running = {turn'[v].id : v \in Workers} \ {Free}
  <2>1. Free \notin work.running  BY <1>3 DEF Held
  <2>2. {turn'[v].id : v \in Workers} \ {Free} = ((work.running \ {i}) \cup {NoTurn.id}) \ {Free}
    BY <1>3, <1>8, HeldIds
  <2> QED  BY <1>7, <1>8, <2>1, <2>2
<1>10. \A v \in Workers : v # w => ~turn[v].serving
  BY <1>1, <1>3 DEF Held
<1>11. Held'  BY <1>3, <1>8, <1>9, <1>10 DEF Held
<1>12. life' \in [Ids -> {"new", "claimed", "open", "closed"}]
  BY <1>2, <1>4 DEF FlightInv, QueueTypeOK
<1> QED  BY <1>1, <1>7, <1>8, <1>11, <1>12 DEF FlightInv, QueueTypeOK, Lined

\* What the other actors do leaves the workers and the lock's rule alone.
LEMMA HeldSame ==
  ASSUME Held, turn' = turn, work'.running = work.running,
         lock' = lock \/ (\A w \in Workers : ~turn[w].serving)
  PROVE  Held'
BY DEF Held

\* The entry lane, the quotes and the cadence loop.
LEMMA FlightOffers ==
  ASSUME FlightInv, NEW i \in Ids, EntryClaim(i) \/ EntryAdmitted(i) \/ EntrySettled(i) \/ Wake(i)
  PROVE  FlightInv'
<1>1. Active \in SUBSET Ids /\ Lined(work) /\ Held  BY DEF Active, FlightInv
<1>2. Lined(Refreshed(work, Active)) /\ Refreshed(work, Active).running = work.running
  BY <1>1, RefreshedLined
<1>3. Lined(work') /\ work'.running = work.running
  <2>1. CASE EntryClaim(i) \/ EntrySettled(i)  BY <1>1, <2>1 DEF EntryClaim, EntrySettled
  <2>2. CASE EntryAdmitted(i)
    <3>1. work' = Offer(Refreshed(work, Active), i)  BY <2>2 DEF EntryAdmitted
    <3> QED  BY <1>2, <3>1, OfferLined
  <2>3. CASE Wake(i)
    <3>1. work' = Offer(work, i)  BY <2>3 DEF Wake
    <3> QED  BY <1>1, <3>1, OfferLined
  <2> QED  BY <2>1, <2>2, <2>3
<1>4. turn' = turn /\ lock' = lock  BY DEF EntryClaim, EntryAdmitted, EntrySettled, Wake
<1>5. life' \in [Ids -> {"new", "claimed", "open", "closed"}]
  BY DEF EntryClaim, EntryAdmitted, EntrySettled, Wake, FlightInv, QueueTypeOK
<1> QED  BY <1>1, <1>3, <1>4, <1>5, HeldSame DEF FlightInv, QueueTypeOK, Lined

\* A refusal, and the owner-proof publisher.
LEMMA FlightOthers ==
  ASSUME FlightInv, Refused \/ ProofLock \/ ProofUnlock
  PROVE  FlightInv'
<1>1. Active \in SUBSET Ids /\ Lined(work) /\ Held  BY DEF Active, FlightInv
<1>2. Lined(work') /\ work'.running = work.running
  BY <1>1, RefreshedLined DEF Refused, ProofLock, ProofUnlock
<1>3. turn' = turn /\ life' = life  BY DEF Refused, ProofLock, ProofUnlock
<1>4. lock' = lock \/ (\A w \in Workers : ~turn[w].serving)
  <2>1. lock = Free \/ lock = "proof" => \A w \in Workers : ~turn[w].serving
    BY <1>1, QueueConstants DEF Held
  <2> QED  BY <2>1 DEF Refused, ProofLock, ProofUnlock
<1>5. lock' \in Workers \cup {"proof", Free}
  BY DEF Refused, ProofLock, ProofUnlock, FlightInv, QueueTypeOK
<1> QED  BY <1>1, <1>2, <1>3, <1>4, <1>5, HeldSame DEF FlightInv, QueueTypeOK, Lined

\* The inductive invariant holds in every state of the queue.
THEOREM FlightInductive == QueueSpec => []FlightInv
<1>1. QueueInit => FlightInv  BY FlightInit
<1>2. FlightInv /\ [QueueNext]_queueVars => FlightInv'
  <2> SUFFICES ASSUME FlightInv, [QueueNext]_queueVars PROVE FlightInv'  OBVIOUS
  <2>1. ASSUME NEW w \in Workers, Get(w) \/ Enter(w) \/ Finish(w)  PROVE FlightInv'
    BY <2>1, FlightGet, FlightEnter, FlightFinish
  <2>2. ASSUME NEW i \in Ids, EntryClaim(i) \/ EntryAdmitted(i) \/ EntrySettled(i) \/ Wake(i)  PROVE FlightInv'
    BY <2>2, FlightOffers
  <2>3. CASE Refused \/ ProofLock \/ ProofUnlock  BY <2>3, FlightOthers
  <2>4. CASE UNCHANGED queueVars
    BY <2>4 DEF queueVars, FlightInv, QueueTypeOK, Lined, Held
  <2> QED  BY <2>1, <2>2, <2>3, <2>4 DEF QueueNext
<1> QED  BY <1>1, <1>2, PTL DEF QueueSpec

\* The episode work queue's state has its type: in particular the queue never holds more
\* than its slots, however many offer at once (EpisodeWorkQueue, maxsize).
THEOREM QueueTyped == QueueSpec => []QueueTypeOK
<1>1. FlightInv => QueueTypeOK  BY DEF FlightInv
<1> QED  BY <1>1, FlightInductive, PTL

\* An episode is queued once or serviced by one worker (EpisodeWorkQueue.offer and run).
THEOREM QueueSingleFlight == QueueSpec => []SingleFlight
<1>1. FlightInv => SingleFlight
  <2> SUFFICES ASSUME FlightInv PROVE SingleFlight  OBVIOUS
  <2>1. work \in Work /\ work.queue \in Seq(Ids)  BY DEF FlightInv, QueueTypeOK, Work
  <2>2. ToSet(work.queue) = work.pending
    <3>1. ToSet(work.queue) = {work.queue[a] : a \in 1..Len(work.queue)}  BY <2>1 DEF ToSet
    <3>2. \A a \in 1..Len(work.queue) : work.queue[a] \in Ids  BY <2>1
    <3>3. work.pending \subseteq Ids  BY <2>1 DEF Work
    <3> QED  BY <3>1, <3>2, <3>3 DEF FlightInv, Lined
  <2> QED  BY <2>2 DEF FlightInv, Lined, Held, SingleFlight
<1> QED  BY <1>1, FlightInductive, PTL
==============================================================================
