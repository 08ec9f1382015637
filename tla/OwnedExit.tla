------------------------------- MODULE OwnedExit -------------------------------
(****************************************************************************)
(* How one owned episode of the live momentum strategy is protected and     *)
(* sold (momentum_live/protection.py, runtime.py, lifecycle.py): a native   *)
(* protective order (a target and stop pair in regular hours, a single      *)
(* target otherwise) rests at the broker, is replaced when the position     *)
(* grows or the session changes, and is cancelled and proved ended before   *)
(* a software exit sells the remainder.                                     *)
(*                                                                          *)
(* The episode's worker runs one pass at a time, so its code is one         *)
(* sequential process whose place is pc; the steps are its awaits: a broker *)
(* read with the transaction that records it, a durable save, a wire.       *)
(* Between any two of them the broker buys, fills, ends or refuses orders,  *)
(* the market session moves on and the process may die.                     *)
(*                                                                          *)
(* Time gates (two-second pacing, quote freshness, STOP's receipts) decide  *)
(* only whether a pass goes on or returns: Return is that choice.           *)
(****************************************************************************)
EXTENDS Integers, FiniteSets, Totals

CONSTANTS
  MaxBuy,      \* shares the entry may buy
  MaxGen,      \* bound: protective orders per episode
  MaxAttempt,  \* bound: software exits per episode
  MaxCrash,    \* bound: restarts
  Days         \* the days explored: where the episode is routed to, and what happens

\* A day has its broker, the market sessions the episode lives through, the faults that
\* may happen, and its own bounds on the four counters.
Session == {"AM", "NORMAL", "PM"}
Day == [provider : {"webull", "schwab"}, first : Session, last : Session,
        faults : SUBSET {"lost", "refused", "ack", "db"},
        buys : 1..MaxBuy, gens : 1..MaxGen, attempts : 1..MaxAttempt, crashes : 0..MaxCrash]

ASSUME OwnedExitConstants ==
  /\ MaxBuy \in Nat \ {0} /\ MaxGen \in Nat \ {0} /\ MaxAttempt \in Nat \ {0}
  /\ MaxCrash \in Nat
  /\ Days # {} /\ Days \subseteq Day

VARIABLES
  day,      \* the day, which does not change
  bought,   \* the broker: shares bought
  sold,     \* the broker: shares sold by this episode's orders
  ord,      \* the broker: its view of every sell order
  asked,    \* the broker: legs whose cancel request has reached it
  session,  \* the market session
  books,    \* durable: fills bought and sold, and the order rows
  saved,    \* durable: the runtime journal of the episode
  mem,      \* the process: its copy of the journal
  pos,      \* the process: the cached OwnedPosition
  pc,       \* the process: where its pass is
  ctx,      \* the process: locals of the pass
  crashes   \* restarts so far

broker  == <<bought, sold, ord, asked, session>>
durable == <<books, saved>>
process == <<mem, pos, pc, ctx>>
vars    == <<day, broker, durable, process, crashes>>

Provider == day.provider
Faults   == day.faults

Leg       == {"target", "stop"}
Native    == {"native"} \X (1..MaxGen)
Soft      == {"soft"} \X (1..MaxAttempt)
Orders    == Native \cup Soft
Mandatory == "mandatory"  \* hard_stop_15pct, time_300s, KILLSW1_STOP, EOD
Target    == "target"     \* target_5pct, the only reason that is not mandatory

BrokerOrder == [st : {"none", "flight", "held", "lost", "refused"}, qty : 0..MaxBuy,
                filled : [Leg -> 0..MaxBuy], live : SUBSET Leg]
OrderRow == [st : {"none", "pending", "done", "aborted"}, qty : 0..MaxBuy, legs : SUBSET Leg,
             kids : SUBSET Leg, rec : [Leg -> 0..MaxBuy], ended : SUBSET Leg, receipt : BOOLEAN]
Handle   == [gen : 0..MaxGen, qty : 0..MaxBuy, session : Session \cup {"none"}, known : BOOLEAN,
             status : {"unsent", "submitted_unknown", "working", "cancel_requested", "terminal",
                       "unknown"}, wires : SUBSET Leg]
Journal  == [h : Handle, reason : {"none", Target, Mandatory}, sent : BOOLEAN,
             attempt : 0..MaxAttempt]
Position == [on : BOOLEAN, qty : 0..MaxBuy, exited : 0..MaxBuy, seen : 0..MaxBuy, reserved : 0..MaxBuy,
             unknown : BOOLEAN, confirmed : BOOLEAN, zero : BOOLEAN, market : Session]
Context  == [then : {"exit", "resize", "flat"}, todo : SUBSET Leg, deferred : BOOLEAN,
             leg : Leg, why : {"none", Target, Mandatory}, qty : 0..MaxBuy]
Places   == {"idle", "protect", "release", "cancel", "wire", "reread", "grow", "arm", "send",
             "ack", "decide", "exit", "watch", "chase", "rewatch", "claim", "prepare", "latch",
             "go", "undo", "done"}

TypeOK ==
  /\ day \in Days
  /\ bought \in 0..MaxBuy /\ sold \in 0..MaxBuy
  /\ ord \in [Orders -> BrokerOrder]
  /\ asked \subseteq Orders \X Leg
  /\ session \in Session
  /\ books \in [bought : 0..MaxBuy, sold : 0..MaxBuy, row : [Orders -> OrderRow]]
  /\ saved \in Journal /\ mem \in Journal
  /\ pos \in Position /\ pc \in Places /\ ctx \in Context
  /\ crashes \in 0..MaxCrash

Zero     == [l \in Leg |-> 0]
NoOrder  == [st |-> "none", qty |-> 0, filled |-> Zero, live |-> {}]
NoRow    == [st |-> "none", qty |-> 0, legs |-> {}, kids |-> {}, rec |-> Zero, ended |-> {},
             receipt |-> FALSE]
NoHandle == [gen |-> 0, qty |-> 0, session |-> "none", known |-> FALSE, status |-> "unsent",
             wires |-> {}]
NoPosition == [on |-> FALSE, qty |-> 0, exited |-> 0, seen |-> 0, reserved |-> 0, unknown |-> FALSE,
               confirmed |-> FALSE, zero |-> FALSE, market |-> day.first]
NoContext  == [then |-> "exit", todo |-> {}, deferred |-> FALSE, leg |-> "target",
               why |-> "none", qty |-> 0]

Init ==
  /\ day \in Days
  /\ bought = 0 /\ sold = 0 /\ asked = {} /\ session = day.first /\ crashes = 0
  /\ ord = [o \in Orders |-> NoOrder]
  /\ books = [bought |-> 0, sold |-> 0, row |-> [o \in Orders |-> NoRow]]
  /\ mem = [h |-> NoHandle, reason |-> "none", sent |-> FALSE, attempt |-> 0]
  /\ saved = mem
  /\ pos = NoPosition /\ pc = "idle" /\ ctx = NoContext

LesserOf(a, b) == IF a < b THEN a ELSE b

\* OwnedPosition.remaining.
Remaining(p) == IF p.qty > p.exited THEN p.qty - p.exited ELSE 0

\* software_target_allowed: before the open only a terminal, unfilled target frees it.
TargetAllowed(p) ==
  p.market = "AM" => p.zero /\ p.exited = 0 /\ p.reserved = 0 /\ ~p.unknown

------------------------------------------------------------------------------
(* The broker.                                                              *)

Buy ==
  /\ bought < day.buys /\ bought' = bought + 1
  /\ UNCHANGED <<sold, ord, asked, session, durable, process, crashes>>

\* A request on the wire reaches the broker, is refused by it, or is lost.
Arrive(o, st) ==
  /\ ord[o].st = "flight"
  /\ st \in {"held"} \cup ({"lost", "refused"} \cap Faults)
  /\ ord' = [ord EXCEPT ![o].st = st, ![o].live = IF st = "held" THEN @ ELSE {}]
  /\ UNCHANGED <<bought, sold, asked, session, durable, process, crashes>>

\* The legs of a pair share its quantity: the fill that completes it ends both.
Fill(o, l) ==
  /\ ord[o].st = "held" /\ l \in ord[o].live
  /\ sold' = sold + 1
  /\ LET done == ord[o].filled["target"] + ord[o].filled["stop"] + 1 = ord[o].qty
     IN  ord' = [ord EXCEPT ![o].filled[l] = @ + 1, ![o].live = IF done THEN {} ELSE @]
  /\ UNCHANGED <<bought, asked, session, durable, process, crashes>>

\* A leg is cancelled on request, cancelled with its sibling, rejected or expires.
EndLeg(o, l) ==
  /\ ord[o].st = "held" /\ l \in ord[o].live
  /\ ord' = [ord EXCEPT ![o].live = @ \ {l}]
  /\ UNCHANGED <<bought, sold, asked, session, durable, process, crashes>>

Bell ==
  /\ session # day.last
  /\ session' = IF session = "AM" THEN "NORMAL" ELSE "PM"
  /\ UNCHANGED <<bought, sold, ord, asked, durable, process, crashes>>

------------------------------------------------------------------------------
(* Recording what the broker reports: LivePersistence.record through        *)
(* OwnedNativeBackend._record_child for a leg of a pair.                    *)

IsPair(o)  == books.row[o].legs = Leg
Owned(b)   == b.bought - b.sold   \* the strategy's virtual position
Resting(o) == ord[o].st = "held"

\* The legs a read of o may answer for: none while the broker does not have it.
\* Schwab is asked by the receipt's id, for the whole tree; Webull leg by leg.
Reads(o) ==
  IF ~Resting(o) \/ (Provider = "schwab" /\ ~books.row[o].receipt) THEN {{}}
  ELSE IF Provider = "schwab" THEN {{}, books.row[o].legs}
  ELSE SUBSET books.row[o].legs

\* A leg of a pair gets a row of its own: a zero-fill terminal leg on Webull only
\* under children and a root receipt already durable, any other leg only while the
\* virtual position covers the whole pair.
Admitted(b, o, l) ==
  \/ ~IsPair(o) \/ l \in b.row[o].kids
  \/ IF Provider = "webull" /\ l \notin ord[o].live /\ ord[o].filled[l] = 0
     THEN saved.h.known /\ b.row[o].receipt
     ELSE b.row[o].qty <= Owned(b)

\* The row of o once a report for its leg l is recorded.
Reported(row, o, l) ==
  [row EXCEPT !.rec[l] = ord[o].filled[l], !.kids = @ \cup {l},
              !.ended = IF l \in ord[o].live THEN @ ELSE @ \cup {l},
              !.receipt = @ \/ ~IsPair(o),
              !.st = IF IsPair(o) \/ l \in ord[o].live THEN @ ELSE "done"]

\* Mutation: the partial executions of a cancelled leg are not booked.
BookWorking(b, o, l) ==
  [b EXCEPT !.sold = @ + (IF l \in ord[o].live THEN ord[o].filled[l] - b.row[o].rec[l] ELSE 0),
            !.row[o] = Reported(@, o, l)]

\* Cumulative quantities are booked by their increase.
Book(b, o, l) ==
  [b EXCEPT !.sold = @ + (ord[o].filled[l] - b.row[o].rec[l]), !.row[o] = Reported(@, o, l)]

\* Mutation: only legs that still work are recorded.
RecordLegWorking(t, o, l) ==
  IF ~t.ok \/ (Provider = "schwab" /\ IsPair(o) /\ l \notin ord[o].live) THEN t
  ELSE IF Admitted(t.b, o, l) THEN [t EXCEPT !.b = Book(@, o, l)]
  ELSE [t EXCEPT !.ok = FALSE]

\* t: whether the read still stands, and the books.  A refused leg ends the read.
\* Schwab's legs get a row only once they have filled.
RecordLeg(t, o, l) ==
  IF ~t.ok \/ (Provider = "schwab" /\ IsPair(o) /\ ord[o].filled[l] = 0) THEN t
  ELSE IF Admitted(t.b, o, l) THEN [t EXCEPT !.b = Book(@, o, l)]
  ELSE [t EXCEPT !.ok = FALSE]

RecordLegs(t, o, L) ==
  LET t1 == IF "target" \in L THEN RecordLeg(t, o, "target") ELSE t
  IN  IF "stop" \in L THEN RecordLeg(t1, o, "stop") ELSE t1

------------------------------------------------------------------------------
(* OwnedNativeBackend.read and NativeProtection._observe.                   *)

Root == <<"native", mem.h.gen>>

\* A leg whose terminal child row is durable is not read again (Webull).
Settled(o) ==
  IF Provider = "webull" /\ IsPair(o) /\ saved.h.known THEN books.row[o].ended ELSE {}

\* Mutation: the synthetic root is not closed.
ReadTreeOpen(b, R) ==
  LET row  == books.row[Root]
      t0   == [ok |-> row.st # "none" /\ ~(Provider = "schwab" /\ IsPair(Root) /\ ~row.receipt),
               b |-> b]
      t    == RecordLegs(t0, Root, R \ Settled(Root))
      res  == IF row.legs \ (R \cup Settled(Root)) # {} THEN "unknown"
              ELSE IF ord[Root].live = {} THEN "terminal" ELSE "working"
  IN  [ok |-> t.ok, res |-> res,
       b |-> t.b]

ReadTree(b, R) ==
  LET row  == books.row[Root]
      t0   == [ok |-> row.st # "none" /\ ~(Provider = "schwab" /\ IsPair(Root) /\ ~row.receipt),
               b |-> b]
      t    == RecordLegs(t0, Root, R \ Settled(Root))
      res  == IF row.legs \ (R \cup Settled(Root)) # {} THEN "unknown"
              ELSE IF ord[Root].live = {} THEN "terminal" ELSE "working"
  IN  [ok |-> t.ok, res |-> res,
       b |-> IF t.ok /\ res = "terminal" THEN [t.b EXCEPT !.row[Root].st = "done"] ELSE t.b]

StatusAfter(status, res) ==
  CASE res = "terminal" -> "terminal"
    [] res = "working" /\ status # "cancel_requested" -> "working"
    [] OTHER -> status

\* A pair of Webull legs is known by its client ids, anything else by its first report.
HandleAfter(h, res, R) ==
  [h EXCEPT !.status = StatusAfter(@, res),
            !.known = @ \/ R # {} \/ (Provider = "webull" /\ h.session = "NORMAL")]

PositionAfter(p, h, res, exited) ==
  LET q        == [p EXCEPT !.exited = IF exited > @ THEN exited ELSE @]
      resting  == \/ res = "working"
                  \/ res = "unknown" /\ h.status \in {"working", "cancel_requested"}
      possible == resting \/ (p.market = "AM" /\ res # "terminal")
  IN  [q EXCEPT !.confirmed = resting /\ h.session = "NORMAL",
                !.zero = p.market = "AM" /\ res = "terminal" /\ q.exited = 0,
                !.reserved = IF possible THEN LesserOf(h.qty, Remaining(q)) ELSE 0,
                !.unknown = res = "unknown"]

\* Before the open a read that fails leaves the target reserved and unknown.
PositionUnread(p, h) ==
  IF p.market # "AM" THEN p
  ELSE [p EXCEPT !.zero = FALSE, !.reserved = LesserOf(h.qty, Remaining(p)), !.unknown = TRUE]

\* What an observation of the native order leaves behind; it ends with a save.
Look(b, p, R) ==
  LET t == ReadTree(b, R)
  IN  [ok |-> t.ok, b |-> t.b, res |-> t.res,
       h |-> IF t.ok THEN HandleAfter(mem.h, t.res, R) ELSE mem.h,
       p |-> IF t.ok THEN PositionAfter(p, mem.h, t.res, t.b.sold) ELSE PositionUnread(p, mem.h)]

Released(p) == [p EXCEPT !.confirmed = FALSE, !.reserved = 0, !.unknown = FALSE]
Doubtful(p) == [p EXCEPT !.unknown = TRUE]

Keep(h) == mem' = [mem EXCEPT !.h = h] /\ saved' = mem'

\* Locals that the rest of the pass does not read are forgotten.
Goto(place) ==
  pc' = place /\ ctx' = [NoContext EXCEPT !.then = IF place \in {"release", "reread"} THEN ctx.then ELSE @]

\* The end of a pass, or an exception: the cached position keeps what was written to
\* it, and one that has moved is refused until the next observation.
Raise(p) ==
  /\ pos' = IF Remaining(p) > 0 /\ p.exited = p.seen THEN p ELSE NoPosition
  /\ pc' = "idle" /\ ctx' = NoContext

Proceed(p, place) == IF place = "idle" THEN Raise(p) ELSE pos' = p /\ Goto(place)

SameOrder(h, p) == h.qty = Remaining(p) /\ h.session = session

------------------------------------------------------------------------------
(* A pass begins: OmsLiveRuntime._observe reads the entry (e), the software *)
(* exit (x) and the native order (R), and builds the position.              *)

Current == <<"soft", mem.attempt>>
CanRead(o) == "target" \in UNION Reads(o)

Refresh(e, x, R) ==
  /\ pc = "idle"
  /\ x => mem.attempt > 0 /\ books.row[Current].st = "pending" /\ CanRead(Current)
  /\ R \in IF mem.h.gen = 0 THEN {{}} ELSE Reads(Root)
  /\ LET b1 == [books EXCEPT !.bought = IF e THEN bought ELSE @]
         b2 == IF x THEN Book(b1, Current, "target") ELSE b1
         p  == [NoPosition EXCEPT !.on = TRUE, !.qty = b2.bought, !.exited = b2.sold, !.seen = b2.sold,
                                  !.market = session]
         v  == Look(b2, p, R)
     IN  IF b2.bought = 0
         THEN UNCHANGED <<durable, process>>
         ELSE IF mem.h.gen = 0
         THEN books' = b2 /\ pos' = p /\ Goto("protect") /\ UNCHANGED <<saved, mem>>
         ELSE /\ books' = v.b
              /\ IF v.ok THEN Keep(v.h) /\ pos' = [v.p EXCEPT !.seen = v.p.exited] /\ Goto("protect")
                 ELSE Raise(NoPosition) /\ UNCHANGED <<saved, mem>>
  /\ UNCHANGED <<broker, crashes>>

\* _protect and NativeProtection.ensure, up to the release of an old order.
Protect(R) ==
  /\ pc = "protect"
  /\ R \in IF mem.h.gen = 0 THEN {{}} ELSE Reads(Root)
  /\ LET p == [pos EXCEPT !.market = session]
         v == Look(books, p, R)
         wait == Goto("decide") /\ UNCHANGED <<books, saved, mem>>
     IN  IF \E o \in Soft : books.row[o].st = "pending"
         THEN wait /\ pos' = Doubtful(p)
         ELSE IF mem.reason # "none" \/ (Remaining(p) = 0 /\ mem.h.gen = 0)
         THEN wait /\ pos' = p
         ELSE IF Remaining(p) = 0
         THEN /\ pos' = p /\ pc' = "release" /\ ctx' = [ctx EXCEPT !.then = "flat"]
              /\ UNCHANGED <<books, saved, mem>>
         ELSE IF mem.h.gen = 0
         THEN pos' = p /\ Goto("grow") /\ UNCHANGED <<books, saved, mem>>
         ELSE /\ books' = v.b
              /\ IF ~v.ok THEN Raise(v.p) /\ UNCHANGED <<saved, mem>>
                 ELSE /\ Keep(v.h) /\ pos' = v.p
                      /\ IF v.res = "unknown" \/ Remaining(v.p) = 0 \/ SameOrder(v.h, v.p)
                         THEN Goto("decide")
                         ELSE IF v.res = "terminal" THEN Goto("grow")
                         ELSE pc' = "release" /\ ctx' = [ctx EXCEPT !.then = "resize"]
  /\ UNCHANGED <<broker, crashes>>

------------------------------------------------------------------------------
(* NativeProtection.release_for_exit and OwnedNativeBackend.cancel.         *)

\* Where the caller goes on when the order is proved ended, and when it is not.
ReleasedTo(p) ==
  CASE ctx.then = "exit"   -> IF Remaining(p) = 0 THEN "idle" ELSE "claim"
    [] ctx.then = "resize" -> IF Remaining(p) = 0 \/ SameOrder(mem.h, p) THEN "decide" ELSE "grow"
    [] ctx.then = "flat"   -> "decide"
RefusedTo == IF ctx.then = "exit" THEN "idle" ELSE "decide"

Release(R) ==
  /\ pc = "release"
  /\ R \in IF mem.h.gen = 0 THEN {{}} ELSE Reads(Root)
  /\ LET v == Look(books, pos, R)
     IN  IF mem.h.gen = 0
         THEN /\ IF pos.reserved > 0 \/ pos.unknown THEN Raise(pos)
                 ELSE Proceed(pos, ReleasedTo(pos))
              /\ UNCHANGED <<books, saved, mem>>
         ELSE /\ books' = v.b
              /\ IF ~v.ok THEN Raise(v.p) /\ UNCHANGED <<saved, mem>>
                 ELSE IF v.res = "terminal"
                 THEN Keep(v.h) /\ Proceed(Released(v.p), ReleasedTo(Released(v.p)))
                 ELSE IF v.res = "unknown" /\ mem.reason # Mandatory
                 THEN Keep(v.h) /\ Proceed(Doubtful(v.p), RefusedTo)
                 ELSE IF v.h.status = "cancel_requested"
                 THEN Keep(v.h) /\ pos' = v.p /\ Goto("reread")
                 ELSE /\ Keep([v.h EXCEPT !.status = "cancel_requested"]) /\ pos' = v.p
                      /\ pc' = "cancel"
                      /\ ctx' = [ctx EXCEPT !.todo = books.row[Root].legs, !.deferred = FALSE]
  /\ UNCHANGED <<broker, crashes>>

\* The identity a mandatory cancel needs when the fresh read is unavailable.
Bound(l) == IF Provider = "webull" /\ IsPair(Root) THEN l \in books.row[Root].kids
            ELSE books.row[Root].receipt

\* A leg needs no cancel once its end is durable.
Finished(o) == IF IsPair(o) THEN Settled(o)
               ELSE IF books.row[o].st = "done" /\ books.row[o].receipt THEN books.row[o].legs ELSE {}

\* What a read made for a cancel records: Schwab answers for the tree.
FreshRead(l) ==
  RecordLegs([ok |-> TRUE, b |-> books], Root, IF Provider = "schwab" THEN books.row[Root].legs ELSE {l})

\* Mutation: the wire is not latched per leg.
CancelLegUnlatched(l, how) ==
  /\ pc = "cancel" /\ l \in ctx.todo /\ (l = "stop" => "target" \notin ctx.todo)
  /\ how = "report" => l \in UNION Reads(Root)
  /\ LET skip  == l \in mem.h.wires \cup Finished(Root)
         t     == IF how = "report" /\ ~skip THEN FreshRead(l) ELSE [ok |-> TRUE, b |-> books]
         tree  == Provider = "schwab" /\ IsPair(Root)
         left  == [ctx EXCEPT !.todo = @ \ {l}, !.leg = l]
         fault == ~t.ok \/ (tree /\ ~mem.h.known)
         send  == \/ how = "report"
                  \/ how = "unavailable" /\ mem.reason = Mandatory /\ Bound(l)
     IN  /\ books' = t.b
         /\ IF ~fault /\ (skip \/ (how = "report" /\ l \notin ord[Root].live))
            THEN ctx' = left /\ UNCHANGED <<pc, mem, saved>>
            ELSE IF ~fault /\ send
            THEN ctx' = left /\ pc' = "wire" /\ Keep(mem.h)
            ELSE /\ ctx' = [left EXCEPT !.deferred = TRUE, !.todo = IF fault \/ tree THEN {} ELSE @]
                 /\ UNCHANGED <<pc, mem, saved>>
  /\ UNCHANGED <<broker, pos, crashes>>

\* One leg: skipped when its wire was sent or it has ended, else its durable wire
\* latch is saved before the wire.  The fresh read answers, is unavailable or
\* cannot be trusted; only the first two may lead to a wire.  A leg that cannot be
\* decided is left for later, and on Schwab ends the whole cancel.
CancelLeg(l, how) ==
  /\ pc = "cancel" /\ l \in ctx.todo /\ (l = "stop" => "target" \notin ctx.todo)
  /\ how = "report" => l \in UNION Reads(Root)
  /\ LET skip  == l \in mem.h.wires \cup Finished(Root)
         t     == IF how = "report" /\ ~skip THEN FreshRead(l) ELSE [ok |-> TRUE, b |-> books]
         tree  == Provider = "schwab" /\ IsPair(Root)
         left  == [ctx EXCEPT !.todo = @ \ {l}, !.leg = l]
         fault == ~t.ok \/ (tree /\ ~mem.h.known)
         send  == \/ how = "report"
                  \/ how = "unavailable" /\ mem.reason = Mandatory /\ Bound(l)
     IN  /\ books' = t.b
         /\ IF ~fault /\ (skip \/ (how = "report" /\ l \notin ord[Root].live))
            THEN ctx' = left /\ UNCHANGED <<pc, mem, saved>>
            ELSE IF ~fault /\ send
            THEN ctx' = left /\ pc' = "wire" /\ Keep([mem.h EXCEPT !.wires = @ \cup {l}])
            ELSE /\ ctx' = [left EXCEPT !.deferred = TRUE, !.todo = IF fault \/ tree THEN {} ELSE @]
                 /\ UNCHANGED <<pc, mem, saved>>
  /\ UNCHANGED <<broker, pos, crashes>>

\* The wire, then a fresh read; the wire's answer is not proof.
CancelWire(seen) ==
  /\ pc = "wire" /\ pc' = "cancel"
  /\ seen => ctx.leg \in UNION Reads(Root)
  /\ asked' = asked \cup {<<Root, ctx.leg>>}
  /\ LET t     == IF seen THEN FreshRead(ctx.leg) ELSE [ok |-> TRUE, b |-> books]
         fault == ~t.ok \/ (~seen /\ Provider = "schwab" /\ IsPair(Root))
     IN  /\ books' = t.b
         /\ ctx' = IF fault THEN [ctx EXCEPT !.deferred = TRUE, !.todo = {}] ELSE ctx
  /\ UNCHANGED <<bought, sold, ord, session, saved, mem, pos, crashes>>

\* Mutation: an unknown read leaves the request latched.
CancelEndLatched ==
  /\ pc = "cancel" /\ ctx.todo = {}
  /\ IF ctx.deferred THEN Raise(pos) /\ UNCHANGED <<saved, mem>>
     ELSE Goto("reread") /\ UNCHANGED <<saved, mem, pos>>
  /\ UNCHANGED <<broker, books, crashes>>

\* A leg that could not be decided un-latches the request and ends the pass.
CancelEnd ==
  /\ pc = "cancel" /\ ctx.todo = {}
  /\ IF ctx.deferred THEN Keep([mem.h EXCEPT !.status = "unknown"]) /\ Raise(pos)
     ELSE Goto("reread") /\ UNCHANGED <<saved, mem, pos>>
  /\ UNCHANGED <<broker, books, crashes>>

\* Mutation: the acknowledged cancel is taken for the end.
RereadTrusting(R) ==
  /\ pc = "reread" /\ R \in Reads(Root)
  /\ LET v == Look(books, pos, R)
     IN  /\ books' = v.b
         /\ IF ~v.ok THEN Raise(v.p) /\ UNCHANGED <<saved, mem>>
            ELSE /\ Keep(v.h)
                 /\ IF v.res # "unknown"
                    THEN Proceed(Released(v.p), ReleasedTo(Released(v.p)))
                    ELSE Proceed(Doubtful(v.p), RefusedTo)
  /\ UNCHANGED <<broker, crashes>>

Reread(R) ==
  /\ pc = "reread" /\ R \in Reads(Root)
  /\ LET v == Look(books, pos, R)
     IN  /\ books' = v.b
         /\ IF ~v.ok THEN Raise(v.p) /\ UNCHANGED <<saved, mem>>
            ELSE /\ Keep(v.h)
                 /\ IF v.res = "terminal"
                    THEN Proceed(Released(v.p), ReleasedTo(Released(v.p)))
                    ELSE Proceed(Doubtful(v.p), RefusedTo)
  /\ UNCHANGED <<broker, crashes>>

------------------------------------------------------------------------------
(* NativeProtection.ensure: a new generation.                               *)

NewHandle == [NoHandle EXCEPT !.gen = mem.h.gen + 1, !.qty = Remaining(pos), !.session = session]
NewRow(q, legs) == [NoRow EXCEPT !.st = "pending", !.qty = q, !.legs = legs]
LegsOf(h) == IF h.session = "NORMAL" THEN Leg ELSE {"target"}

\* LivePersistence.prepare_order for a sell: a new client id, a covered quantity.
Prepares(o, q) == books.row[o].st = "none" /\ q <= Owned(books)

\* The handle is in memory before its row is durable; a refused or failed insert
\* leaves it there.
Grow(fails) ==
  /\ pc = "grow" /\ mem.h.gen < day.gens
  /\ fails => "db" \in Faults
  /\ mem' = [mem EXCEPT !.h = NewHandle]
  /\ LET o == <<"native", NewHandle.gen>>
     IN  IF fails \/ ~Prepares(o, NewHandle.qty)
         THEN Raise(pos) /\ UNCHANGED books
         ELSE /\ books' = [books EXCEPT !.row[o] = NewRow(NewHandle.qty, LegsOf(NewHandle))]
              /\ Goto("arm") /\ UNCHANGED pos
  /\ UNCHANGED <<broker, saved, crashes>>

\* Mutation: the send latch is in memory only.
ArmUnsaved ==
  /\ pc = "arm" /\ Goto("send")
  /\ mem' = [mem EXCEPT !.h.status = "submitted_unknown"] /\ UNCHANGED saved
  /\ pos' = [Doubtful(pos) EXCEPT !.reserved = IF pos.market = "AM" THEN LesserOf(mem.h.qty, Remaining(pos))
                                             ELSE @]
  /\ UNCHANGED <<broker, books, crashes>>

\* The send latch is durable before the wire.
Arm ==
  /\ pc = "arm" /\ Goto("send")
  /\ Keep([mem.h EXCEPT !.status = "submitted_unknown"])
  /\ pos' = [Doubtful(pos) EXCEPT !.reserved = IF pos.market = "AM" THEN LesserOf(mem.h.qty, Remaining(pos))
                                             ELSE @]
  /\ UNCHANGED <<broker, books, crashes>>

Wired(o) == [NoOrder EXCEPT !.st = "flight", !.qty = books.row[o].qty, !.live = books.row[o].legs]

Send ==
  /\ pc = "send" /\ Goto("ack")
  /\ ord' = [ord EXCEPT ![Root] = Wired(Root)]
  /\ UNCHANGED <<bought, sold, asked, session, durable, mem, pos, crashes>>

\* The submit's reports are recorded: an acceptance is the receipt, a refusal ends
\* the row.
Acked(b, o) ==
  CASE ord[o].st = "held"    -> [b EXCEPT !.row[o].receipt = TRUE]
    [] ord[o].st = "refused" -> [b EXCEPT !.row[o].st = "done"]
    [] OTHER                 -> b

\* The answer, then the first observation; a lost answer raises.
Ack(got, R) ==
  /\ pc = "ack"
  /\ IF got THEN ord[Root].st \in {"held", "refused"} ELSE "ack" \in Faults \/ ord[Root].st = "lost"
  /\ R \in IF got /\ Resting(Root) THEN SUBSET books.row[Root].legs ELSE {{}}
  /\ Provider = "schwab" => R \in {{}, books.row[Root].legs}
  /\ IF ~got THEN Raise(pos) /\ UNCHANGED <<durable, mem>>
     ELSE LET v == Look(Acked(books, Root), pos, R)
          IN  /\ books' = v.b
              /\ IF v.ok THEN Keep(v.h) /\ pos' = v.p /\ Goto("decide")
                 ELSE Raise(v.p) /\ UNCHANGED <<saved, mem>>
  /\ UNCHANGED <<broker, crashes>>

------------------------------------------------------------------------------
(* LiveActor._service_owned and OmsLiveRuntime._exit.                       *)

\* Why a position is sold.  STOP, the clock and the hard stop are mandatory; the
\* watched target is sold only while nothing confirmed rests for it.
Reasons(p) ==
  {Mandatory} \cup
  IF TargetAllowed(p) /\ (mem.reason = Target \/ (mem.reason = "none" /\ ~p.confirmed))
  THEN {Target} ELSE {}

\* After _protect, or on a pass that reuses the cached observation.
Decide(r) ==
  /\ \/ pc = "decide"
     \/ pc = "idle" /\ pos.on
  /\ Remaining(pos) > 0 /\ r \in Reasons(pos)
  /\ pc' = "exit" /\ ctx' = [NoContext EXCEPT !.why = r]
  /\ UNCHANGED <<broker, durable, mem, pos, crashes>>

DecideNothing ==
  /\ pc = "decide" /\ Raise(pos)
  /\ UNCHANGED <<broker, durable, mem, crashes>>

\* _save writes the journal; the handle in it is the one _save_handle put there.
Journalled(m) == mem' = m /\ saved' = [m EXCEPT !.h = saved.h]

\* The reason is latched, and a mandatory one replaces the target.
ExitLatch ==
  /\ pc = "exit"
  /\ IF mem.reason = "none" \/ (mem.reason = Target /\ ctx.why = Mandatory)
     THEN Journalled([mem EXCEPT !.reason = ctx.why])
     ELSE UNCHANGED <<saved, mem>>
  /\ pc' = (IF mem.sent THEN "watch" ELSE "release") /\ ctx' = NoContext
  /\ UNCHANGED <<broker, books, pos, crashes>>

\* The last software exit has ended: what is left is sold by another one.
Outstanding(b) == \E o \in Orders : b.row[o].st = "pending"

AfterExit(b) ==
  LET p == [pos EXCEPT !.exited = b.sold]
  IN  IF Outstanding(b) THEN Raise(pos) /\ UNCHANGED <<saved, mem>>
      ELSE IF Remaining(p) = 0 THEN Raise(p) /\ UNCHANGED <<saved, mem>>
      ELSE /\ Journalled([mem EXCEPT !.sent = FALSE])
           /\ pos' = IF mem.h.gen = 0 THEN [p EXCEPT !.unknown = FALSE, !.reserved = 0] ELSE p
           /\ Goto("release")

ChaseWindow == session # "NORMAL"
MandatoryChase == mem.reason = Mandatory \/ TargetAllowed(pos)

\* A sent exit is read until it has ended; outside regular hours one that still
\* works, or for a mandatory exit cannot be read, is cancelled.  An aborted row is
\* not an ended one here.
Watch(seen) ==
  /\ pc = "watch"
  /\ seen => CanRead(Current)
  /\ LET done == books.row[Current].st = "done"
         b    == IF seen /\ ~done THEN Book(books, Current, "target") ELSE books
     IN  /\ books' = b
         /\ IF b.row[Current].st = "done" THEN AfterExit(b)
            ELSE /\ IF ChaseWindow /\ (seen \/ MandatoryChase) THEN Goto("chase") /\ UNCHANGED pos
                    ELSE Raise(pos)
                 /\ UNCHANGED <<saved, mem>>
  /\ UNCHANGED <<broker, crashes>>

\* _chase_cancel: a fresh read first; an order that cannot be read is cancelled
\* only by a mandatory exit that holds its receipt.
Chase(seen) ==
  /\ pc = "chase"
  /\ seen => CanRead(Current)
  /\ books' = IF seen THEN Book(books, Current, "target") ELSE books
  /\ IF IF seen THEN "target" \in ord[Current].live
        ELSE MandatoryChase /\ books.row[Current].receipt
     THEN asked' = asked \cup {<<Current, "target">>} /\ Goto("rewatch") /\ UNCHANGED pos
     ELSE UNCHANGED asked /\ Raise(pos)
  /\ UNCHANGED <<bought, sold, ord, session, saved, mem, crashes>>

Rewatch(seen) ==
  /\ pc = "rewatch"
  /\ seen => CanRead(Current)
  /\ LET b == IF seen THEN Book(books, Current, "target") ELSE books
     IN  /\ books' = b
         /\ IF seen /\ b.row[Current].st = "done" THEN AfterExit(b)
            ELSE Raise(pos) /\ UNCHANGED <<saved, mem>>
  /\ UNCHANGED <<broker, crashes>>

\* claim_exit_quantity: avail is the account's holding less other strategies'.
Claim(avail) ==
  /\ pc = "claim"
  /\ LET most == LesserOf(Remaining(pos) - pos.reserved, avail)
     IN  IF pos.unknown \/ most <= 0 THEN Raise(pos)
         ELSE /\ pos' = [pos EXCEPT !.reserved = @ + most]
              /\ pc' = "prepare" /\ ctx' = [ctx EXCEPT !.qty = most]
  /\ UNCHANGED <<broker, durable, mem, crashes>>

NextExit == <<"soft", mem.attempt + 1>>

Prepare(fails) ==
  /\ pc = "prepare" /\ mem.attempt < day.attempts
  /\ fails => "db" \in Faults
  /\ IF fails \/ ~Prepares(NextExit, ctx.qty) THEN Raise(pos) /\ UNCHANGED books
     ELSE /\ books' = [books EXCEPT !.row[NextExit] = NewRow(ctx.qty, {"target"})]
          /\ Goto("latch") /\ UNCHANGED pos
  /\ UNCHANGED <<broker, saved, mem, crashes>>

\* The sent latch is durable before the wire.
SentLatch ==
  /\ pc = "latch" /\ Goto("go")
  /\ Journalled([mem EXCEPT !.sent = TRUE, !.attempt = @ + 1])
  /\ UNCHANGED <<broker, books, pos, crashes>>

Go ==
  /\ pc = "go" /\ Goto("done")
  /\ ord' = [ord EXCEPT ![Current] = Wired(Current)]
  /\ UNCHANGED <<bought, sold, asked, session, durable, mem, pos, crashes>>

\* The quote moved before the wire: the order is known unsent, in two commits.
AbandonUnsent ==
  /\ pc = "go" /\ Goto("undo")
  /\ books' = [books EXCEPT !.row[Current].st = "aborted"]
  /\ UNCHANGED <<broker, saved, mem, pos, crashes>>

Rearm ==
  /\ pc = "undo" /\ Raise([pos EXCEPT !.reserved = 0])
  /\ Journalled([mem EXCEPT !.sent = FALSE])
  /\ UNCHANGED <<broker, books, crashes>>

\* The submit's reports are recorded; a lost answer leaves the exit sent.
Done(got) ==
  /\ pc = "done" /\ Raise(pos)
  /\ IF got THEN ord[Current].st \in {"held", "refused"}
     ELSE "ack" \in Faults \/ ord[Current].st = "lost"
  /\ books' = IF got THEN Acked(books, Current) ELSE books
  /\ UNCHANGED <<broker, saved, mem, crashes>>

------------------------------------------------------------------------------

\* Pacing, quote freshness, the STOP receipts and the STOP journal end a pass.
Return ==
  /\ \/ pc \in {"exit", "watch", "chase", "claim"}
     \/ pc = "release" /\ ctx.then = "exit"
     \/ pc = "go" /\ "db" \in Faults
  /\ Raise(pos)
  /\ UNCHANGED <<broker, durable, mem, crashes>>

\* OmsLiveRuntime.start reads the journal back.
Crash ==
  /\ crashes < day.crashes /\ crashes' = crashes + 1
  /\ mem' = saved /\ Raise(NoPosition)
  /\ UNCHANGED <<broker, durable>>

Refreshes == \E e, x \in BOOLEAN, R \in SUBSET Leg : Refresh(e, x, R)
Releases  == \E R \in SUBSET Leg : Release(R) \/ Reread(R)
Cancels   == \/ \E l \in Leg, how \in {"report", "unavailable", "invalid"} : CancelLeg(l, how)
             \/ \E seen \in BOOLEAN : CancelWire(seen)
             \/ CancelEnd
Protects  == \/ \E R \in SUBSET Leg : Protect(R)
             \/ \E fails \in BOOLEAN : Grow(fails)
             \/ Arm \/ Send
             \/ \E got \in BOOLEAN, R \in SUBSET Leg : Ack(got, R)
Decides   == (\E r \in {Target, Mandatory} : Decide(r)) \/ DecideNothing
Watches   == \E seen \in BOOLEAN : Watch(seen) \/ Chase(seen) \/ Rewatch(seen)
Sells     == \/ \E avail \in 0..MaxBuy : Claim(avail)
             \/ \E fails \in BOOLEAN : Prepare(fails)
             \/ SentLatch \/ Go \/ AbandonUnsent \/ Rearm
             \/ \E got \in BOOLEAN : Done(got)

Worker == Refreshes \/ Protects \/ Releases \/ Cancels \/ Decides \/ ExitLatch \/ Watches \/ Sells \/ Return

Market ==
  \/ Buy \/ Bell
  \/ \E o \in Orders : \/ \E st \in {"held", "lost", "refused"} : Arrive(o, st)
                        \/ \E l \in Leg : Fill(o, l) \/ EndLeg(o, l)

Next == (Worker \/ Market \/ Crash) /\ UNCHANGED day

Spec == Init /\ [][Next]_vars

------------------------------------------------------------------------------
(* Fairness.  A request on the wire gets somewhere and a cancel that reached    *)
(* the broker ends its leg.  The worker is offered the episode every 100 ms and *)
(* observes it again every second.  Outages end: from some point on what the    *)
(* broker holds can be read, quotes are fresh and a latched exit is pursued.    *)
(* Nothing is assumed of fills, of restarts or of legs nobody cancels.          *)

Whole == IF mem.h.gen > 0 /\ Resting(Root) THEN books.row[Root].legs ELSE {}

CalmRefresh ==
  Refresh(TRUE, mem.attempt > 0 /\ books.row[Current].st = "pending" /\ CanRead(Current), Whole)

CalmWorker ==
  \/ CalmRefresh
  \/ CancelEnd \/ Arm \/ Send \/ ExitLatch \/ SentLatch \/ Go \/ Rearm
  \/ Protect(Whole) \/ Release(Whole) \/ Reread(Whole)
  \/ \E l \in Leg : CancelLeg(l, IF l \in UNION Reads(Root) THEN "report" ELSE "unavailable")
  \/ CancelWire(ctx.leg \in UNION Reads(Root))
  \/ Grow(FALSE) \/ Ack(ord[Root].st # "lost", Whole)
  \/ Decide(Mandatory) \/ (DecideNothing /\ (mem.reason = "none" \/ Remaining(pos) = 0))
  \/ Watch(CanRead(Current)) \/ Chase(CanRead(Current)) \/ Rewatch(CanRead(Current))
  \/ Claim(bought - sold) \/ Prepare(FALSE) \/ Done(ord[Current].st # "lost")

FairSpec ==
  /\ Spec
  /\ WF_vars((\E o \in Orders : Arrive(o, "held")) /\ UNCHANGED day)
  /\ WF_vars((\E a \in asked : EndLeg(a[1], a[2])) /\ UNCHANGED day)
  /\ WF_vars(CalmWorker /\ UNCHANGED day) /\ SF_vars(CalmRefresh /\ UNCHANGED day)
  /\ <>[][Market \/ CalmWorker]_vars

------------------------------------------------------------------------------
(* What the exits promise.                                                  *)

\* Orders that can still sell, and what they can still sell.
Sellable(o) == ord[o].st \in {"flight", "held"} /\ ord[o].live # {}
LeftToSell(o) ==
  IF Sellable(o) THEN ord[o].qty - ord[o].filled["target"] - ord[o].filled["stop"] ELSE 0
OpenQty == Total([o \in Orders |-> LeftToSell(o)], Orders)

Budget == INSTANCE SellBudget WITH open <- OpenQty

\* The episode implements SellBudget: whatever order the fills, the cancels, the lost
\* answers, the session changes and the restarts come in, no protective order and no
\* software exit is put on the wire that the shares bought, less those sold and those
\* another order may still sell, do not cover (release_for_exit, claim_exit_quantity,
\* prepare_order).
BudgetKept == Budget!Spec

\* Never a second tree: at most one of the episode's sell orders can sell, so an
\* unknown answer to a submit or a cancel never lets another order over it
\* (NativeProtection.ensure, _exit's sent latch).
OneTree == Cardinality({o \in Orders : Sellable(o)}) <= 1

\* A process that dies finds again what it put on the wire: every order that can sell
\* is the saved protection handle's, or the saved software exit's, and its row is
\* still open (the send latches saved before the wire).
RecoverableWire ==
  \A o \in Orders : Sellable(o) =>
    /\ books.row[o].st = "pending"
    /\ \/ o = <<"native", saved.h.gen>> /\ saved.h.status # "unsent"
       \/ o = <<"soft", saved.attempt>> /\ saved.sent

\* A leg's cancel goes on the wire once, through restarts and un-latched requests
\* (the per-leg wire latches of OwnedNativeBackend.cancel).
LegCancelledOnce == pc = "wire" => <<Root, ctx.leg>> \notin asked

\* The books never claim more than the broker did, and an ended order is booked in
\* full: the remainder a new sell is sized by is exact once its predecessor ended.
BooksExact ==
  /\ books.sold <= sold /\ books.bought <= bought
  /\ \A o \in Orders : books.row[o].st = "done" => books.row[o].rec = ord[o].filled

\* A mandatory exit (hard stop, clock, STOP) gets out: once latched, the position ends
\* flat or a software exit for it is prepared, however the protective order over it
\* stood (release_for_exit, cancel).
MandatoryGetsOut == mem.reason = Mandatory ~> (sold = bought \/ mem.attempt > 0)

\* "known UNSENT, not a broker rejection ... keep the exit armed" (runtime.py, _exit): an
\* exit abandoned before its wire does not leave the episode waiting for it.
UnsentStaysArmed == pc = "undo" ~> ~mem.sent

\* A protective pair that ended without a fill is read as ended, so that the watched
\* exits take over (test_terminal_native_pair_keeps_watched_target_armed_for_owned_quantity).
EndedPairIsRead ==
  \A o \in Native : (ord[o].st = "held" /\ ord[o].live = {}) ~> books.row[o].st = "done"
==============================================================================
