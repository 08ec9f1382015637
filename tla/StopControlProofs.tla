---------------------------- MODULE StopControlProofs ----------------------------
(****************************************************************************)
(* Proofs about StopControl, for any number of orders, executors and        *)
(* generations, any lease time and any number of faults.                    *)
(****************************************************************************)
EXTENDS StopControl, TLAPS

------------------------------------------------------------------------------
(* Writing one row of a table.                                              *)

\* Replacing one well-formed row keeps the command table well-formed.
LEMMA PutCommand ==
  ASSUME TypeOK, NEW g \in Generations, NEW c \in Command
  PROVE  [cmd EXCEPT ![g] = c] \in [Generations -> Command]
  BY DEF TypeOK

\* Replacing one well-formed row keeps the order table well-formed.
LEMMA PutOrder ==
  ASSUME TypeOK, NEW o \in Orders, NEW r \in Order
  PROVE  [order EXCEPT ![o] = r] \in [Orders -> Order]
  BY DEF TypeOK

\* Replacing one well-formed row keeps the attempt table well-formed.
LEMMA PutAttempt ==
  ASSUME TypeOK, NEW o \in Orders, NEW a \in Attempt
  PROVE  [attempt EXCEPT ![o] = a] \in [Orders -> Attempt]
  BY DEF TypeOK

\* Replacing one well-formed drive keeps the executors well-formed.
LEMMA PutDrive ==
  ASSUME TypeOK, NEW e \in Executors, NEW d \in Drive
  PROVE  [exec EXCEPT ![e] = d] \in [Executors -> Drive]
  BY DEF TypeOK

\* A drive at rest is well-formed.
LEMMA NoDriveType == NoDrive \in Drive
  BY StopConstants DEF NoDrive, Drive, Stages, Turns

\* Ending the turn of an order keeps a drive well-formed.
LEMMA EndTurnType == ASSUME NEW d \in Drive PROVE EndTurn(d) \in Drive
  BY DEF EndTurn, Drive, Stages, Turns

\* A command keeps its type under the two writes of its phase and of its lease.
LEMMA PhaseType ==
  ASSUME NEW c \in Command, NEW p \in {"PENDING", "UNSETTLED", "SETTLED"}
  PROVE  [c EXCEPT !.phase = p] \in Command
  BY DEF Command

\* An order keeps its type when its status is written.
LEMMA StatusType ==
  ASSUME NEW r \in Order, NEW s \in Statuses PROVE [r EXCEPT !.status = s] \in Order
  BY DEF Order

\* An attempt keeps its type when its status is written, and when it is journalled by an
\* executor under a fence.
LEMMA AttemptType ==
  ASSUME NEW a \in Attempt, NEW e \in Executors, NEW f \in Nat,
         NEW s \in {"none", "PREPARED", "MAY_HAVE_SENT", "WORKING", "TERMINAL"}
  PROVE  /\ [a EXCEPT !.status = s] \in Attempt
         /\ [a EXCEPT !.status = s, !.executor = e, !.fence = f] \in Attempt
  BY DEF Attempt

\* A command that is being driven is the active one, of a generation in range.
LEMMA LeasedGen ==
  ASSUME TypeOK, NEW e \in Executors, Leased(e), HistoryConsistent
  PROVE  ctl.gen \in Generations /\ exec[e].gen = ctl.gen
  BY DEF TypeOK, Leased, HistoryConsistent, Snapshot, Generations

\* The phase write of a pass keeps the commands well-formed.
LEMMA UnsettledType ==
  ASSUME TypeOK, HistoryConsistent, NEW e \in Executors
  PROVE  Unsettled(e) \in [Generations -> Command]
<1>1. CASE Leased(e)
  <2>1. ctl.gen \in Generations
    BY <1>1, LeasedGen
  <2>2. [cmd[ctl.gen] EXCEPT !.phase = "UNSETTLED"] \in Command
    BY <2>1, PhaseType DEF TypeOK
  <2> QED
    BY <1>1, <2>1, <2>2, PutCommand DEF Unsettled
<1>2. CASE ~Leased(e)
  BY <1>2 DEF Unsettled, TypeOK
<1> QED
  BY <1>1, <1>2

------------------------------------------------------------------------------
(* Type correctness, with the agreement of state and history that puts every *)
(* generation in range.                                                     *)

\* The first state has the declared types, and an empty history.
LEMMA TypeInit == Init => TypeOK /\ HistoryConsistent
<1> SUFFICES ASSUME Init PROVE TypeOK /\ HistoryConsistent
  OBVIOUS
<1>1. ctl \in Snapshot
  BY StopConstants DEF Init, Snapshot
<1>2. cmd \in [Generations -> Command]
  BY DEF Init, Command
<1>3. order \in [Orders -> Order]
  BY DEF Init, Order, Statuses
<1>4. attempt \in [Orders -> Attempt]
  BY StopConstants DEF Init, Attempt
<1>5. exec \in [Executors -> Drive]
  BY NoDriveType DEF Init
<1> QED
  BY <1>1, <1>2, <1>3, <1>4, <1>5 DEF Init, TypeOK, HistoryConsistent

\* Requests of the operator keep the types, and start the history of a generation.
LEMMA TypeOperator == TypeOK /\ HistoryConsistent /\ Operator => TypeOK' /\ HistoryConsistent'
<1> SUFFICES ASSUME TypeOK, HistoryConsistent, Operator PROVE TypeOK' /\ HistoryConsistent'
  OBVIOUS
<1>1. CASE \E complete \in BOOLEAN : RequestStop(complete)
  <2>1. PICK complete \in BOOLEAN : RequestStop(complete)
    BY <1>1
  <2> DEFINE g == ctl.gen + 1
             c == [cmd[g] EXCEPT !.action = "STOP",
                     !.phase = IF complete THEN "PENDING" ELSE "UNSETTLED",
                     !.complete = complete, !.accepted = clock]
  <2>2. g \in Generations /\ g # 0
    BY <2>1, StopConstants DEF TypeOK, Snapshot, RequestStop, Generations
  <2>3. c \in Command /\ c.action = "STOP" /\ c.phase # "SETTLED"
    BY <2>2 DEF TypeOK, Command
  <2>4. cmd' = [cmd EXCEPT ![g] = c]
    BY <2>1 DEF RequestStop
  <2>5. ctl' = [gen |-> g, desired |-> "STOP", active |-> TRUE]
    BY <2>1 DEF RequestStop
  <2> HIDE DEF c, g
  <2>6. ctl' \in Snapshot
    BY <2>2, <2>5 DEF Snapshot, Generations
  <2>7. cmd' \in [Generations -> Command]
    BY <2>2, <2>3, <2>4, PutCommand
  <2>8. cmd'[g] = c
    BY <2>2, <2>4 DEF TypeOK
  <2>9. HistoryConsistent'
    BY <2>2, <2>3, <2>5, <2>8 DEF HistoryConsistent
  <2> QED
    BY <2>1, <2>6, <2>7, <2>9 DEF RequestStop, TypeOK
<1>2. CASE RequestOn
  <2> DEFINE g == ctl.gen + 1
             c == [cmd[g] EXCEPT !.action = "ON", !.phase = "SETTLED",
                                 !.complete = TRUE, !.accepted = clock]
  <2>2. g \in Generations /\ g # 0
    BY <1>2, StopConstants DEF TypeOK, Snapshot, RequestOn, Generations
  <2>3. c \in Command /\ c.action = "ON" /\ c.phase = "SETTLED"
    BY <2>2 DEF TypeOK, Command
  <2>4. cmd' = [cmd EXCEPT ![g] = c]
    BY <1>2 DEF RequestOn
  <2>5. ctl' = [gen |-> g, desired |-> "RUN", active |-> FALSE]
    BY <1>2 DEF RequestOn
  <2> HIDE DEF c, g
  <2>6. ctl' \in Snapshot
    BY <2>2, <2>5 DEF Snapshot, Generations
  <2>7. cmd' \in [Generations -> Command]
    BY <2>2, <2>3, <2>4, PutCommand
  <2>8. cmd'[g] = c
    BY <2>2, <2>4 DEF TypeOK
  <2>9. HistoryConsistent'
    BY <2>2, <2>3, <2>5, <2>8 DEF HistoryConsistent
  <2> QED
    BY <1>2, <2>6, <2>7, <2>9 DEF RequestOn, TypeOK
<1> QED
  BY <1>1, <1>2 DEF Operator

\* Every step of the entry fence keeps the types.
LEMMA TypeFence == TypeOK /\ Fence => TypeOK'
<1> SUFFICES ASSUME TypeOK, Fence PROVE TypeOK'
  OBVIOUS
<1>1. CASE Refresh
  BY <1>1 DEF Refresh, TypeOK
<1>2. ASSUME NEW o \in Orders, Stamp(o) PROVE TypeOK'
  <2>1. cache.gen \in 0 .. MaxGen
    BY <1>2 DEF Stamp, AdmissionOpen, TypeOK, Snapshot, Unknown
  <2>2. PICK decided \in 0 .. clock :
          order' = [order EXCEPT ![o] = [order[o] EXCEPT !.status = "pending",
                                           !.stamped = cache.gen, !.decided = decided]]
    BY <1>2 DEF Stamp
  <2>a. decided \in Nat
    BY DEF TypeOK
  <2>3. [order[o] EXCEPT !.status = "pending", !.stamped = cache.gen, !.decided = decided] \in Order
    BY <2>1, <2>a DEF TypeOK, Order, Statuses
  <2>4. order' \in [Orders -> Order]
    BY <2>2, <2>3, PutOrder
  <2> QED
    BY <1>2, <2>4 DEF Stamp, TypeOK
<1>3. ASSUME NEW o \in Orders, Check(o) PROVE TypeOK'
  BY <1>3 DEF Check, TypeOK
<1>4. ASSUME NEW o \in Orders, Authorize(o) PROVE TypeOK'
  <2>1. [order[o] EXCEPT !.permit = TRUE] \in Order
    BY DEF TypeOK, Order
  <2>2. order' \in [Orders -> Order]
    BY <1>4, <2>1, PutOrder DEF Authorize, TypeOK
  <2> QED
    BY <1>4, <2>2 DEF Authorize, TypeOK
<1>5. ASSUME NEW o \in Orders, Post(o) PROVE TypeOK'
  BY <1>5 DEF Post, TypeOK
<1>6. ASSUME NEW o \in Orders, ProveUnsent(o) PROVE TypeOK'
  <2>1. [order[o] EXCEPT !.status = "aborted"] \in Order
    BY DEF TypeOK, Order, Statuses
  <2>2. order' \in [Orders -> Order]
    BY <1>6, <2>1, PutOrder DEF ProveUnsent
  <2> QED
    BY <1>6, <2>2 DEF ProveUnsent, TypeOK
<1> QED
  BY <1>1, <1>2, <1>3, <1>4, <1>5, <1>6 DEF Fence

\* A step that leaves the control row alone, and of the current command only changes
\* the lease or moves between unsettled phases, keeps state and history in agreement.
LEMMA HistoryKept ==
  ASSUME HistoryConsistent, ctl' = ctl,
         ctl.gen # 0 => /\ cmd'[ctl.gen].action = cmd[ctl.gen].action
                        /\ (cmd'[ctl.gen].phase = "SETTLED") <=> (cmd[ctl.gen].phase = "SETTLED")
  PROVE  HistoryConsistent'
  BY DEF HistoryConsistent

\* The phase write of a pass keeps state and history in agreement.
LEMMA UnsettledKept ==
  ASSUME TypeOK, HistoryConsistent, NEW e \in Executors, ctl' = ctl, cmd' = Unsettled(e)
  PROVE  HistoryConsistent'
<1>1. CASE Leased(e)
  <2>1. ctl.gen \in Generations /\ ctl.active
    BY <1>1, LeasedGen DEF Leased
  <2>2. cmd' = [cmd EXCEPT ![ctl.gen] = [cmd[ctl.gen] EXCEPT !.phase = "UNSETTLED"]]
    BY <1>1 DEF Unsettled
  <2>3. cmd[ctl.gen].phase # "SETTLED"
    BY <2>1 DEF HistoryConsistent, Generations
  <2>4. cmd'[ctl.gen].action = cmd[ctl.gen].action /\ cmd'[ctl.gen].phase = "UNSETTLED"
    BY <2>1, <2>2 DEF TypeOK, Command
  <2> QED
    BY <2>3, <2>4, HistoryKept
<1>2. CASE ~Leased(e)
  BY <1>2, HistoryKept DEF Unsettled
<1> QED
  BY <1>1, <1>2

\* Claiming and renewing the lease.
LEMMA TypeLease ==
  ASSUME TypeOK, HistoryConsistent, NEW e \in Executors, Claim(e) \/ Renew(e)
  PROVE  TypeOK' /\ HistoryConsistent'
<1>1. CASE Claim(e)
  <2> DEFINE held == cmd[ctl.gen].until > clock
             fence == IF held THEN cmd[ctl.gen].fence ELSE cmd[ctl.gen].fence + 1
             c == [cmd[ctl.gen] EXCEPT !.executor = e, !.fence = fence, !.until = clock + LeaseTime]
             d == [NoDrive EXCEPT !.stage = "leased", !.gen = ctl.gen, !.fence = fence]
  <2>1. ctl.gen \in Generations
    BY <1>1 DEF Claim, TypeOK, Snapshot, HistoryConsistent, Generations
  <2>2. fence \in Nat /\ clock + LeaseTime \in Nat
    BY <2>1, StopConstants DEF TypeOK, Command
  <2>3. cmd' = [cmd EXCEPT ![ctl.gen] = c] /\ exec' = [exec EXCEPT ![e] = d]
    BY <1>1 DEF Claim
  <2> HIDE DEF fence
  <2>4. c \in Command /\ c.action = cmd[ctl.gen].action /\ c.phase = cmd[ctl.gen].phase
    BY <2>1, <2>2 DEF TypeOK, Command
  <2>5. d \in Drive
    BY <2>1, <2>2, NoDriveType DEF NoDrive, Drive, Stages, Turns, Generations, TypeOK, Snapshot
  <2> HIDE DEF c, d
  <2>6. cmd' \in [Generations -> Command] /\ exec' \in [Executors -> Drive]
    BY <2>1, <2>3, <2>4, <2>5, PutCommand, PutDrive
  <2>7. cmd'[ctl.gen] = c
    BY <2>1, <2>3 DEF TypeOK
  <2>8. ctl' = ctl
    BY <1>1 DEF Claim
  <2>9. HistoryConsistent'
    BY <2>4, <2>7, <2>8, HistoryKept
  <2> QED
    BY <1>1, <2>6, <2>9 DEF Claim, TypeOK
<1>2. CASE Renew(e)
  <2> DEFINE c == [cmd[ctl.gen] EXCEPT !.until = clock + LeaseTime]
  <2>1. ctl.gen \in Generations
    BY <1>2, LeasedGen DEF Renew
  <2>2. clock + LeaseTime \in Nat
    BY StopConstants DEF TypeOK
  <2>3. cmd' = [cmd EXCEPT ![ctl.gen] = c]
    BY <1>2 DEF Renew
  <2>4. c \in Command /\ c.action = cmd[ctl.gen].action /\ c.phase = cmd[ctl.gen].phase
    BY <2>1, <2>2 DEF TypeOK, Command
  <2> HIDE DEF c
  <2>6. cmd' \in [Generations -> Command]
    BY <2>1, <2>3, <2>4, PutCommand
  <2>7. cmd'[ctl.gen] = c
    BY <2>1, <2>3 DEF TypeOK
  <2>8. ctl' = ctl
    BY <1>2 DEF Renew
  <2>9. HistoryConsistent'
    BY <2>4, <2>7, <2>8, HistoryKept
  <2> QED
    BY <1>2, <2>6, <2>9 DEF Renew, TypeOK
<1> QED
  BY <1>1, <1>2

\* The steps of a pass over the inventory and the turn of an order.
LEMMA TypePass ==
  ASSUME TypeOK, HistoryConsistent, NEW e \in Executors,
         \/ Inventory(e) \/ EndPass(e) \/ Read(e) \/ Record(e) \/ Dispatch(e)
         \/ CancelWire(e) \/ Census(e) \/ \E o \in Orders : Prepare(e, o)
  PROVE  TypeOK' /\ HistoryConsistent'
<1>0. exec[e] \in Drive
  BY DEF TypeOK
<1>1. CASE Inventory(e)
  <2> DEFINE entries == {o \in Orders : order[o].status \notin CensusTerminal \cup {"none"}}
             d == [exec[e] EXCEPT !.stage = IF entries = {} THEN "listed" ELSE "visiting",
                                  !.todo = entries]
  <2>1. exec' = [exec EXCEPT ![e] = d]
    BY <1>1, <1>0 DEF Inventory, TypeOK, Drive
  <2>2. entries \in SUBSET Orders
    OBVIOUS
  <2> HIDE DEF entries
  <2>3. d \in Drive
    BY <1>0, <2>2 DEF Drive, Stages, Turns
  <2>4. exec' \in [Executors -> Drive]
    BY <2>1, <2>3, PutDrive
  <2> QED
    BY <1>1, <2>4, HistoryKept DEF Inventory, TypeOK
<1>2. CASE EndPass(e)
  <2>1. cmd' = Unsettled(e) /\ ctl' = ctl /\ exec' = [exec EXCEPT ![e] = NoDrive]
    BY <1>2 DEF EndPass
  <2>2. exec' \in [Executors -> Drive] /\ cmd' \in [Generations -> Command]
    BY <2>1, NoDriveType, PutDrive, UnsettledType
  <2> QED
    BY <1>2, <2>1, <2>2, UnsettledKept DEF EndPass, TypeOK
<1>3. CASE Read(e)
  <2> DEFINE d == [exec[e] EXCEPT !.stage = IF exec[e].stage = "prepared" THEN "read" ELSE "reread",
                                  !.seen = wire[exec[e].order]]
  <2>1. exec' = [exec EXCEPT ![e] = d]
    BY <1>3, <1>0 DEF Read, TypeOK, Drive
  <2>2. d \in Drive
    BY <1>0, <1>3 DEF Drive, Stages, Turns, TypeOK, Read
  <2> QED
    BY <1>3, <2>1, <2>2, PutDrive, HistoryKept DEF Read, TypeOK
<1>4. CASE Record(e)
  <2> DEFINE o == exec[e].order
             a == [attempt[o] EXCEPT
                     !.status = IF exec[e].seen = "live" THEN "WORKING" ELSE "TERMINAL",
                     !.executor = e, !.fence = exec[e].fence]
             r == [order[o] EXCEPT !.status = StatusOf(exec[e].seen)]
             d == [exec[e] EXCEPT !.stage = "dispatching"]
  <2>1. o \in Orders
    BY <1>0, <1>4 DEF Record, Drive, Turns
  <2>2. order' \in {order, [order EXCEPT ![o] = r]} /\ attempt' \in {attempt, [attempt EXCEPT ![o] = a]}
    BY <1>4 DEF Record
  <2>3. exec' \in {[exec EXCEPT ![e] = d], [exec EXCEPT ![e] = EndTurn(exec[e])]}
    BY <1>4 DEF Record
  <2>4. StatusOf(exec[e].seen) \in Statuses
    BY DEF StatusOf, Statuses
  <2>a. order[o] \in Order /\ attempt[o] \in Attempt
    BY <2>1 DEF TypeOK
  <2>b. exec[e].fence \in Nat
    BY <1>0 DEF Drive
  <2>c. (IF exec[e].seen = "live" THEN "WORKING" ELSE "TERMINAL")
          \in {"none", "PREPARED", "MAY_HAVE_SENT", "WORKING", "TERMINAL"}
    OBVIOUS
  <2>5. r \in Order
    BY <2>a, <2>4, StatusType
  <2>6. a \in Attempt
    BY <2>a, <2>b, <2>c, AttemptType
  <2>7. d \in Drive /\ EndTurn(exec[e]) \in Drive
    BY <1>0, <2>1, EndTurnType DEF Drive, Stages, Turns
  <2> HIDE DEF r, a, d
  <2>8. /\ order' \in [Orders -> Order] /\ attempt' \in [Orders -> Attempt]
        /\ exec' \in [Executors -> Drive]
    BY <2>1, <2>2, <2>3, <2>5, <2>6, <2>7, PutOrder, PutAttempt, PutDrive DEF TypeOK
  <2> HIDE DEF o
  <2>9. UNCHANGED <<ctl, cmd, cache, lane, wire, posts, cancels, clock, faults>>
    BY <1>4 DEF Record
  <2> QED
    BY <2>8, <2>9, HistoryKept DEF TypeOK
<1>5. CASE Dispatch(e)
  <2> DEFINE o == exec[e].order
             a == [attempt[o] EXCEPT !.status = "MAY_HAVE_SENT"]
             d == [exec[e] EXCEPT !.stage = "cancelling"]
  <2>1. o \in Orders
    BY <1>0, <1>5 DEF Dispatch, Drive, Turns
  <2>2. attempt' \in {attempt, [attempt EXCEPT ![o] = a]}
    BY <1>5 DEF Dispatch
  <2>3. exec' \in {[exec EXCEPT ![e] = d], [exec EXCEPT ![e] = EndTurn(exec[e])]}
    BY <1>5 DEF Dispatch
  <2>a. attempt[o] \in Attempt
    BY <2>1 DEF TypeOK
  <2>4. a \in Attempt
    BY <2>a, AttemptType
  <2>5. d \in Drive /\ EndTurn(exec[e]) \in Drive
    BY <1>0, <2>1, EndTurnType DEF Drive, Stages, Turns
  <2> HIDE DEF a, d
  <2>6. attempt' \in [Orders -> Attempt] /\ exec' \in [Executors -> Drive]
    BY <2>1, <2>2, <2>3, <2>4, <2>5, PutAttempt, PutDrive DEF TypeOK
  <2> QED
    BY <1>5, <2>6, HistoryKept DEF Dispatch, TypeOK
<1>6. CASE CancelWire(e)
  <2> DEFINE d == [exec[e] EXCEPT !.stage = "sent"]
  <2>1. exec[e].order \in Orders
    BY <1>0, <1>6 DEF CancelWire, Drive, Turns
  <2>2. exec' = [exec EXCEPT ![e] = d]
    BY <1>6 DEF CancelWire
  <2>3. d \in Drive
    BY <1>0, <2>1 DEF Drive, Stages, Turns
  <2>4. exec' \in [Executors -> Drive]
    BY <2>2, <2>3, PutDrive
  <2> QED
    BY <1>6, <2>1, <2>4, HistoryKept DEF CancelWire, TypeOK
<1>7. CASE Census(e)
  <2> DEFINE d == [exec[e] EXCEPT !.stage = "counted", !.at = clock]
  <2>1. exec' = [exec EXCEPT ![e] = d]
    BY <1>7, <1>0 DEF Census, TypeOK, Drive
  <2>2. d \in Drive
    BY <1>0 DEF Drive, Stages, Turns, TypeOK
  <2>3. exec' \in [Executors -> Drive]
    BY <2>1, <2>2, PutDrive
  <2> QED
    BY <1>7, <2>3, HistoryKept DEF Census, TypeOK
<1>8. ASSUME NEW o \in Orders, Prepare(e, o) PROVE TypeOK' /\ HistoryConsistent'
  <2> DEFINE a == [gen |-> exec[e].gen, status |-> "PREPARED", executor |-> e, fence |-> exec[e].fence]
             d2 == [exec[e] EXCEPT !.todo = @ \ {o}]
             d1 == [d2 EXCEPT !.stage = "prepared", !.order = o]
  <2>1. attempt' \in {attempt, [attempt EXCEPT ![o] = a]}
    BY <1>8 DEF Prepare
  <2>2. exec' \in {[exec EXCEPT ![e] = d1], [exec EXCEPT ![e] = d2]}
    BY <1>8 DEF Prepare
  <2>3. a \in Attempt
    BY <1>0 DEF Attempt, Drive
  <2>4. d1 \in Drive /\ d2 \in Drive
    BY <1>0 DEF Drive, Stages, Turns
  <2> HIDE DEF a, d1, d2
  <2>5. attempt' \in [Orders -> Attempt] /\ exec' \in [Executors -> Drive]
    BY <2>1, <2>2, <2>3, <2>4, PutAttempt, PutDrive DEF TypeOK
  <2>6. UNCHANGED <<ctl, cmd, cache, order, lane, wire, posts, cancels, clock, faults>>
    BY <1>8 DEF Prepare
  <2> QED
    BY <2>5, <2>6, HistoryKept DEF TypeOK
<1> QED
  BY <1>1, <1>2, <1>3, <1>4, <1>5, <1>6, <1>7, <1>8

\* Settlement, failed passes and crashes.
LEMMA TypeEnd ==
  ASSUME TypeOK, HistoryConsistent, NEW e \in Executors, Settle(e) \/ Fail(e) \/ Crash(e)
  PROVE  TypeOK' /\ HistoryConsistent'
<1>0. exec[e] \in Drive
  BY DEF TypeOK
<1>1. CASE Settle(e)
  <2>1. exec' = [exec EXCEPT ![e] = NoDrive]
    BY <1>1 DEF Settle
  <2>2. exec' \in [Executors -> Drive]
    BY <2>1, NoDriveType, PutDrive
  <2>3. UNCHANGED <<cache, order, lane, wire, posts, attempt, cancels, clock, faults>>
    BY <1>1 DEF Settle
  <2>4. CASE Settleable(e)
    <3> DEFINE c == [cmd[ctl.gen] EXCEPT !.phase = "SETTLED"]
    <3>1. ctl.gen \in Generations /\ ctl.active /\ ctl.desired = "STOP"
      BY <2>4, LeasedGen DEF Settleable, Leased
    <3>2. cmd[ctl.gen] \in Command /\ cmd[ctl.gen].action = "STOP"
      BY <3>1 DEF TypeOK, HistoryConsistent, Generations
    <3>3. c \in Command /\ c.action = "STOP" /\ c.phase = "SETTLED"
      BY <3>2, PhaseType DEF Command
    <3>4. cmd' = [cmd EXCEPT ![ctl.gen] = c] /\ ctl' = [ctl EXCEPT !.active = FALSE]
      BY <1>1, <2>4 DEF Settle
    <3> HIDE DEF c
    <3>5. cmd' \in [Generations -> Command]
      BY <3>1, <3>3, <3>4, PutCommand
    <3>6. cmd'[ctl.gen] = c
      BY <3>1, <3>4 DEF TypeOK
    <3>7. ctl' \in Snapshot /\ ctl'.gen = ctl.gen /\ ctl'.desired = "STOP" /\ ~ctl'.active
      BY <3>1, <3>4 DEF TypeOK, Snapshot
    <3>8. HistoryConsistent'
      BY <3>1, <3>3, <3>6, <3>7 DEF HistoryConsistent, Generations
    <3> QED
      BY <2>2, <2>3, <3>5, <3>7, <3>8 DEF TypeOK
  <2>5. CASE ~Settleable(e)
    <3>1. cmd' = Unsettled(e) /\ ctl' = ctl
      BY <1>1, <2>5 DEF Settle
    <3> QED
      BY <2>2, <2>3, <3>1, UnsettledType, UnsettledKept DEF TypeOK
  <2> QED
    BY <2>4, <2>5
<1>2. CASE Fail(e)
  <2>1. ctl' = ctl /\ UNCHANGED <<cache, order, lane, wire, posts, attempt, cancels, clock>>
    BY <1>2 DEF Fail
  <2>2. faults' \in Nat
    BY <1>2 DEF Fail, TypeOK
  <2>3. CASE exec[e].stage \in Turns
    <3>1. cmd' = cmd /\ exec' = [exec EXCEPT ![e] = EndTurn(exec[e])]
      BY <1>2, <2>3 DEF Fail
    <3>2. exec' \in [Executors -> Drive]
      BY <1>0, <3>1, EndTurnType, PutDrive
    <3> QED
      BY <2>1, <2>2, <3>1, <3>2, HistoryKept DEF TypeOK
  <2>4. CASE exec[e].stage \notin Turns
    <3>1. cmd' = Unsettled(e) /\ exec' = [exec EXCEPT ![e] = NoDrive]
      BY <1>2, <2>4 DEF Fail
    <3>2. exec' \in [Executors -> Drive] /\ cmd' \in [Generations -> Command]
      BY <3>1, NoDriveType, PutDrive, UnsettledType
    <3> QED
      BY <2>1, <2>2, <3>1, <3>2, UnsettledKept DEF TypeOK
  <2> QED
    BY <2>3, <2>4
<1>3. CASE Crash(e)
  <2> DEFINE d == [NoDrive EXCEPT !.stage = "down"]
  <2>1. exec' = [exec EXCEPT ![e] = d]
    BY <1>3 DEF Crash
  <2>2. d \in Drive
    BY NoDriveType DEF NoDrive, Drive, Stages, Turns
  <2> HIDE DEF d
  <2>3. exec' \in [Executors -> Drive]
    BY <2>1, <2>2, PutDrive
  <2>4. lane' \in [Orders -> {"idle", "checked", "granted"}] /\ cache' \in Snapshot \cup {Unknown}
    BY <1>3 DEF Crash, TypeOK
  <2>5. faults' \in Nat /\ UNCHANGED <<ctl, cmd, order, wire, posts, attempt, cancels, clock>>
    BY <1>3 DEF Crash, TypeOK
  <2> QED
    BY <2>3, <2>4, <2>5, HistoryKept DEF TypeOK
<1> QED
  BY <1>1, <1>2, <1>3

\* The broker, the order sync, the sale of a position and time.
LEMMA TypeOutside ==
  ASSUME TypeOK, HistoryConsistent,
         (\E o \in Orders : BrokerEnds(o) \/ Report(o) \/ Exit(o)) \/ Tick
  PROVE  TypeOK' /\ HistoryConsistent'
<1>1. ASSUME NEW o \in Orders, BrokerEnds(o) PROVE TypeOK' /\ HistoryConsistent'
  BY <1>1, HistoryKept DEF BrokerEnds, TypeOK
<1>2. ASSUME NEW o \in Orders, Report(o) PROVE TypeOK' /\ HistoryConsistent'
  <2>1. StatusOf(wire[o]) \in Statuses /\ order[o] \in Order
    BY DEF StatusOf, Statuses, TypeOK
  <2>2. [order[o] EXCEPT !.status = StatusOf(wire[o])] \in Order
    BY <2>1, StatusType
  <2>3. order' \in [Orders -> Order]
    BY <1>2, <2>2, PutOrder DEF Report
  <2> QED
    BY <1>2, <2>3, HistoryKept DEF Report, TypeOK
<1>3. ASSUME NEW o \in Orders, Exit(o) PROVE TypeOK' /\ HistoryConsistent'
  <2>1. [order[o] EXCEPT !.exited = TRUE] \in Order
    BY DEF TypeOK, Order
  <2>2. order' \in [Orders -> Order]
    BY <1>3, <2>1, PutOrder DEF Exit
  <2> QED
    BY <1>3, <2>2, HistoryKept DEF Exit, TypeOK
<1>4. CASE Tick
  BY <1>4, HistoryKept DEF Tick, TypeOK
<1> QED
  BY <1>1, <1>2, <1>3, <1>4

\* The entry fence writes neither the control row nor a command.
LEMMA HistoryFence == Fence => ctl' = ctl /\ cmd' = cmd
  BY DEF Fence, Refresh, Stamp, Check, Authorize, Post, ProveUnsent

\* Types, and the agreement of state and history, are preserved by every step.
LEMMA TypeStep == TypeOK /\ HistoryConsistent /\ [Next]_vars => TypeOK' /\ HistoryConsistent'
<1> SUFFICES ASSUME TypeOK, HistoryConsistent, [Next]_vars PROVE TypeOK' /\ HistoryConsistent'
  OBVIOUS
<1>1. CASE Operator
  BY <1>1, TypeOperator
<1>2. CASE Fence
  BY <1>2, TypeFence, HistoryFence, HistoryKept
<1>3. ASSUME NEW e \in Executors, Driving(e) PROVE TypeOK' /\ HistoryConsistent'
  BY <1>3, TypeLease, TypePass, TypeEnd DEF Driving
<1>4. CASE Outside
  BY <1>4, TypeLease, TypeEnd, TypeOutside DEF Outside
<1>5. CASE UNCHANGED vars
  BY <1>5, HistoryKept DEF vars, TypeOK
<1> QED
  BY <1>1, <1>2, <1>3, <1>4, <1>5 DEF Next

\* Whatever operators, executors and faults do, _validate_state() never finds the control
\* row and its command history in disagreement.
THEOREM HistoryCorrect == Spec => [](TypeOK /\ HistoryConsistent)
<1>1. TypeOK /\ HistoryConsistent /\ [Next]_vars => (TypeOK /\ HistoryConsistent)'
  BY TypeStep
<1> QED
  BY <1>1, TypeInit, PTL DEF Spec

------------------------------------------------------------------------------
(* What the order table tells about the broker, and the census about the    *)
(* strategy: the inductive invariant under the wire and settlement theorems.*)

\* The permit stands between the order and its one POST, and the status never says
\* more than what is at the broker.
OrderInv(o) ==
  /\ posts[o] \in {0, 1}
  /\ lane[o] = "granted" => order[o].permit /\ posts[o] = 0 /\ order[o].status = "pending"
  /\ posts[o] = 1 => order[o].permit
  /\ wire[o] # "no" => posts[o] = 1
  /\ order[o].status \in {"none", "aborted"} => ~order[o].permit
  /\ wire[o] = "no" => order[o].status \in {"none", "pending", "aborted"}
  /\ wire[o] = "live" => order[o].status \in {"pending", "working"}
  /\ wire[o] = "dead" => order[o].status \in {"pending", "working", "cancelled"}
  /\ wire[o] = "filled" => order[o].status \in {"pending", "working", "filled"}
  /\ attempt[o].gen # 0 => wire[o] # "no"

\* Nothing of the order can reach the broker, lives there or is held.
Quiet(o) ==
  /\ lane[o] # "granted" /\ wire[o] # "live"
  /\ wire[o] = "filled" => order[o].exited

\* An executor only ever looks at orders the broker knows, what it read stays true
\* unless it was "live", and its census holds as long as its command is the active one.
DriveInv(e) ==
  /\ exec[e].gen <= ctl.gen
  /\ exec[e].stage \notin Turns => exec[e].order = NoOne
  /\ exec[e].order = NoOne => exec[e].seen = "live"
  /\ exec[e].order # NoOne => /\ wire[exec[e].order] # "no"
                              /\ exec[e].seen \in {"live", wire[exec[e].order]}
  /\ exec[e].stage = "counted" /\ ctl.active /\ ctl.gen = exec[e].gen =>
       \A o \in Orders : Quiet(o)

WireInv ==
  /\ \A o \in Orders : OrderInv(o)
  /\ \A e \in Executors : DriveInv(e)
  /\ SettledQuiet
  /\ FreshAfterOn

\* What any step but a request and a settlement may do to an order: a permit is only
\* granted where authorize_entry() allows it, only a granted order appears at the broker,
\* what ended there stays ended, a sale is final and a prepared decision is not restamped.
Moves ==
  \A o \in Orders :
    /\ lane'[o] = "granted" => lane[o] = "granted" \/ Permitted(o)
    /\ \/ wire'[o] = wire[o]
       \/ wire[o] = "live" /\ wire'[o] \in {"filled", "dead"}
       \/ wire[o] = "no" /\ wire'[o] = "live" /\ lane[o] = "granted"
    /\ order[o].exited => order'[o].exited
    /\ order[o].status # "none" => /\ order'[o].stamped = order[o].stamped
                                   /\ order'[o].decided = order[o].decided

\* Under such steps the settled strategy stays quiet, entries after an ON stay fresh, a
\* census of the active command stays true, and so does what the other executors know.
LEMMA Carried ==
  ASSUME TypeOK, HistoryConsistent, WireInv, Moves, ctl' = ctl,
         ctl.gen # 0 => cmd'[ctl.gen].accepted = cmd[ctl.gen].accepted
  PROVE  /\ SettledQuiet' /\ FreshAfterOn'
         /\ ctl.desired = "STOP" => \A o \in Orders : Quiet(o) => Quiet(o)'
         /\ \A e \in Executors : exec'[e] = exec[e] => DriveInv(e)'
<1>1. ctl.desired = "STOP" => \A o \in Orders : Quiet(o) => Quiet(o)'
  BY DEF Quiet, Moves, Permitted, AdmissionOpen
<1>2. SettledQuiet'
  BY <1>1 DEF SettledQuiet, WireInv, Quiet
<1>3. FreshAfterOn'
  <2> SUFFICES ASSUME ctl.desired = "RUN", ctl.gen > 0, NEW o \in Orders,
                      lane'[o] = "granted" \/ wire'[o] = "live"
               PROVE  order'[o].stamped = ctl.gen /\ order'[o].decided >= cmd[ctl.gen].accepted
    BY DEF FreshAfterOn, TypeOK, Snapshot
  <2>1. lane[o] = "granted" \/ Permitted(o) \/ wire[o] = "live"
    BY DEF Moves
  <2>2. order[o].status # "none"
    BY <2>1 DEF WireInv, OrderInv, Permitted
  <2>3. order[o].decided \in Nat /\ cmd[ctl.gen].accepted \in Nat
    BY DEF TypeOK, Order, Snapshot, Generations, Command
  <2>4. order[o].stamped = ctl.gen /\ order[o].decided >= cmd[ctl.gen].accepted
    BY <2>1, <2>3 DEF WireInv, FreshAfterOn, Permitted
  <2> QED
    BY <2>2, <2>4 DEF Moves
<1>4. ASSUME NEW e \in Executors, exec'[e] = exec[e] PROVE DriveInv(e)'
  <2>1. DriveInv(e) /\ exec[e] \in Drive
    BY DEF WireInv, TypeOK
  <2>2. exec[e].order # NoOne => /\ wire'[exec[e].order] # "no"
                                 /\ exec[e].seen \in {"live", wire'[exec[e].order]}
    BY <2>1 DEF DriveInv, Moves, Drive
  <2>3. ctl.active => ctl.desired = "STOP"
    BY DEF HistoryConsistent
  <2>4. exec[e].stage = "counted" /\ ctl.active /\ ctl.gen = exec[e].gen =>
          \A o \in Orders : Quiet(o)'
    BY <1>1, <2>1, <2>3 DEF DriveInv
  <2> QED
    BY <1>4, <2>1, <2>2, <2>4 DEF DriveInv
<1> QED
  BY <1>1, <1>2, <1>3, <1>4

\* The first state is quiet and nothing is permitted.
LEMMA WireInit == Init => WireInv
  BY StopConstants DEF Init, WireInv, OrderInv, DriveInv, SettledQuiet, FreshAfterOn, NoDrive, Turns

\* A request starts a new generation: no census speaks of it yet, and an ON finds the
\* strategy quiet.
LEMMA WireOperator == TypeOK /\ HistoryConsistent /\ WireInv /\ Operator => WireInv'
<1> SUFFICES ASSUME TypeOK, HistoryConsistent, WireInv, Operator PROVE WireInv'
  OBVIOUS
<1>1. UNCHANGED <<order, lane, wire, posts, attempt, exec>>
  BY DEF Operator, RequestStop, RequestOn
<1>2. ctl' \in {[gen |-> ctl.gen + 1, desired |-> "STOP", active |-> TRUE],
                [gen |-> ctl.gen + 1, desired |-> "RUN", active |-> FALSE]}
  BY DEF Operator, RequestStop, RequestOn
<1>3. ctl.gen \in Nat /\ ctl'.gen = ctl.gen + 1
  BY <1>2 DEF TypeOK, Snapshot
<1>4. ctl'.desired = "RUN" => ctl.desired = "STOP" /\ ~ctl.active
  <2>1. CASE \E complete \in BOOLEAN : RequestStop(complete)
    <3>1. ctl' = [gen |-> ctl.gen + 1, desired |-> "STOP", active |-> TRUE]
      BY <2>1 DEF RequestStop
    <3> QED
      BY <3>1
  <2>2. CASE RequestOn
    BY <2>2 DEF RequestOn
  <2> QED
    BY <2>1, <2>2 DEF Operator
<1>5. \A o \in Orders : OrderInv(o)'
  BY <1>1 DEF WireInv, OrderInv
<1>6. ASSUME NEW e \in Executors PROVE DriveInv(e)'
  <2>1. DriveInv(e) /\ exec[e].gen \in Nat
    BY DEF WireInv, TypeOK, Drive
  <2> QED
    BY <1>1, <1>3, <2>1 DEF DriveInv
<1>7. SettledQuiet'
  BY <1>2 DEF SettledQuiet
<1>8. FreshAfterOn'
  BY <1>1, <1>4 DEF FreshAfterOn, WireInv, SettledQuiet
<1> QED
  BY <1>5, <1>6, <1>7, <1>8 DEF WireInv

\* A step that leaves control, commands and executors alone needs only its effect on
\* the orders.
LEMMA WireByOrders ==
  ASSUME TypeOK, HistoryConsistent, WireInv, Moves, \A o \in Orders : OrderInv(o)',
         ctl' = ctl, cmd' = cmd, exec' = exec
  PROVE  WireInv'
  BY Carried DEF WireInv

\* The steps of the entry fence.
LEMMA WireFence == TypeOK /\ HistoryConsistent /\ WireInv /\ Fence => WireInv'
<1> SUFFICES ASSUME TypeOK, HistoryConsistent, WireInv, Fence PROVE WireInv'
  OBVIOUS
<1>1. ctl' = ctl /\ cmd' = cmd /\ exec' = exec
  BY DEF Fence, Refresh, Stamp, Check, Authorize, Post, ProveUnsent
<1>2. CASE Refresh
  BY <1>1, <1>2, WireByOrders DEF Refresh, Moves, OrderInv, WireInv
<1>3. ASSUME NEW o \in Orders, Stamp(o) PROVE WireInv'
  <2>1. PICK decided \in 0 .. clock :
          order' = [order EXCEPT ![o] = [order[o] EXCEPT !.status = "pending",
                                           !.stamped = cache.gen, !.decided = decided]]
    BY <1>3 DEF Stamp
  <2>2. /\ order'[o].status = "pending" /\ order'[o].permit = order[o].permit
        /\ order'[o].exited = order[o].exited
    BY <2>1 DEF TypeOK, Order
  <2>3. \A p \in Orders \ {o} : order'[p] = order[p]
    BY <2>1 DEF TypeOK
  <2>4. order[o].status = "none" /\ UNCHANGED <<lane, wire, posts, attempt>>
    BY <1>3 DEF Stamp
  <2>5. Moves
    BY <2>2, <2>3, <2>4 DEF Moves
  <2>6. \A p \in Orders : OrderInv(p)'
    BY <2>2, <2>3, <2>4 DEF WireInv, OrderInv
  <2> QED
    BY <1>1, <2>5, <2>6, WireByOrders
<1>4. ASSUME NEW o \in Orders, Check(o) PROVE WireInv'
  <2>1. \A p \in Orders : lane'[p] = "granted" => lane[p] = "granted"
    BY <1>4 DEF Check, TypeOK
  <2>2. UNCHANGED <<order, wire, posts, attempt>>
    BY <1>4 DEF Check
  <2> QED
    BY <1>1, <2>1, <2>2, WireByOrders DEF Moves, OrderInv, WireInv
<1>5. ASSUME NEW o \in Orders, Authorize(o) PROVE WireInv'
  <2>1. UNCHANGED <<wire, posts, attempt>>
    BY <1>5 DEF Authorize
  <2>2. CASE Permitted(o)
    <3>1. order' = [order EXCEPT ![o] = [order[o] EXCEPT !.permit = TRUE]]
      BY <1>5, <2>2 DEF Authorize
    <3>2. /\ order'[o].permit /\ order'[o].status = order[o].status
          /\ order'[o].exited = order[o].exited /\ order'[o].stamped = order[o].stamped
          /\ order'[o].decided = order[o].decided
      BY <3>1 DEF TypeOK, Order
    <3>3. \A p \in Orders \ {o} : order'[p] = order[p] /\ lane'[p] = lane[p]
      BY <1>5, <2>2, <3>1 DEF TypeOK, Authorize
    <3>4. Moves
      BY <2>1, <2>2, <3>2, <3>3 DEF Moves
    <3>5. order[o].status = "pending" /\ ~order[o].permit /\ posts[o] = 0
      BY <2>2 DEF Permitted, WireInv, OrderInv
    <3>6. \A p \in Orders : OrderInv(p)'
      BY <2>1, <3>2, <3>3, <3>5 DEF WireInv, OrderInv
    <3> QED
      BY <1>1, <3>4, <3>6, WireByOrders
  <2>3. CASE ~Permitted(o)
    <3>1. \A p \in Orders : lane'[p] = "granted" => lane[p] = "granted"
      BY <1>5, <2>3 DEF Authorize, TypeOK
    <3>2. order' = order
      BY <1>5, <2>3 DEF Authorize
    <3> QED
      BY <1>1, <2>1, <3>1, <3>2, WireByOrders DEF Moves, OrderInv, WireInv
  <2> QED
    BY <2>2, <2>3
<1>6. ASSUME NEW o \in Orders, Post(o) PROVE WireInv'
  <2>1. UNCHANGED <<order, attempt>> /\ lane[o] = "granted"
    BY <1>6 DEF Post
  <2>2. posts[o] = 0 /\ wire[o] = "no" /\ order[o].permit /\ order[o].status = "pending"
    BY <2>1 DEF WireInv, OrderInv
  <2>3. posts'[o] = 1 /\ lane'[o] = "idle" /\ wire'[o] \in {"no", "live"}
    BY <1>6, <2>2 DEF Post, TypeOK
  <2>4. \A p \in Orders \ {o} : lane'[p] = lane[p] /\ posts'[p] = posts[p] /\ wire'[p] = wire[p]
    BY <1>6 DEF Post, TypeOK
  <2>5. Moves
    BY <2>1, <2>2, <2>3, <2>4 DEF Moves
  <2>6. \A p \in Orders : OrderInv(p)'
    BY <2>1, <2>2, <2>3, <2>4 DEF WireInv, OrderInv
  <2> QED
    BY <1>1, <2>5, <2>6, WireByOrders
<1>7. ASSUME NEW o \in Orders, ProveUnsent(o) PROVE WireInv'
  <2>1. UNCHANGED <<lane, wire, posts, attempt>> /\ order[o].status = "pending" /\ ~order[o].permit
    BY <1>7 DEF ProveUnsent, Unsent
  <2>2. order' = [order EXCEPT ![o] = [order[o] EXCEPT !.status = "aborted"]]
    BY <1>7 DEF ProveUnsent
  <2>3. /\ order'[o].status = "aborted" /\ order'[o].permit = order[o].permit
        /\ order'[o].exited = order[o].exited /\ order'[o].stamped = order[o].stamped
        /\ order'[o].decided = order[o].decided
    BY <2>2 DEF TypeOK, Order
  <2>4. \A p \in Orders \ {o} : order'[p] = order[p]
    BY <2>2 DEF TypeOK
  <2>5. Moves
    BY <2>1, <2>3, <2>4 DEF Moves
  <2>6. \A p \in Orders : OrderInv(p)'
    BY <2>1, <2>3, <2>4 DEF WireInv, OrderInv
  <2> QED
    BY <1>1, <2>5, <2>6, WireByOrders
<1> QED
  BY <1>2, <1>3, <1>4, <1>5, <1>6, <1>7 DEF Fence

\* Writing the status of an order that the broker knows, as the broker reported it.
LEMMA StatusWrite ==
  ASSUME TypeOK, WireInv, NEW o \in Orders, wire[o] # "no",
         NEW s \in {"working", "filled", "cancelled"},
         \/ s = "working" /\ order[o].status # "filled" /\ order[o].status # "none"
         \/ s = "filled" /\ wire[o] = "filled"
         \/ s = "cancelled" /\ wire[o] = "dead",
         order' = [order EXCEPT ![o].status = s],
         UNCHANGED <<lane, wire, posts>>,
         \A p \in Orders : attempt'[p].gen = attempt[p].gen \/ wire[p] # "no"
  PROVE  Moves /\ \A p \in Orders : OrderInv(p)'
<1>1. order' = [order EXCEPT ![o] = [order[o] EXCEPT !.status = s]]
  OBVIOUS
<1>2. /\ order'[o].status = s /\ order'[o].permit = order[o].permit
      /\ order'[o].exited = order[o].exited /\ order'[o].stamped = order[o].stamped
      /\ order'[o].decided = order[o].decided
  BY <1>1 DEF TypeOK, Order
<1>3. \A p \in Orders \ {o} : order'[p] = order[p]
  BY <1>1 DEF TypeOK
<1>4. Moves
  BY <1>2, <1>3 DEF Moves
<1>5. OrderInv(o) /\ posts[o] = 1 /\ order[o].permit /\ lane[o] # "granted"
  BY DEF WireInv, OrderInv
<1>6. OrderInv(o)'
  BY <1>2, <1>5 DEF OrderInv
<1>7. \A p \in Orders \ {o} : OrderInv(p)'
  BY <1>3 DEF WireInv, OrderInv
<1> QED
  BY <1>4, <1>6, <1>7

\* A step of one executor: its own drive is the only one that needs an argument.
LEMMA WireByDrive ==
  ASSUME TypeOK, HistoryConsistent, WireInv, Moves, \A o \in Orders : OrderInv(o)',
         ctl' = ctl, ctl.gen # 0 => cmd'[ctl.gen].accepted = cmd[ctl.gen].accepted,
         NEW e \in Executors, NEW d, exec' = [exec EXCEPT ![e] = d], DriveInv(e)'
  PROVE  WireInv'
<1>1. \A x \in Executors \ {e} : exec'[x] = exec[x]
  BY DEF TypeOK
<1> QED
  BY <1>1, Carried DEF WireInv

\* A step that touches no order leaves all of them as they were.
LEMMA OrdersKept ==
  ASSUME WireInv, UNCHANGED <<order, lane, wire, posts, attempt>>
  PROVE  Moves /\ \A o \in Orders : OrderInv(o)'
  BY DEF Moves, WireInv, OrderInv

\* The phase write and the lease keep the time a command was accepted.
LEMMA AcceptedKept ==
  ASSUME TypeOK, HistoryConsistent, NEW e \in Executors,
         cmd' = Unsettled(e) \/ Claim(e) \/ Renew(e), ctl.gen # 0
  PROVE  cmd'[ctl.gen].accepted = cmd[ctl.gen].accepted
<1>1. ctl.gen \in Generations /\ cmd[ctl.gen] \in Command
  BY DEF TypeOK, Snapshot, Generations
<1>2. CASE cmd' = Unsettled(e)
  BY <1>1, <1>2 DEF Unsettled, TypeOK, Command
<1>3. CASE Claim(e)
  <2>1. PICK f : cmd' = [cmd EXCEPT ![ctl.gen] = [cmd[ctl.gen] EXCEPT !.executor = e, !.fence = f,
                                                     !.until = clock + LeaseTime]]
    BY <1>3 DEF Claim
  <2> QED
    BY <1>1, <2>1 DEF TypeOK, Command
<1>4. CASE Renew(e)
  BY <1>1, <1>4 DEF Renew, TypeOK, Command
<1> QED
  BY <1>2, <1>3, <1>4

\* An executor at rest knows nothing.
LEMMA RestKnows ==
  ASSUME TypeOK, NEW e \in Executors, NEW s \in Stages \ (Turns \cup {"counted"}), NEW g \in 0 .. MaxGen, NEW f,
         exec' = [exec EXCEPT ![e] = [NoDrive EXCEPT !.stage = s, !.gen = g, !.fence = f]],
         ctl' = ctl, g <= ctl.gen
  PROVE  DriveInv(e)'
<1>1. /\ exec'[e].gen = g /\ exec'[e].stage = s
      /\ exec'[e].order = NoOne /\ exec'[e].seen = "live"
  BY DEF TypeOK, NoDrive
<1> QED
  BY <1>1 DEF DriveInv

\* Taking, keeping and giving up a lease.
LEMMA WireLease ==
  ASSUME TypeOK, HistoryConsistent, WireInv, NEW e \in Executors, Claim(e) \/ Renew(e) \/ EndPass(e)
  PROVE  WireInv'
<1>1. UNCHANGED <<ctl, order, lane, wire, posts, attempt>>
  BY DEF Claim, Renew, EndPass
<1>2. Moves /\ \A o \in Orders : OrderInv(o)'
  BY <1>1, OrdersKept
<1>3. ctl.gen # 0 => cmd'[ctl.gen].accepted = cmd[ctl.gen].accepted
  BY AcceptedKept DEF EndPass
<1>4. CASE Claim(e)
  <2>1. PICK f : exec' = [exec EXCEPT ![e] = [NoDrive EXCEPT !.stage = "leased", !.gen = ctl.gen,
                                                             !.fence = f]]
    BY <1>4 DEF Claim
  <2>2. ctl.gen \in 0 .. MaxGen /\ ctl.gen <= ctl.gen /\ "leased" \in Stages \ (Turns \cup {"counted"})
    BY DEF TypeOK, Snapshot, Stages, Turns
  <2>3. DriveInv(e)'
    BY <1>1, <2>1, <2>2, RestKnows
  <2> QED
    BY <1>1, <1>2, <1>3, <2>1, <2>3, WireByDrive
<1>5. CASE Renew(e)
  <2>1. exec' = exec
    BY <1>5 DEF Renew
  <2> QED
    BY <1>1, <1>2, <1>3, <2>1, Carried DEF WireInv
<1>6. CASE EndPass(e)
  <2>1. exec' = [exec EXCEPT ![e] = NoDrive]
    BY <1>6 DEF EndPass
  <2>2. exec'[e] = NoDrive
    BY <2>1 DEF TypeOK
  <2>3. DriveInv(e)'
    BY <1>1, <2>2 DEF DriveInv, NoDrive, TypeOK, Snapshot, Turns
  <2> QED
    BY <1>1, <1>2, <1>3, <2>1, <2>3, WireByDrive
<1> QED
  BY <1>4, <1>5, <1>6

\* A drive that goes on with the order and the reading it had, and takes no census.
LEMMA DriveGoesOn ==
  ASSUME TypeOK, WireInv, NEW e \in Executors, ctl' = ctl, wire' = wire,
         exec'[e].gen = exec[e].gen, exec'[e].stage # "counted",
         \/ /\ exec'[e].order = exec[e].order /\ exec'[e].seen = exec[e].seen
            /\ exec[e].stage \in Turns => exec'[e].stage \in Turns
         \/ exec'[e].order = NoOne /\ exec'[e].seen = "live"
  PROVE  DriveInv(e)'
  BY DEF WireInv, DriveInv

\* The steps of a pass that touch no order.
LEMMA WirePass ==
  ASSUME TypeOK, HistoryConsistent, WireInv, NEW e \in Executors,
         Inventory(e) \/ Read(e) \/ CancelWire(e) \/ Census(e)
  PROVE  WireInv'
<1>0. exec[e] \in Drive /\ UNCHANGED <<ctl, cmd, order, lane, wire, posts, attempt>>
  BY DEF TypeOK, Inventory, Read, CancelWire, Census
<1>1. Moves /\ \A o \in Orders : OrderInv(o)'
  BY <1>0, OrdersKept
<1>2. CASE Inventory(e)
  <2> DEFINE entries == {o \in Orders : order[o].status \notin CensusTerminal \cup {"none"}}
             d == [exec[e] EXCEPT !.stage = IF entries = {} THEN "listed" ELSE "visiting",
                                  !.todo = entries]
  <2>1. exec' = [exec EXCEPT ![e] = d]
    BY <1>0, <1>2 DEF Inventory, TypeOK, Drive
  <2> HIDE DEF entries
  <2>2. exec'[e] = d
    BY <2>1 DEF TypeOK
  <2>3. /\ d.gen = exec[e].gen /\ d.stage # "counted" /\ exec[e].stage \notin Turns
        /\ d.order = exec[e].order /\ d.seen = exec[e].seen
    BY <1>0, <1>2 DEF Drive, Inventory, Turns
  <2> HIDE DEF d
  <2>4. DriveInv(e)'
    BY <1>0, <2>2, <2>3, DriveGoesOn
  <2> QED
    BY <1>0, <1>1, <2>1, <2>4, WireByDrive
<1>3. CASE Read(e)
  <2> DEFINE d == [exec[e] EXCEPT !.stage = IF exec[e].stage = "prepared" THEN "read" ELSE "reread",
                                  !.seen = wire[exec[e].order]]
  <2>1. exec' = [exec EXCEPT ![e] = d]
    BY <1>0, <1>3 DEF Read, TypeOK, Drive
  <2>2. exec'[e] = d
    BY <2>1 DEF TypeOK
  <2>3. /\ d.gen = exec[e].gen /\ d.stage # "counted" /\ d.stage \in Turns
        /\ d.order = exec[e].order /\ d.seen = wire[exec[e].order]
    BY <1>0 DEF Drive, Turns
  <2>4. exec[e].order \in Orders /\ exec[e].order # NoOne
    BY <1>0, <1>3, StopConstants DEF Read, Drive, Turns
  <2> HIDE DEF d
  <2>5. DriveInv(e)'
    BY <1>0, <2>2, <2>3, <2>4 DEF WireInv, DriveInv
  <2> QED
    BY <1>0, <1>1, <2>1, <2>5, WireByDrive
<1>4. CASE CancelWire(e)
  <2> DEFINE d == [exec[e] EXCEPT !.stage = "sent"]
  <2>1. exec' = [exec EXCEPT ![e] = d]
    BY <1>4 DEF CancelWire
  <2>2. exec'[e] = d
    BY <2>1 DEF TypeOK
  <2>3. /\ d.gen = exec[e].gen /\ d.stage # "counted" /\ d.stage \in Turns
        /\ d.order = exec[e].order /\ d.seen = exec[e].seen
    BY <1>0 DEF Drive, Turns
  <2> HIDE DEF d
  <2>4. DriveInv(e)'
    BY <1>0, <2>2, <2>3, DriveGoesOn
  <2> QED
    BY <1>0, <1>1, <2>1, <2>4, WireByDrive
<1>5. CASE Census(e)
  <2> DEFINE d == [exec[e] EXCEPT !.stage = "counted", !.at = clock]
  <2>1. exec' = [exec EXCEPT ![e] = d]
    BY <1>0, <1>5 DEF Census, TypeOK, Drive
  <2>2. exec'[e] = d
    BY <2>1 DEF TypeOK
  <2>3. /\ d.gen = exec[e].gen /\ d.order = exec[e].order /\ d.seen = exec[e].seen
        /\ exec[e].stage \notin Turns
    BY <1>0, <1>5 DEF Drive, Census, Turns
  <2> HIDE DEF d
  <2>4. ASSUME NEW o \in Orders PROVE Quiet(o)'
    <3>1. /\ order[o].status \in {"filled", "cancelled", "aborted", "none"}
          /\ order[o].status = "filled" => order[o].exited
      BY <1>5, StopConstants DEF Census, CensusFlat
    <3>2. OrderInv(o)
      BY DEF WireInv
    <3>3. Quiet(o)
      BY <3>1, <3>2 DEF OrderInv, Quiet
    <3> QED
      BY <1>0, <3>3 DEF Quiet
  <2>5. DriveInv(e)'
    BY <1>0, <2>2, <2>3, <2>4 DEF WireInv, DriveInv
  <2> QED
    BY <1>0, <1>1, <2>1, <2>5, WireByDrive
<1> QED
  BY <1>2, <1>3, <1>4, <1>5

\* The turn of an order: prepared, dispatched, recorded.
LEMMA WireTurn ==
  ASSUME TypeOK, HistoryConsistent, WireInv, NEW e \in Executors,
         Record(e) \/ Dispatch(e) \/ \E o \in Orders : Prepare(e, o)
  PROVE  WireInv'
<1>0. exec[e] \in Drive /\ UNCHANGED <<ctl, cmd, lane, wire, posts>>
  BY DEF TypeOK, Record, Dispatch, Prepare
<1>1. DriveInv(e)
  BY DEF WireInv
<1>2. CASE Record(e)
  <2> DEFINE o == exec[e].order
             d == [exec[e] EXCEPT !.stage = "dispatching"]
             x == EndTurn(exec[e])
             matched == (exec[e].seen = "filled") = (order[o].status = "filled")
  <2>1. o \in Orders /\ wire[o] # "no" /\ exec[e].seen \in {"live", wire[o]}
    BY <1>0, <1>1, <1>2, StopConstants DEF Record, Drive, Turns, DriveInv
  <2>2. PICK y \in {d, x} : exec' = [exec EXCEPT ![e] = y]
    BY <1>2 DEF Record
  <2>3. exec'[e] = y
    BY <2>2 DEF TypeOK
  <2>4. /\ y.gen = exec[e].gen /\ y.stage # "counted"
        /\ \/ y.order = exec[e].order /\ y.seen = exec[e].seen /\ y.stage \in Turns
           \/ y.order = NoOne /\ y.seen = "live"
    BY <1>0, <2>2 DEF EndTurn, Drive, Turns
  <2> HIDE DEF d, x
  <2>5. DriveInv(e)'
    BY <1>0, <2>3, <2>4, DriveGoesOn
  <2>6. \A p \in Orders : attempt'[p].gen = attempt[p].gen
    <3> DEFINE a == [attempt[o] EXCEPT !.status = IF exec[e].seen = "live" THEN "WORKING" ELSE "TERMINAL",
                                       !.executor = e, !.fence = exec[e].fence]
    <3>1. attempt' \in {attempt, [attempt EXCEPT ![o] = a]}
      BY <1>2 DEF Record
    <3>2. attempt[o] \in Attempt
      BY <2>1 DEF TypeOK
    <3>3. a.gen = attempt[o].gen
      BY <3>2 DEF Attempt
    <3> HIDE DEF a
    <3> QED
      BY <2>1, <3>1, <3>3 DEF TypeOK
  <2>7. Moves /\ \A p \in Orders : OrderInv(p)'
    <3>1. CASE matched
      <4>1. order' = [order EXCEPT ![o].status = StatusOf(exec[e].seen)]
        BY <1>2, <3>1 DEF Record
      <4> DEFINE s == StatusOf(exec[e].seen)
      <4>2. s \in {"working", "filled", "cancelled"}
        BY DEF StatusOf
      <4>3. order[o].status # "none"
        BY <2>1 DEF WireInv, OrderInv
      <4>4. wire[o] \in {"live", "filled", "dead"}
        BY <2>1 DEF TypeOK
      <4>5. \/ s = "working" /\ order[o].status # "filled" /\ order[o].status # "none"
            \/ s = "filled" /\ wire[o] = "filled"
            \/ s = "cancelled" /\ wire[o] = "dead"
        BY <2>1, <3>1, <4>3, <4>4 DEF StatusOf
      <4> HIDE DEF s, o
      <4> QED
        BY <1>0, <2>1, <2>6, <4>1, <4>2, <4>5, StatusWrite DEF s
    <3>2. CASE ~matched
      <4>1. order' = order
        BY <1>2, <3>2 DEF Record
      <4> QED
        BY <1>0, <2>6, <4>1 DEF Moves, WireInv, OrderInv
    <3> QED
      BY <3>1, <3>2
  <2> QED
    BY <1>0, <2>2, <2>5, <2>7, WireByDrive
<1>3. CASE Dispatch(e)
  <2> DEFINE o == exec[e].order
             a == [attempt[o] EXCEPT !.status = "MAY_HAVE_SENT"]
             d == [exec[e] EXCEPT !.stage = "cancelling"]
             x == EndTurn(exec[e])
  <2>1. o \in Orders
    BY <1>0, <1>3 DEF Dispatch, Drive, Turns
  <2>2. PICK y \in {d, x} : exec' = [exec EXCEPT ![e] = y]
    BY <1>3 DEF Dispatch
  <2>3. exec'[e] = y
    BY <2>2 DEF TypeOK
  <2>4. /\ y.gen = exec[e].gen /\ y.stage # "counted"
        /\ \/ y.order = exec[e].order /\ y.seen = exec[e].seen /\ y.stage \in Turns
           \/ y.order = NoOne /\ y.seen = "live"
    BY <1>0, <2>2 DEF EndTurn, Drive, Turns
  <2> HIDE DEF d, x
  <2>5. DriveInv(e)'
    BY <1>0, <2>3, <2>4, DriveGoesOn
  <2>6. attempt' \in {attempt, [attempt EXCEPT ![o] = a]} /\ order' = order
    BY <1>3 DEF Dispatch
  <2>7. a.gen = attempt[o].gen
    <3>1. attempt[o] \in Attempt
      BY <2>1 DEF TypeOK
    <3> QED
      BY <3>1 DEF Attempt
  <2> HIDE DEF a
  <2>8. \A p \in Orders : attempt'[p].gen = attempt[p].gen
    BY <2>1, <2>6, <2>7 DEF TypeOK
  <2>9. Moves /\ \A p \in Orders : OrderInv(p)'
    BY <1>0, <2>6, <2>8 DEF Moves, WireInv, OrderInv
  <2> QED
    BY <1>0, <2>2, <2>5, <2>9, WireByDrive
<1>4. ASSUME NEW o \in Orders, Prepare(e, o) PROVE WireInv'
  <2> DEFINE rest == [exec[e] EXCEPT !.todo = @ \ {o}]
             mine == [rest EXCEPT !.stage = "prepared", !.order = o]
             a == [gen |-> exec[e].gen, status |-> "PREPARED", executor |-> e, fence |-> exec[e].fence]
             turn == /\ Leased(e) /\ order[o].status \notin {"pending", "aborted"}
                     /\ IF attempt[o].gen = exec[e].gen THEN attempt[o].status # "TERMINAL"
                                                        ELSE order[o].status = "working"
  <2>1. order' = order /\ exec[e].stage = "visiting"
    BY <1>4 DEF Prepare
  <2>2. exec[e].stage = rest.stage /\ rest.gen = exec[e].gen
        /\ rest.order = exec[e].order /\ rest.seen = exec[e].seen
    BY <1>0 DEF Drive
  <2>3. mine.stage = "prepared" /\ mine.gen = exec[e].gen /\ mine.order = o
        /\ mine.seen = exec[e].seen
    BY <1>0 DEF Drive
  <2>4. CASE ~turn
    <3>1. exec' = [exec EXCEPT ![e] = rest] /\ attempt' = attempt
      BY <1>4, <2>4 DEF Prepare
    <3> HIDE DEF rest, mine
    <3>2. exec'[e] = rest
      BY <3>1 DEF TypeOK
    <3>3. DriveInv(e)'
      BY <1>0, <2>1, <2>2, <3>2, DriveGoesOn
    <3> QED
      BY <1>0, <2>1, <3>1, <3>3, OrdersKept, WireByDrive
  <2>5. CASE turn
    <3>1. exec' = [exec EXCEPT ![e] = mine] /\ attempt' \in {attempt, [attempt EXCEPT ![o] = a]}
      BY <1>4, <2>5 DEF Prepare
    <3>2. exec[e].gen # 0
      BY <2>5, LeasedGen DEF Generations
    <3>3. wire[o] # "no"
      BY <2>5, <3>2 DEF WireInv, OrderInv
    <3> HIDE DEF rest, mine, a
    <3>4. exec'[e] = mine
      BY <3>1 DEF TypeOK
    <3>5. exec[e].seen = "live"
      BY <1>1, <2>1 DEF DriveInv, Turns
    <3>6. DriveInv(e)'
      BY <1>0, <1>1, <2>3, <3>3, <3>4, <3>5, StopConstants DEF DriveInv, Turns
    <3>7. \A p \in Orders : attempt'[p].gen = attempt[p].gen \/ wire[p] # "no"
      BY <3>1, <3>3 DEF TypeOK
    <3>8. Moves /\ \A p \in Orders : OrderInv(p)'
      BY <1>0, <2>1, <3>7 DEF Moves, WireInv, OrderInv
    <3> QED
      BY <1>0, <3>1, <3>6, <3>8, WireByDrive
  <2> QED
    BY <2>4, <2>5
<1> QED
  BY <1>2, <1>3, <1>4

\* Settlement, failed passes and crashes.  Settlement finds the strategy quiet because
\* the census does, and nothing has disturbed it since under the active command.
LEMMA WireEnd ==
  ASSUME TypeOK, HistoryConsistent, WireInv, NEW e \in Executors, Settle(e) \/ Fail(e) \/ Crash(e)
  PROVE  WireInv'
<1>0. exec[e] \in Drive /\ DriveInv(e) /\ UNCHANGED <<order, wire, posts, attempt>>
  BY DEF TypeOK, WireInv, Settle, Fail, Crash
<1>1. ASSUME ctl' = ctl, lane' = lane, cmd' = Unsettled(e), exec' = [exec EXCEPT ![e] = NoDrive]
      PROVE  WireInv'
  <2>1. exec'[e] = NoDrive
    BY <1>1 DEF TypeOK
  <2>2. DriveInv(e)'
    BY <1>1, <2>1 DEF DriveInv, NoDrive, TypeOK, Snapshot, Turns
  <2> QED
    BY <1>0, <1>1, <2>2, OrdersKept, AcceptedKept, WireByDrive
<1>2. CASE Settle(e) /\ Settleable(e)
  <2>1. lane' = lane /\ exec' = [exec EXCEPT ![e] = NoDrive] /\ exec[e].stage = "counted"
    BY <1>2 DEF Settle
  <2>2. ctl.active /\ ctl.desired = "STOP" /\ ctl.gen = exec[e].gen
    BY <1>2 DEF Settleable, Leased
  <2>3. ctl'.gen = ctl.gen /\ ctl'.desired = "STOP" /\ ~ctl'.active
    BY <1>2, <2>2 DEF Settle, TypeOK, Snapshot
  <2>4. \A o \in Orders : Quiet(o)
    BY <1>0, <2>1, <2>2 DEF DriveInv
  <2>5. SettledQuiet' /\ FreshAfterOn'
    BY <1>0, <2>1, <2>3, <2>4 DEF SettledQuiet, FreshAfterOn, Quiet
  <2>6. \A o \in Orders : OrderInv(o)'
    BY <1>0, <2>1, OrdersKept
  <2>7. exec'[e] = NoDrive /\ \A x \in Executors \ {e} : exec'[x] = exec[x]
    BY <2>1 DEF TypeOK
  <2>8. DriveInv(e)'
    BY <2>3, <2>7 DEF DriveInv, NoDrive, TypeOK, Snapshot, Turns
  <2>9. \A x \in Executors \ {e} : DriveInv(x)'
    BY <1>0, <2>3, <2>7 DEF WireInv, DriveInv
  <2> QED
    BY <2>5, <2>6, <2>8, <2>9 DEF WireInv
<1>3. CASE Settle(e) /\ ~Settleable(e)
  BY <1>1, <1>3 DEF Settle
<1>4. CASE Fail(e)
  <2>1. CASE exec[e].stage \in Turns
    <3> DEFINE x == EndTurn(exec[e])
    <3>1. ctl' = ctl /\ cmd' = cmd /\ lane' = lane /\ exec' = [exec EXCEPT ![e] = x]
      BY <1>4, <2>1 DEF Fail
    <3>2. x.gen = exec[e].gen /\ x.stage # "counted" /\ x.order = NoOne /\ x.seen = "live"
      BY <1>0 DEF EndTurn, Drive
    <3> HIDE DEF x
    <3>3. exec'[e] = x
      BY <3>1 DEF TypeOK
    <3>4. DriveInv(e)'
      BY <1>0, <3>1, <3>2, <3>3, DriveGoesOn
    <3> QED
      BY <1>0, <3>1, <3>4, OrdersKept, WireByDrive
  <2>2. CASE exec[e].stage \notin Turns
    BY <1>1, <1>4, <2>2 DEF Fail
  <2> QED
    BY <2>1, <2>2
<1>5. CASE Crash(e)
  <2> DEFINE d == [NoDrive EXCEPT !.stage = "down"]
  <2>1. ctl' = ctl /\ cmd' = cmd /\ exec' = [exec EXCEPT ![e] = d]
    BY <1>5 DEF Crash
  <2>2. \A o \in Orders : lane'[o] = "granted" => lane[o] = "granted"
    BY <1>5 DEF Crash
  <2>3. Moves /\ \A o \in Orders : OrderInv(o)'
    BY <1>0, <2>2 DEF Moves, WireInv, OrderInv
  <2>4. exec'[e] = d
    BY <2>1 DEF TypeOK
  <2>5. DriveInv(e)'
    BY <2>1, <2>4 DEF DriveInv, NoDrive, TypeOK, Snapshot, Turns
  <2> QED
    BY <2>1, <2>3, <2>5, WireByDrive
<1> QED
  BY <1>2, <1>3, <1>4, <1>5

\* The broker, the order sync, the sale of a position and time.
LEMMA WireOutside ==
  ASSUME TypeOK, HistoryConsistent, WireInv,
         (\E o \in Orders : BrokerEnds(o) \/ Report(o) \/ Exit(o)) \/ Tick
  PROVE  WireInv'
<1>1. ctl' = ctl /\ cmd' = cmd /\ exec' = exec
  BY DEF BrokerEnds, Report, Exit, Tick
<1>2. ASSUME NEW o \in Orders, BrokerEnds(o) PROVE WireInv'
  <2>1. wire[o] = "live" /\ wire'[o] \in {"filled", "dead"} /\ UNCHANGED <<order, lane, posts, attempt>>
    BY <1>2 DEF BrokerEnds, TypeOK
  <2>2. \A p \in Orders \ {o} : wire'[p] = wire[p]
    BY <1>2 DEF BrokerEnds, TypeOK
  <2>3. Moves
    BY <2>1, <2>2 DEF Moves
  <2>4. \A p \in Orders : OrderInv(p)'
    BY <2>1, <2>2 DEF WireInv, OrderInv
  <2> QED
    BY <1>1, <2>3, <2>4, WireByOrders
<1>3. ASSUME NEW o \in Orders, Report(o) PROVE WireInv'
  <2> DEFINE s == StatusOf(wire[o])
  <2>1. /\ wire[o] # "no" /\ order[o].status \in {"pending", "working"}
        /\ order' = [order EXCEPT ![o].status = s] /\ UNCHANGED <<lane, wire, posts, attempt>>
    BY <1>3 DEF Report
  <2>2. wire[o] \in {"live", "filled", "dead"}
    BY <2>1 DEF TypeOK
  <2>3. /\ s \in {"working", "filled", "cancelled"}
        /\ \/ s = "working" /\ order[o].status # "filled" /\ order[o].status # "none"
           \/ s = "filled" /\ wire[o] = "filled"
           \/ s = "cancelled" /\ wire[o] = "dead"
    BY <2>1, <2>2 DEF StatusOf
  <2> HIDE DEF s
  <2>4. \A p \in Orders : attempt'[p].gen = attempt[p].gen \/ wire[p] # "no"
    BY <2>1
  <2>5. Moves /\ \A p \in Orders : OrderInv(p)'
    BY <2>1, <2>3, <2>4, StatusWrite
  <2> QED
    BY <1>1, <2>5, WireByOrders
<1>4. ASSUME NEW o \in Orders, Exit(o) PROVE WireInv'
  <2>1. order' = [order EXCEPT ![o] = [order[o] EXCEPT !.exited = TRUE]]
        /\ UNCHANGED <<lane, wire, posts, attempt>>
    BY <1>4 DEF Exit
  <2>2. /\ order'[o].exited /\ order'[o].status = order[o].status
        /\ order'[o].permit = order[o].permit
        /\ order'[o].stamped = order[o].stamped /\ order'[o].decided = order[o].decided
    BY <2>1 DEF TypeOK, Order
  <2>3. \A p \in Orders \ {o} : order'[p] = order[p]
    BY <2>1 DEF TypeOK
  <2>4. Moves
    BY <2>1, <2>2, <2>3 DEF Moves
  <2>5. \A p \in Orders : OrderInv(p)'
    BY <2>1, <2>2, <2>3 DEF WireInv, OrderInv
  <2> QED
    BY <1>1, <2>4, <2>5, WireByOrders
<1>5. CASE Tick
  <2>1. UNCHANGED <<order, lane, wire, posts, attempt>>
    BY <1>5 DEF Tick
  <2> QED
    BY <1>1, <2>1, OrdersKept, WireByOrders
<1> QED
  BY <1>2, <1>3, <1>4, <1>5

\* The invariant is preserved by every step.
LEMMA WireStep ==
  TypeOK /\ HistoryConsistent /\ WireInv /\ [Next]_vars => WireInv'
<1> SUFFICES ASSUME TypeOK, HistoryConsistent, WireInv, [Next]_vars PROVE WireInv'
  OBVIOUS
<1>1. CASE Operator
  BY <1>1, WireOperator
<1>2. CASE Fence
  BY <1>2, WireFence
<1>3. ASSUME NEW e \in Executors, Driving(e) PROVE WireInv'
  BY <1>3, WireLease, WirePass, WireTurn, WireEnd DEF Driving
<1>4. CASE Outside
  BY <1>4, WireLease, WireEnd, WireOutside DEF Outside
<1>5. CASE UNCHANGED vars
  <2>1. UNCHANGED <<ctl, cmd, exec, order, lane, wire, posts, attempt>>
    BY <1>5 DEF vars
  <2> QED
    BY <2>1, OrdersKept, WireByOrders
<1> QED
  BY <1>1, <1>2, <1>3, <1>4, <1>5 DEF Next

\* Every reachable state satisfies the wire invariant.
LEMMA WireAlways == Spec => []WireInv
<1>1. TypeOK /\ HistoryConsistent /\ WireInv /\ [Next]_vars => WireInv'
  BY WireStep
<1> QED
  BY <1>1, WireInit, HistoryCorrect, PTL DEF Spec

\* authorize_entry(): however calls are lost and retried and processes die, every order
\* is put on the wire at most once.
THEOREM OneWireAlways == Spec => []OneWire
<1>1. WireInv => OneWire
  BY DEF WireInv, OrderInv, OneWire
<1> QED
  BY <1>1, WireAlways, PTL

\* prove_unsent_entry(): what is settled as unsent was never sent and never will be.
THEOREM UnsentAlways == Spec => []UnsentIsUnsent
<1>1. WireInv => UnsentIsUnsent
  BY DEF WireInv, OrderInv, UnsentIsUnsent
<1> QED
  BY <1>1, WireAlways, PTL

\* settle_stop(): a settled STOP is quiet, for good, until an ON is requested.
THEOREM SettledAlways == Spec => []SettledQuiet
<1>1. WireInv => SettledQuiet
  BY DEF WireInv
<1> QED
  BY <1>1, WireAlways, PTL

\* request() and authorize_entry(): nothing decided before an ON trades after it.
THEOREM FreshAlways == Spec => []FreshAfterOn
<1>1. WireInv => FreshAfterOn
  BY DEF WireInv
<1> QED
  BY <1>1, WireAlways, PTL

------------------------------------------------------------------------------
(* One cancel per order: the attempt row stands between the order and the   *)
(* call, across takeovers of the lease and across commands.                 *)

\* A cancel of the order was put on the wire, or is about to be.
Spent(o) ==
  \/ cancels[o] # 0
  \/ \E e \in Executors : exec[e].stage = "cancelling" /\ exec[e].order = o

\* The attempt of an earlier command is about an order that has ended at the broker, and
\* so is an attempt that was prepared anew after a cancel.
AttemptInv(o) ==
  /\ cancels[o] \in {0, 1}
  /\ Spent(o) => attempt[o].gen # 0
  /\ attempt[o].gen <= ctl.gen
  /\ attempt[o].gen = ctl.gen /\ ctl.gen # 0 => ctl.desired = "STOP"
  /\ attempt[o].gen # 0 /\ attempt[o].gen < ctl.gen => wire[o] # "live"
  /\ Spent(o) /\ attempt[o].status = "PREPARED" => wire[o] # "live"

\* An executor in the turn of an order works under an attempt of its own command or of a
\* later one; with an order that it read as live and an attempt still prepared nobody has
\* cancelled yet; and of the executors about to cancel, each has an order to itself.
TurnInv(e) ==
  /\ exec[e].stage \in Turns => 0 < exec[e].gen /\ exec[e].gen <= attempt[exec[e].order].gen
  /\ /\ exec[e].stage \in {"read", "dispatching"} /\ exec[e].seen = "live"
     /\ exec[e].gen = attempt[exec[e].order].gen
     /\ attempt[exec[e].order].status = "PREPARED"
     => ~Spent(exec[e].order)
  /\ exec[e].stage = "dispatching" => exec[e].seen = "live"
  /\ exec[e].stage = "cancelling" =>
       /\ cancels[exec[e].order] = 0
       /\ \A x \in Executors \ {e} :
            exec[x].stage = "cancelling" => exec[x].order # exec[e].order

CancelInv ==
  /\ \A o \in Orders : AttemptInv(o)
  /\ \A e \in Executors : TurnInv(e)

\* The first state has no attempt and no turn.
LEMMA CancelInit == Init => CancelInv
<1> SUFFICES ASSUME Init PROVE CancelInv
  OBVIOUS
<1>1. \A e \in Executors : exec[e].stage = "idle"
  BY DEF Init, NoDrive
<1>2. \A o \in Orders : cancels[o] = 0 /\ attempt[o].gen = 0 /\ ctl.gen = 0
  BY DEF Init
<1>3. \A o \in Orders : AttemptInv(o)
  BY <1>1, <1>2 DEF AttemptInv, Spent
<1>4. \A e \in Executors : TurnInv(e)
  BY <1>1 DEF TurnInv, Turns
<1> QED
  BY <1>3, <1>4 DEF CancelInv

\* A step that leaves attempts, cancels and the generation alone keeps the invariant if
\* every executor stays where it was or is in no turn.
LEMMA CancelKept ==
  ASSUME TypeOK, WireInv, CancelInv, attempt' = attempt, cancels' = cancels,
         ctl'.gen = ctl.gen, ctl'.desired = ctl.desired,
         \A o \in Orders : wire'[o] = "live" => wire[o] \in {"no", "live"},
         \A x \in Executors : exec'[x] = exec[x] \/ exec'[x].stage \notin Turns
  PROVE  CancelInv'
<1>1. \A o \in Orders : Spent(o)' => Spent(o)
  BY DEF Spent, Turns
<1>2. ASSUME NEW o \in Orders PROVE AttemptInv(o)'
  <2>1. AttemptInv(o) /\ OrderInv(o)
    BY DEF CancelInv, WireInv
  <2>2. attempt[o].gen # 0 /\ wire'[o] = "live" => wire[o] = "live"
    BY <2>1 DEF OrderInv
  <2> QED
    BY <1>1, <2>1, <2>2 DEF AttemptInv
<1>3. ASSUME NEW e \in Executors PROVE TurnInv(e)'
  <2>1. CASE exec'[e] = exec[e]
    <3>1. TurnInv(e) /\ exec[e] \in Drive
      BY DEF CancelInv, TypeOK
    <3>2. exec[e].stage \in Turns => exec[e].order \in Orders
      BY <3>1 DEF Drive
    <3>3. \A x \in Executors : exec'[x].stage = "cancelling" =>
             exec[x].stage = "cancelling" /\ exec'[x].order = exec[x].order
      BY DEF Turns
    <3>4. exec[e].stage \in {"read", "dispatching"} => exec[e].stage \in Turns
      BY DEF Turns
    <3>5. exec[e].stage \in Turns => (Spent(exec[e].order)' => Spent(exec[e].order))
      BY <1>1, <2>1, <3>2 DEF Spent
    <3> QED
      BY <2>1, <3>1, <3>2, <3>3, <3>4, <3>5 DEF TurnInv
  <2>2. CASE exec'[e].stage \notin Turns
    BY <2>2 DEF TurnInv, Turns
  <2> QED
    BY <2>1, <2>2
<1> QED
  BY <1>2, <1>3 DEF CancelInv

\* A new command finds every attempt so far about an order that has ended.
LEMMA CancelOperator ==
  ASSUME TypeOK, HistoryConsistent, WireInv, CancelInv, Operator PROVE CancelInv'
<1>1. UNCHANGED <<order, lane, wire, posts, attempt, cancels, exec>>
  BY DEF Operator, RequestStop, RequestOn
<1>2. ctl' \in {[gen |-> ctl.gen + 1, desired |-> "STOP", active |-> TRUE],
                [gen |-> ctl.gen + 1, desired |-> "RUN", active |-> FALSE]}
  BY DEF Operator, RequestStop, RequestOn
<1>3. ctl.gen \in Nat /\ ctl'.gen = ctl.gen + 1
  BY <1>2 DEF TypeOK, Snapshot
<1>4. ~ctl.active
  BY DEF Operator, RequestStop, RequestOn
<1>5. ASSUME NEW o \in Orders PROVE AttemptInv(o)'
  <2>1. AttemptInv(o) /\ attempt[o].gen \in Nat
    BY DEF CancelInv, TypeOK, Attempt
  <2>2. attempt[o].gen # 0 => wire[o] # "live"
    BY <1>3, <1>4, <2>1 DEF AttemptInv, WireInv, SettledQuiet
  <2>3. Spent(o)' <=> Spent(o)
    BY <1>1 DEF Spent
  <2> QED
    BY <1>1, <1>3, <2>1, <2>2, <2>3 DEF AttemptInv
<1>6. ASSUME NEW e \in Executors PROVE TurnInv(e)'
  <2>1. TurnInv(e)
    BY DEF CancelInv
  <2> QED
    BY <1>1, <2>1 DEF TurnInv, Spent
<1> QED
  BY <1>5, <1>6 DEF CancelInv

\* The turn of an order begins: an attempt of this command is found, or made for an order
\* that nobody can be reading as live under this command.
LEMMA CancelPrepare ==
  ASSUME TypeOK, HistoryConsistent, WireInv, CancelInv,
         NEW e \in Executors, NEW o \in Orders, Prepare(e, o)
  PROVE  CancelInv'
<1> DEFINE rest == [exec[e] EXCEPT !.todo = @ \ {o}]
           mine == [rest EXCEPT !.stage = "prepared", !.order = o]
           a == [gen |-> exec[e].gen, status |-> "PREPARED", executor |-> e, fence |-> exec[e].fence]
           turn == /\ Leased(e) /\ order[o].status \notin {"pending", "aborted"}
                   /\ IF attempt[o].gen = exec[e].gen THEN attempt[o].status # "TERMINAL"
                                                      ELSE order[o].status = "working"
<1>0. exec[e] \in Drive /\ exec[e].stage = "visiting" /\ UNCHANGED <<ctl, wire, cancels>>
  BY DEF TypeOK, Prepare
<1>1. rest.stage = "visiting" /\ mine.stage = "prepared" /\ mine.gen = exec[e].gen /\ mine.order = o
  BY <1>0 DEF Drive
<1>2. CASE ~turn
  <2>1. exec' = [exec EXCEPT ![e] = rest] /\ attempt' = attempt
    BY <1>2 DEF Prepare
  <2> HIDE DEF rest
  <2>2. exec'[e] = rest /\ \A x \in Executors \ {e} : exec'[x] = exec[x]
    BY <2>1 DEF TypeOK
  <2>3. \A x \in Executors : exec'[x] = exec[x] \/ exec'[x].stage \notin Turns
    BY <1>1, <2>2 DEF Turns
  <2> QED
    BY <1>0, <2>1, <2>3, CancelKept
<1>3. CASE turn
  <2>1. exec' = [exec EXCEPT ![e] = mine]
    BY <1>3 DEF Prepare
  <2>2. attempt' = IF attempt[o].gen = exec[e].gen THEN attempt ELSE [attempt EXCEPT ![o] = a]
    BY <1>3 DEF Prepare
  <2>3. exec[e].gen = ctl.gen /\ ctl.gen # 0 /\ ctl.gen \in Nat /\ ctl.desired = "STOP"
    BY <1>3, LeasedGen DEF Leased, TypeOK, Snapshot, Generations
  <2> HIDE DEF rest, mine, turn
  <2>4. exec'[e] = mine /\ \A x \in Executors \ {e} : exec'[x] = exec[x]
    BY <2>1 DEF TypeOK
  <2>5. \A p \in Orders : Spent(p)' <=> Spent(p)
    BY <1>0, <1>1, <2>4 DEF Spent
  <2>6. \A p \in Orders \ {o} : attempt'[p] = attempt[p]
    BY <2>2 DEF TypeOK
  <2>7. /\ attempt'[o].gen = ctl.gen
        /\ attempt[o].gen # ctl.gen \/ attempt'[o] = attempt[o]
    BY <2>2, <2>3 DEF TypeOK
  <2>8. AttemptInv(o) /\ attempt[o].gen \in Nat
    BY DEF CancelInv, TypeOK, Attempt
  <2>9. AttemptInv(o)'
    <3>1. Spent(o) /\ attempt'[o].status = "PREPARED" => wire[o] # "live"
      BY <2>3, <2>7, <2>8 DEF AttemptInv
    <3> QED
      BY <1>0, <2>3, <2>5, <2>7, <2>8, <3>1 DEF AttemptInv
  <2>10. ASSUME NEW p \in Orders \ {o} PROVE AttemptInv(p)'
    BY <1>0, <2>5, <2>6 DEF AttemptInv, CancelInv
  <2>11. TurnInv(e)'
    BY <1>1, <2>3, <2>4, <2>7 DEF TurnInv
  <2>12. ASSUME NEW x \in Executors \ {e} PROVE TurnInv(x)'
    <3>1. TurnInv(x) /\ exec[x] \in Drive /\ exec'[x] = exec[x]
      BY <2>4 DEF CancelInv, TypeOK
    <3>2. exec[x].stage \in Turns => exec[x].order \in Orders
      BY <3>1 DEF Drive
    <3>3. exec[x].gen \in Nat
      BY <3>1 DEF Drive
    <3>4. \A y \in Executors : exec'[y].stage = "cancelling" =>
             exec[y].stage = "cancelling" /\ exec'[y].order = exec[y].order
      BY <1>1, <2>4
    <3>5. CASE exec[x].stage \notin Turns
      BY <3>1, <3>5 DEF TurnInv, Turns
    <3>6. CASE exec[x].stage \in Turns /\ exec[x].order # o
      <4>1. attempt'[exec[x].order] = attempt[exec[x].order]
        BY <2>6, <3>2, <3>6
      <4>2. Spent(exec[x].order)' <=> Spent(exec[x].order)
        BY <2>5, <3>1, <3>2, <3>6
      <4> QED
        BY <1>0, <3>1, <3>4, <4>1, <4>2 DEF TurnInv
    <3>7. CASE exec[x].stage \in Turns /\ exec[x].order = o
      <4>1. 0 < exec[x].gen /\ exec[x].gen <= attempt[o].gen
        BY <3>1, <3>7 DEF TurnInv
      <4>2. exec[x].gen <= attempt'[o].gen
        BY <2>3, <2>7, <2>8, <3>3, <4>1 DEF AttemptInv
      <4>3. exec[x].gen = attempt'[o].gen => attempt'[o] = attempt[o]
        BY <2>3, <2>7, <2>8, <3>3, <4>1 DEF AttemptInv
      <4>4. Spent(o)' <=> Spent(o)
        BY <2>5
      <4> QED
        BY <1>0, <3>1, <3>4, <3>7, <4>1, <4>2, <4>3, <4>4 DEF TurnInv
    <3> QED
      BY <3>5, <3>6, <3>7
  <2> QED
    BY <2>9, <2>10, <2>11, <2>12 DEF CancelInv
<1> QED
  BY <1>2, <1>3

\* In the turn of one executor no attempt changes hands, nothing becomes prepared, and
\* what is still prepared is not cancelled by this step: the orders are as they were.
LEMMA AttemptsKept ==
  ASSUME CancelInv, UNCHANGED <<ctl, wire>>,
         \A o \in Orders :
           /\ attempt'[o].gen = attempt[o].gen
           /\ attempt'[o].status = "PREPARED" => attempt[o].status = "PREPARED" /\ (Spent(o)' => Spent(o))
           /\ cancels'[o] \in {0, 1}
           /\ Spent(o)' => attempt[o].gen # 0
  PROVE  \A o \in Orders : AttemptInv(o)'
  BY DEF CancelInv, AttemptInv

\* So are the turns of the others, unless they are about to cancel the same order.
LEMMA TurnsKept ==
  ASSUME TypeOK, CancelInv, NEW e \in Executors,
         \A x \in Executors \ {e} : exec'[x] = exec[x],
         \A o \in Orders :
           /\ attempt'[o].gen = attempt[o].gen
           /\ attempt'[o].status = "PREPARED" => attempt[o].status = "PREPARED" /\ (Spent(o)' => Spent(o)),
         \A x \in Executors \ {e} : exec[x].stage = "cancelling" =>
           /\ cancels'[exec[x].order] = cancels[exec[x].order]
           /\ exec'[e].stage = "cancelling" => exec'[e].order # exec[x].order
  PROVE  \A x \in Executors \ {e} : TurnInv(x)'
<1> TAKE x \in Executors \ {e}
<1>1. TurnInv(x) /\ exec[x] \in Drive /\ exec'[x] = exec[x]
  BY DEF CancelInv, TypeOK
<1>2. CASE exec[x].stage \notin Turns
  BY <1>1, <1>2 DEF TurnInv, Turns
<1>3. CASE exec[x].stage \in Turns
  <2>1. PICK o \in Orders : o = exec[x].order
    BY <1>1, <1>3 DEF Drive
  <2>2. /\ attempt'[o].gen = attempt[o].gen
        /\ attempt'[o].status = "PREPARED" => attempt[o].status = "PREPARED" /\ (Spent(o)' => Spent(o))
    OBVIOUS
  <2>3. exec[x].stage = "cancelling" =>
          /\ cancels'[o] = 0
          /\ \A y \in Executors \ {x} : exec'[y].stage = "cancelling" => exec'[y].order # o
    BY <1>1, <2>1 DEF TurnInv
  <2> QED
    BY <1>1, <2>1, <2>2, <2>3 DEF TurnInv
<1> QED
  BY <1>2, <1>3

\* The broker is read: an attempt that is still prepared after a cancel is about an order
\* that has ended, and is read so.
LEMMA CancelRead ==
  ASSUME TypeOK, WireInv, CancelInv, NEW e \in Executors, Read(e) PROVE CancelInv'
<1> DEFINE d == [exec[e] EXCEPT !.stage = IF exec[e].stage = "prepared" THEN "read" ELSE "reread",
                                !.seen = wire[exec[e].order]]
<1>0. exec[e] \in Drive /\ UNCHANGED <<ctl, wire, cancels, attempt>>
  BY DEF TypeOK, Read
<1>1. PICK o \in Orders : o = exec[e].order
  BY <1>0 DEF Read, Drive, Turns
<1>2. exec' = [exec EXCEPT ![e] = d] /\ exec[e].stage \in {"prepared", "sent"}
  BY <1>0 DEF Read, TypeOK, Drive
<1>3. d.gen = exec[e].gen /\ d.stage \in {"read", "reread"} /\ d.order = o /\ d.seen = wire[o]
  BY <1>0, <1>1 DEF Drive
<1> HIDE DEF d
<1>4. exec'[e] = d /\ \A x \in Executors \ {e} : exec'[x] = exec[x]
  BY <1>2 DEF TypeOK
<1>5. \A p \in Orders : Spent(p)' <=> Spent(p)
  BY <1>0, <1>2, <1>3, <1>4 DEF Spent
<1>6. \A p \in Orders : AttemptInv(p)'
  BY <1>0, <1>5 DEF CancelInv, AttemptInv
<1>7. \A x \in Executors \ {e} : TurnInv(x)'
  BY <1>0, <1>3, <1>4, <1>5, TurnsKept
<1>8. TurnInv(e)'
  <2>1. TurnInv(e) /\ AttemptInv(o)
    BY DEF CancelInv
  <2>2. 0 < exec[e].gen /\ exec[e].gen <= attempt[o].gen
    BY <1>1, <1>2, <2>1 DEF TurnInv, Turns
  <2>3. Spent(o)' <=> Spent(o)
    BY <1>5
  <2> QED
    BY <1>0, <1>3, <1>4, <2>1, <2>2, <2>3 DEF TurnInv, AttemptInv
<1> QED
  BY <1>6, <1>7, <1>8 DEF CancelInv

\* What was read is recorded and journalled; the turn goes on to its dispatch or is over.
LEMMA CancelRecord ==
  ASSUME TypeOK, WireInv, CancelInv, NEW e \in Executors, Record(e) PROVE CancelInv'
<1>0. exec[e] \in Drive /\ UNCHANGED <<ctl, wire, cancels>> /\ exec[e].stage \in {"read", "reread"}
  BY DEF TypeOK, Record
<1>1. PICK o \in Orders : o = exec[e].order
  BY <1>0 DEF Record, Drive, Turns
<1> DEFINE d == [exec[e] EXCEPT !.stage = "dispatching"]
           x == EndTurn(exec[e])
           s == IF exec[e].seen = "live" THEN "WORKING" ELSE "TERMINAL"
           a == [attempt[o] EXCEPT !.status = s, !.executor = e, !.fence = exec[e].fence]
<1>2. attempt' \in {attempt, [attempt EXCEPT ![o] = a]}
  BY <1>1 DEF Record
<1>3. a.gen = attempt[o].gen /\ a.status # "PREPARED"
  <2>1. attempt[o] \in Attempt
    BY DEF TypeOK
  <2> QED
    BY <2>1 DEF Attempt
<1>4. \/ exec' = [exec EXCEPT ![e] = d] /\ exec[e].stage = "read" /\ exec[e].seen = "live"
      \/ exec' = [exec EXCEPT ![e] = x]
  BY DEF Record
<1>5. /\ d.gen = exec[e].gen /\ d.stage = "dispatching" /\ d.order = o /\ d.seen = exec[e].seen
      /\ x.stage = "visiting"
  BY <1>0, <1>1 DEF Drive, EndTurn
<1> HIDE DEF a, d, x
<1>6. \A p \in Orders : /\ attempt'[p].gen = attempt[p].gen
                        /\ attempt'[p] = attempt[p] \/ attempt'[p].status # "PREPARED"
  BY <1>2, <1>3 DEF TypeOK
<1>7. exec'[e] \in {d, x} /\ \A y \in Executors \ {e} : exec'[y] = exec[y]
  BY <1>4 DEF TypeOK
<1>8. \A p \in Orders : Spent(p)' <=> Spent(p)
  BY <1>0, <1>5, <1>7 DEF Spent
<1>9. \A p \in Orders : AttemptInv(p)'
  BY <1>0, <1>6, <1>8, AttemptsKept DEF CancelInv, AttemptInv
<1>10. \A y \in Executors \ {e} : TurnInv(y)'
  BY <1>0, <1>5, <1>6, <1>7, <1>8, TurnsKept
<1>11. TurnInv(e)'
  <2>1. CASE exec' = [exec EXCEPT ![e] = x]
    <3>1. exec'[e] = x
      BY <2>1 DEF TypeOK
    <3> QED
      BY <1>5, <3>1 DEF TurnInv, Turns
  <2>2. CASE exec' = [exec EXCEPT ![e] = d] /\ exec[e].stage = "read" /\ exec[e].seen = "live"
    <3>1. exec'[e] = d
      BY <2>2 DEF TypeOK
    <3>2. TurnInv(e)
      BY DEF CancelInv
    <3>3. 0 < exec[e].gen /\ exec[e].gen <= attempt[o].gen
      BY <1>1, <2>2, <3>2 DEF TurnInv, Turns
    <3>4. exec[e].gen = attempt'[o].gen /\ attempt'[o].status = "PREPARED" => ~Spent(o)
      BY <1>1, <1>6, <2>2, <3>2 DEF TurnInv
    <3>5. Spent(o)' <=> Spent(o)
      BY <1>8
    <3> QED
      BY <1>5, <1>6, <2>2, <3>1, <3>3, <3>4, <3>5 DEF TurnInv
  <2> QED
    BY <1>4, <2>1, <2>2
<1> QED
  BY <1>9, <1>10, <1>11 DEF CancelInv

\* dispatch() finds its own prepared attempt, so nobody has cancelled the order.
LEMMA CancelDispatch ==
  ASSUME TypeOK, WireInv, CancelInv, NEW e \in Executors, Dispatch(e) PROVE CancelInv'
<1>0. exec[e] \in Drive /\ UNCHANGED <<ctl, wire, cancels>> /\ exec[e].stage = "dispatching"
  BY DEF TypeOK, Dispatch
<1>1. PICK o \in Orders : o = exec[e].order
  BY <1>0 DEF Dispatch, Drive, Turns
<1> DEFINE d == [exec[e] EXCEPT !.stage = "cancelling"]
           x == EndTurn(exec[e])
           a == [attempt[o] EXCEPT !.status = "MAY_HAVE_SENT"]
<1>2. CASE ~Dispatchable(e)
  <2>1. exec' = [exec EXCEPT ![e] = x] /\ attempt' = attempt
    BY <1>2 DEF Dispatch
  <2>2. x.stage = "visiting"
    BY <1>0 DEF Drive, EndTurn
  <2> HIDE DEF x
  <2>3. exec'[e] = x /\ \A y \in Executors \ {e} : exec'[y] = exec[y]
    BY <2>1 DEF TypeOK
  <2>4. \A y \in Executors : exec'[y] = exec[y] \/ exec'[y].stage \notin Turns
    BY <2>2, <2>3 DEF Turns
  <2> QED
    BY <1>0, <2>1, <2>4, CancelKept
<1>3. CASE Dispatchable(e)
  <2>1. exec' = [exec EXCEPT ![e] = d] /\ attempt' = [attempt EXCEPT ![o] = a]
    BY <1>1, <1>3 DEF Dispatch
  <2>2. attempt[o].gen = exec[e].gen /\ attempt[o].status = "PREPARED"
    BY <1>1, <1>3 DEF Dispatchable
  <2>3. a.gen = attempt[o].gen /\ a.status # "PREPARED"
    <3>1. attempt[o] \in Attempt
      BY DEF TypeOK
    <3> QED
      BY <3>1 DEF Attempt
  <2>4. d.gen = exec[e].gen /\ d.stage = "cancelling" /\ d.order = o
    BY <1>0, <1>1 DEF Drive
  <2> HIDE DEF a, d
  <2>5. exec'[e] = d /\ \A y \in Executors \ {e} : exec'[y] = exec[y]
    BY <2>1 DEF TypeOK
  <2>6. \A p \in Orders : /\ attempt'[p].gen = attempt[p].gen
                          /\ p # o => attempt'[p] = attempt[p]
    BY <2>1, <2>3 DEF TypeOK
  <2>7. attempt'[o].status # "PREPARED"
    BY <2>1, <2>3 DEF TypeOK
  <2>8. TurnInv(e)
    BY DEF CancelInv
  <2>9. ~Spent(o)
    BY <1>0, <1>1, <2>2, <2>8 DEF TurnInv
  <2>10. \A p \in Orders \ {o} : Spent(p)' <=> Spent(p)
    BY <1>0, <1>1, <2>4, <2>5 DEF Spent
  <2>11. 0 < exec[e].gen /\ exec[e].gen <= attempt[o].gen
    BY <1>0, <1>1, <2>8 DEF TurnInv, Turns
  <2>12. attempt[o].gen # 0
    BY <2>2, <2>11
  <2>13. \A p \in Orders : AttemptInv(p)'
    BY <1>0, <2>6, <2>7, <2>10, <2>12, AttemptsKept DEF CancelInv, AttemptInv
  <2>14. \A y \in Executors \ {e} : exec[y].stage = "cancelling" => exec[y].order # o
    BY <2>9 DEF Spent
  <2>15. \A y \in Executors \ {e} : TurnInv(y)'
    BY <1>0, <2>4, <2>5, <2>6, <2>7, <2>10, <2>14, TurnsKept
  <2>16. cancels[o] = 0
    BY <2>9 DEF Spent
  <2>17. TurnInv(e)'
    BY <1>0, <2>4, <2>5, <2>6, <2>11, <2>14, <2>16 DEF TurnInv
  <2> QED
    BY <2>13, <2>15, <2>17 DEF CancelInv
<1> QED
  BY <1>2, <1>3

\* The one call: whoever is about to cancel is alone with the order.
LEMMA CancelCall ==
  ASSUME TypeOK, WireInv, CancelInv, NEW e \in Executors, CancelWire(e) PROVE CancelInv'
<1>0. exec[e] \in Drive /\ UNCHANGED <<ctl, wire, attempt>> /\ exec[e].stage = "cancelling"
  BY DEF TypeOK, CancelWire
<1>1. PICK o \in Orders : o = exec[e].order
  BY <1>0 DEF CancelWire, Drive, Turns
<1> DEFINE d == [exec[e] EXCEPT !.stage = "sent"]
<1>2. exec' = [exec EXCEPT ![e] = d] /\ cancels' = [cancels EXCEPT ![o] = cancels[o] + 1]
  BY <1>1 DEF CancelWire
<1>3. d.gen = exec[e].gen /\ d.stage = "sent" /\ d.order = o
  BY <1>0, <1>1 DEF Drive
<1> HIDE DEF d
<1>4. exec'[e] = d /\ \A y \in Executors \ {e} : exec'[y] = exec[y]
  BY <1>2 DEF TypeOK
<1>5. TurnInv(e)
  BY DEF CancelInv
<1>6. cancels[o] = 0 /\ \A y \in Executors \ {e} : exec[y].stage = "cancelling" => exec[y].order # o
  BY <1>0, <1>1, <1>5 DEF TurnInv
<1>7. cancels'[o] = 1 /\ \A p \in Orders \ {o} : cancels'[p] = cancels[p]
  BY <1>2, <1>6 DEF TypeOK
<1>8. Spent(o)
  BY <1>0, <1>1 DEF Spent
<1>9. \A p \in Orders : Spent(p)' => Spent(p)
  BY <1>3, <1>4, <1>7, <1>8 DEF Spent
<1>10. \A p \in Orders : AttemptInv(p)'
  <2>1. \A p \in Orders : cancels'[p] \in {0, 1}
    BY <1>7 DEF CancelInv, AttemptInv
  <2> QED
    BY <1>0, <1>9, <2>1, AttemptsKept DEF CancelInv, AttemptInv
<1>11. \A y \in Executors \ {e} : TurnInv(y)'
  <2>1. \A y \in Executors \ {e} : exec[y].stage = "cancelling" =>
          cancels'[exec[y].order] = cancels[exec[y].order]
    <3> TAKE y \in Executors \ {e}
    <3> HAVE exec[y].stage = "cancelling"
    <3>1. exec[y].order \in Orders
      BY DEF TypeOK, Drive, Turns
    <3> QED
      BY <1>6, <1>7, <3>1
  <2> QED
    BY <1>0, <1>3, <1>4, <1>9, <2>1, TurnsKept
<1>12. TurnInv(e)'
  <2>1. 0 < exec[e].gen /\ exec[e].gen <= attempt[o].gen
    BY <1>0, <1>1, <1>5 DEF TurnInv, Turns
  <2> QED
    BY <1>0, <1>3, <1>4, <2>1 DEF TurnInv
<1> QED
  BY <1>10, <1>11, <1>12 DEF CancelInv

\* Every other step of an executor, and every step of the fence, the broker and time, is
\* of no consequence to attempts and turns.
LEMMA CancelQuiet ==
  ASSUME TypeOK, HistoryConsistent, WireInv, CancelInv,
         \/ Fence
         \/ \E e \in Executors : \/ Claim(e) \/ Inventory(e) \/ EndPass(e) \/ Census(e) \/ Settle(e)
                                 \/ Renew(e) \/ Fail(e) \/ Crash(e)
         \/ \E o \in Orders : BrokerEnds(o) \/ Report(o) \/ Exit(o)
         \/ Tick \/ UNCHANGED vars
  PROVE  CancelInv'
<1>1. ASSUME UNCHANGED <<attempt, cancels, exec, ctl>>,
             \A o \in Orders : wire'[o] = "live" => wire[o] \in {"no", "live"}
      PROVE  CancelInv'
  BY <1>1, CancelKept
<1>2. ASSUME NEW e \in Executors, NEW d, d.stage \notin Turns, exec' = [exec EXCEPT ![e] = d],
             UNCHANGED <<attempt, cancels, wire>>, ctl'.gen = ctl.gen, ctl'.desired = ctl.desired
      PROVE  CancelInv'
  <2>1. exec'[e] = d /\ \A x \in Executors \ {e} : exec'[x] = exec[x]
    BY <1>2 DEF TypeOK
  <2>2. \A x \in Executors : exec'[x] = exec[x] \/ exec'[x].stage \notin Turns
    BY <1>2, <2>1
  <2> QED
    BY <1>2, <2>2, CancelKept
<1>3. CASE Fence
  <2>1. UNCHANGED <<attempt, cancels, exec, ctl>>
    BY <1>3 DEF Fence, Refresh, Stamp, Check, Authorize, Post, ProveUnsent
  <2>2. \A o \in Orders : wire'[o] = "live" => wire[o] \in {"no", "live"}
    <3>1. CASE \E p \in Orders : Post(p)
      BY <3>1 DEF Post, TypeOK
    <3>2. CASE ~\E p \in Orders : Post(p)
      BY <1>3, <3>2 DEF Fence, Refresh, Stamp, Check, Authorize, ProveUnsent
    <3> QED
      BY <3>1, <3>2
  <2> QED
    BY <1>1, <2>1, <2>2
<1>4. CASE (\E o \in Orders : BrokerEnds(o) \/ Report(o) \/ Exit(o)) \/ Tick \/ UNCHANGED vars
  <2>1. UNCHANGED <<attempt, cancels, exec, ctl>>
    BY <1>4 DEF BrokerEnds, Report, Exit, Tick, vars
  <2>2. \A o \in Orders : wire'[o] = "live" => wire[o] \in {"no", "live"}
    <3>1. CASE \E p \in Orders : BrokerEnds(p)
      BY <3>1 DEF BrokerEnds, TypeOK
    <3>2. CASE ~\E p \in Orders : BrokerEnds(p)
      BY <1>4, <3>2 DEF Report, Exit, Tick, vars
    <3> QED
      BY <3>1, <3>2
  <2> QED
    BY <1>1, <2>1, <2>2
<1>5. ASSUME NEW e \in Executors, Renew(e) PROVE CancelInv'
  BY <1>1, <1>5 DEF Renew
<1>6. ASSUME NEW e \in Executors, Claim(e) PROVE CancelInv'
  <2>1. PICK f : exec' = [exec EXCEPT ![e] = [NoDrive EXCEPT !.stage = "leased", !.gen = ctl.gen,
                                                             !.fence = f]]
    BY <1>6 DEF Claim
  <2> DEFINE d == [NoDrive EXCEPT !.stage = "leased", !.gen = ctl.gen, !.fence = f]
  <2>2. d.stage \notin Turns
    BY DEF NoDrive, Turns
  <2>3. UNCHANGED <<attempt, cancels, wire, ctl>>
    BY <1>6 DEF Claim
  <2> HIDE DEF d
  <2> QED
    BY <1>2, <2>1, <2>2, <2>3 DEF d
<1>7. ASSUME NEW e \in Executors, Inventory(e) \/ Census(e) PROVE CancelInv'
  <2>1. exec[e] \in Drive /\ UNCHANGED <<attempt, cancels, wire, ctl>>
    BY <1>7 DEF TypeOK, Inventory, Census
  <2>2. PICK d : exec' = [exec EXCEPT ![e] = d] /\ d.stage \in {"listed", "visiting", "counted"}
    <3>1. CASE Inventory(e)
      <4> DEFINE entries == {o \in Orders : order[o].status \notin CensusTerminal \cup {"none"}}
                 d == [exec[e] EXCEPT !.stage = IF entries = {} THEN "listed" ELSE "visiting",
                                      !.todo = entries]
      <4>1. exec' = [exec EXCEPT ![e] = d]
        BY <2>1, <3>1 DEF Inventory, TypeOK, Drive
      <4> HIDE DEF entries
      <4>2. d.stage \in {"listed", "visiting", "counted"}
        BY <2>1 DEF Drive
      <4> HIDE DEF d
      <4> QED
        BY <4>1, <4>2
    <3>2. CASE Census(e)
      <4> DEFINE d == [exec[e] EXCEPT !.stage = "counted", !.at = clock]
      <4>1. exec' = [exec EXCEPT ![e] = d]
        BY <2>1, <3>2 DEF Census, TypeOK, Drive
      <4>2. d.stage \in {"listed", "visiting", "counted"}
        BY <2>1 DEF Drive
      <4> HIDE DEF d
      <4> QED
        BY <4>1, <4>2
    <3> QED
      BY <1>7, <3>1, <3>2
  <2>3. d.stage \notin Turns
    BY <2>2 DEF Turns
  <2> QED
    BY <1>2, <2>1, <2>2, <2>3
<1>8. ASSUME NEW e \in Executors, EndPass(e) \/ Settle(e) PROVE CancelInv'
  <2>1. exec' = [exec EXCEPT ![e] = NoDrive] /\ UNCHANGED <<attempt, cancels, wire>>
    BY <1>8 DEF EndPass, Settle
  <2>2. NoDrive.stage \notin Turns
    BY DEF NoDrive, Turns
  <2>3. ctl'.gen = ctl.gen /\ ctl'.desired = ctl.desired
    BY <1>8 DEF EndPass, Settle, TypeOK, Snapshot
  <2> QED
    BY <1>2, <2>1, <2>2, <2>3
<1>9. ASSUME NEW e \in Executors, Fail(e) PROVE CancelInv'
  <2> DEFINE x == EndTurn(exec[e])
  <2>1. exec' = [exec EXCEPT ![e] = x] \/ exec' = [exec EXCEPT ![e] = NoDrive]
    BY <1>9 DEF Fail
  <2>2. exec[e] \in Drive /\ UNCHANGED <<attempt, cancels, wire, ctl>>
    BY <1>9 DEF Fail, TypeOK
  <2>3. x.stage \notin Turns /\ NoDrive.stage \notin Turns
    BY <2>2 DEF EndTurn, NoDrive, Turns, Drive
  <2> HIDE DEF x
  <2> QED
    BY <1>2, <2>1, <2>2, <2>3
<1>10. ASSUME NEW e \in Executors, Crash(e) PROVE CancelInv'
  <2> DEFINE d == [NoDrive EXCEPT !.stage = "down"]
  <2>1. exec' = [exec EXCEPT ![e] = d] /\ UNCHANGED <<attempt, cancels, wire, ctl>>
    BY <1>10 DEF Crash
  <2>2. d.stage \notin Turns
    BY DEF NoDrive, Turns
  <2> HIDE DEF d
  <2> QED
    BY <1>2, <2>1, <2>2
<1> QED
  BY <1>3, <1>4, <1>5, <1>6, <1>7, <1>8, <1>9, <1>10

\* The invariant is preserved by every step.
LEMMA CancelStep ==
  TypeOK /\ HistoryConsistent /\ WireInv /\ CancelInv /\ [Next]_vars => CancelInv'
<1> SUFFICES ASSUME TypeOK, HistoryConsistent, WireInv, CancelInv, [Next]_vars PROVE CancelInv'
  OBVIOUS
<1>1. CASE Operator
  BY <1>1, CancelOperator
<1>2. CASE Fence \/ UNCHANGED vars
  BY <1>2, CancelQuiet
<1>3. ASSUME NEW e \in Executors, Driving(e) PROVE CancelInv'
  <2>1. CASE Claim(e) \/ Inventory(e) \/ EndPass(e) \/ Census(e) \/ Settle(e)
    BY <2>1, CancelQuiet
  <2>2. CASE Read(e)
    BY <2>2, CancelRead
  <2>3. CASE Record(e)
    BY <2>3, CancelRecord
  <2>4. CASE Dispatch(e)
    BY <2>4, CancelDispatch
  <2>5. CASE CancelWire(e)
    BY <2>5, CancelCall
  <2>6. CASE \E o \in Orders : Prepare(e, o)
    BY <2>6, CancelPrepare
  <2> QED
    BY <1>3, <2>1, <2>2, <2>3, <2>4, <2>5, <2>6 DEF Driving
<1>4. CASE Outside
  BY <1>4, CancelQuiet DEF Outside
<1> QED
  BY <1>1, <1>2, <1>3, <1>4 DEF Next

\* dispatch() and CANCEL_ENTRY: one cancel per order, across lost leases, takeovers by
\* another executor, failed passes, crashes and later commands.
THEOREM CancelledOnceAlways == Spec => []CancelledOnce
<1>1. TypeOK /\ HistoryConsistent /\ WireInv /\ CancelInv /\ [Next]_vars => CancelInv'
  BY CancelStep
<1>2. CancelInv => CancelledOnce
  BY DEF CancelInv, AttemptInv, CancelledOnce
<1> QED
  BY <1>1, <1>2, CancelInit, HistoryCorrect, WireAlways, PTL DEF Spec

------------------------------------------------------------------------------
(* Who changes what a command says.                                         *)

\* Commands of generations to come do not exist.
FutureInv == \A g \in Generations : g > ctl.gen => cmd[g].action = "none"

\* A step of an executor writes the phase of a STOP only through its lease.
PhaseStep ==
  \A g \in Generations : cmd[g].action = "STOP" /\ cmd'[g].phase # cmd[g].phase =>
    \E e \in Executors : /\ exec[e].gen = g /\ exec'[e].stage = "idle"
                         /\ cmd[g].executor = e /\ exec[e].fence = cmd[g].fence

\* A write of the current command that keeps its action keeps the future empty.
LEMMA FutureKept ==
  ASSUME TypeOK, FutureInv, ctl'.gen = ctl.gen, NEW c,
         cmd' = cmd \/ (ctl.gen \in Generations /\ cmd' = [cmd EXCEPT ![ctl.gen] = c])
  PROVE  FutureInv'
<1>1. ctl.gen \in Nat
  BY DEF TypeOK, Snapshot
<1>a. \A g \in Generations : g > ctl.gen => g # ctl.gen
  BY <1>1 DEF Generations
<1>2. \A g \in Generations : g > ctl.gen => cmd'[g] = cmd[g]
  BY <1>a DEF TypeOK
<1> QED
  BY <1>2 DEF FutureInv

\* The end of a pass: the phase write is the lease holder's, or does not happen.
LEMMA PhaseEnd ==
  ASSUME TypeOK, HistoryConsistent, NEW e \in Executors, exec' = [exec EXCEPT ![e] = NoDrive],
         NEW p \in {"UNSETTLED", "SETTLED"},
         cmd' = IF Leased(e) THEN [cmd EXCEPT ![ctl.gen].phase = p] ELSE cmd
  PROVE  /\ PhaseStep
         /\ \E c : cmd' = cmd \/ (ctl.gen \in Generations /\ cmd' = [cmd EXCEPT ![ctl.gen] = c])
<1>1. exec'[e].stage = "idle"
  BY DEF TypeOK, NoDrive
<1>2. CASE ~Leased(e)
  BY <1>2 DEF PhaseStep
<1>3. CASE Leased(e)
  <2>1. ctl.gen \in Generations /\ exec[e].gen = ctl.gen
    BY <1>3, LeasedGen
  <2>2. cmd' = [cmd EXCEPT ![ctl.gen] = [cmd[ctl.gen] EXCEPT !.phase = p]]
    BY <1>3
  <2>3. \A g \in Generations \ {ctl.gen} : cmd'[g] = cmd[g]
    BY <2>2 DEF TypeOK
  <2>4. cmd[ctl.gen].executor = e /\ cmd[ctl.gen].fence = exec[e].fence
    BY <1>3 DEF Leased
  <2>5. PhaseStep
    BY <1>1, <2>1, <2>3, <2>4 DEF PhaseStep
  <2> QED
    BY <2>1, <2>2, <2>5
<1> QED
  BY <1>2, <1>3

\* A lease is taken or renewed without a word about the phase.
LEMMA PhaseLease ==
  ASSUME TypeOK, HistoryConsistent, NEW e \in Executors, Claim(e) \/ Renew(e)
  PROVE  /\ PhaseStep
         /\ \E c : ctl.gen \in Generations /\ cmd' = [cmd EXCEPT ![ctl.gen] = c]
<1>1. ctl.gen \in Generations /\ cmd[ctl.gen] \in Command
  BY DEF Claim, Renew, Leased, TypeOK, Snapshot, HistoryConsistent, Generations
<1>2. PICK c : cmd' = [cmd EXCEPT ![ctl.gen] = c] /\ c.phase = cmd[ctl.gen].phase
  <2>1. CASE Claim(e)
    <3>1. PICK f : cmd' = [cmd EXCEPT ![ctl.gen] = [cmd[ctl.gen] EXCEPT !.executor = e, !.fence = f,
                                                       !.until = clock + LeaseTime]]
      BY <2>1 DEF Claim
    <3> DEFINE c == [cmd[ctl.gen] EXCEPT !.executor = e, !.fence = f, !.until = clock + LeaseTime]
    <3>2. c.phase = cmd[ctl.gen].phase
      BY <1>1 DEF Command
    <3> HIDE DEF c
    <3> QED
      BY <3>1, <3>2 DEF c
  <2>2. CASE Renew(e)
    <3> DEFINE c == [cmd[ctl.gen] EXCEPT !.until = clock + LeaseTime]
    <3>1. cmd' = [cmd EXCEPT ![ctl.gen] = c]
      BY <2>2 DEF Renew
    <3>2. c.phase = cmd[ctl.gen].phase
      BY <1>1 DEF Command
    <3> HIDE DEF c
    <3> QED
      BY <3>1, <3>2
  <2> QED
    BY <2>1, <2>2
<1>3. \A g \in Generations : cmd'[g].phase = cmd[g].phase
  BY <1>1, <1>2 DEF TypeOK
<1> QED
  BY <1>1, <1>2, <1>3 DEF PhaseStep

\* A request writes a command that did not exist.
LEMMA PhaseOperator ==
  ASSUME TypeOK, FutureInv, Operator PROVE PhaseStep /\ FutureInv'
<1>1. ctl.gen \in Nat /\ ctl.gen + 1 \in Generations
  <2>1. ctl.gen \in Nat /\ MaxGen \in Nat
    BY StopConstants DEF TypeOK, Snapshot
  <2>2. ctl.gen < MaxGen
    BY DEF Operator, RequestStop, RequestOn
  <2> QED
    BY <2>1, <2>2 DEF Generations
<1>2. ctl' \in {[gen |-> ctl.gen + 1, desired |-> "STOP", active |-> TRUE],
                [gen |-> ctl.gen + 1, desired |-> "RUN", active |-> FALSE]}
  BY DEF Operator, RequestStop, RequestOn
<1>3. PICK c : cmd' = [cmd EXCEPT ![ctl.gen + 1] = c]
  BY DEF Operator, RequestStop, RequestOn
<1>4. \A g \in Generations \ {ctl.gen + 1} : cmd'[g] = cmd[g]
  BY <1>3 DEF TypeOK
<1>5. cmd[ctl.gen + 1].action = "none"
  BY <1>1 DEF FutureInv
<1>6. PhaseStep
  BY <1>4, <1>5 DEF PhaseStep
<1>7. ctl'.gen = ctl.gen + 1
  BY <1>2
<1>8. \A g \in Generations : g > ctl.gen + 1 => g > ctl.gen /\ g # ctl.gen + 1
  BY <1>1 DEF Generations
<1>9. FutureInv'
  BY <1>4, <1>7, <1>8 DEF FutureInv
<1> QED
  BY <1>6, <1>9

\* Every step respects the lease holder's word.
LEMMA PhaseAnyStep ==
  TypeOK /\ HistoryConsistent /\ FutureInv /\ [Next]_vars => PhaseStep /\ FutureInv'
<1> SUFFICES ASSUME TypeOK, HistoryConsistent, FutureInv, [Next]_vars PROVE PhaseStep /\ FutureInv'
  OBVIOUS
<1>1. ASSUME ctl' = ctl, cmd' = cmd PROVE PhaseStep /\ FutureInv'
  BY <1>1 DEF PhaseStep, FutureInv
<1>2. CASE Operator
  BY <1>2, PhaseOperator
<1>3. ASSUME NEW e \in Executors, Claim(e) \/ Renew(e) PROVE PhaseStep /\ FutureInv'
  <2>1. ctl' = ctl
    BY <1>3 DEF Claim, Renew
  <2> QED
    BY <1>3, <2>1, PhaseLease, FutureKept
<1>4. ASSUME NEW e \in Executors, EndPass(e) \/ Settle(e) \/ (Fail(e) /\ exec[e].stage \notin Turns)
      PROVE  PhaseStep /\ FutureInv'
  <2>1. exec' = [exec EXCEPT ![e] = NoDrive]
    BY <1>4 DEF EndPass, Settle, Fail
  <2>2. PICK p \in {"UNSETTLED", "SETTLED"} :
          cmd' = IF Leased(e) THEN [cmd EXCEPT ![ctl.gen].phase = p] ELSE cmd
    BY <1>4 DEF EndPass, Settle, Fail, Unsettled, Settleable
  <2>3. ctl'.gen = ctl.gen
    BY <1>4 DEF EndPass, Settle, Fail, TypeOK, Snapshot
  <2> QED
    BY <2>1, <2>2, <2>3, PhaseEnd, FutureKept
<1>5. CASE Fence \/ UNCHANGED vars
  BY <1>1, <1>5, HistoryFence DEF vars
<1>6. ASSUME NEW e \in Executors, Driving(e) PROVE PhaseStep /\ FutureInv'
  <2>1. CASE Claim(e)
    BY <1>3, <2>1
  <2>2. CASE EndPass(e) \/ Settle(e)
    BY <1>4, <2>2
  <2>3. CASE ~(Claim(e) \/ EndPass(e) \/ Settle(e))
    BY <1>1, <1>6, <2>3 DEF Driving, Inventory, Read, Record, Dispatch, CancelWire, Census, Prepare
  <2> QED
    BY <2>1, <2>2, <2>3
<1>7. CASE Outside
  <2>1. ASSUME NEW e \in Executors, Fail(e), exec[e].stage \in Turns PROVE PhaseStep /\ FutureInv'
    BY <1>1, <2>1 DEF Fail
  <2>2. ASSUME NEW e \in Executors, Renew(e) \/ Fail(e) \/ Crash(e) PROVE PhaseStep /\ FutureInv'
    BY <1>1, <1>3, <1>4, <2>1, <2>2 DEF Crash
  <2>3. CASE (\E o \in Orders : BrokerEnds(o) \/ Report(o) \/ Exit(o)) \/ Tick
    BY <1>1, <2>3 DEF BrokerEnds, Report, Exit, Tick
  <2> QED
    BY <1>7, <2>2, <2>3 DEF Outside
<1> QED
  BY <1>2, <1>5, <1>6, <1>7 DEF Next

\* set_stop_phase() and settle_stop(): a stale executor never overwrites what the holder
\* of the highest fence says of the command.
THEOREM PhaseHolderCorrect == Spec => PhaseByHolder
<1>1. Init => FutureInv
  BY DEF Init, FutureInv
<1>2. TypeOK /\ HistoryConsistent /\ FutureInv /\ [Next]_vars => FutureInv'
  BY PhaseAnyStep
<1>3. TypeOK /\ HistoryConsistent /\ FutureInv /\ [Next]_vars => [PhaseStep]_vars
  BY PhaseAnyStep
<1>4. [][PhaseStep]_vars => PhaseByHolder
  BY DEF PhaseByHolder, PhaseStep
<1> QED
  BY <1>1, <1>2, <1>3, <1>4, HistoryCorrect, PTL DEF Spec
==============================================================================
