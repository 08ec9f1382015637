------------------------------- MODULE StopControl -------------------------------
(****************************************************************************)
(* Durable STOP / ON control of one live strategy: the command store        *)
(* (oms/bot_control.py), the entry fence in front of the broker adapter     *)
(* (oms/bot_control_runtime.py), the lease-fenced executor that drives a    *)
(* STOP to settlement (oms/bot_control_executor.py), its cleanup journal    *)
(* (oms/bot_control_journal.py) and the driver that cancels the strategy's  *)
(* own entries (oms/bot_control_legacy.py).                                 *)
(*                                                                          *)
(* Every store and journal method is one transaction that locks the control *)
(* row first, hence one step; what a caller read or was granted before an   *)
(* await is used in a later step.  A command is named by its generation.    *)
(* Account scope, symbols, hashes and identities that never differ for one  *)
(* order are left out; so is the revision counter, which only guards        *)
(* engines without row locks.                                               *)
(****************************************************************************)
EXTENDS Integers, FiniteSets

CONSTANTS
  Orders,         \* entry orders of the strategy
  Executors,      \* executor identities, one per OMS process
  NoOne,          \* no executor, no order
  LeaseTime,      \* 30 s in the code
  Fresh,          \* age at which a census is stale (2 s)
  CensusTerminal, \* order statuses the driver's census takes for terminal
  MaxGen, MaxClock, MaxFaults

ASSUME StopConstants ==
  /\ NoOne \notin Executors \cup Orders
  /\ LeaseTime \in Nat \ {0} /\ Fresh \in Nat
  /\ CensusTerminal \subseteq {"filled", "cancelled", "aborted"}
  /\ MaxGen \in Nat /\ MaxClock \in Nat /\ MaxFaults \in Nat

VARIABLES
  ctl,     \* durable BotControlState: generation, desired_state, active command
  cmd,     \* durable BotControlCommand of every generation
  cache,   \* BotControlRuntime.states: the snapshot admission reads
  order,   \* durable BrokerOrder of every entry
  lane,    \* where the submission of an order is: idle, checked, granted
  wire,    \* what the broker has of the order
  posts,   \* how often the order was put on the wire
  attempt, \* durable CANCEL_ENTRY BotControlAttempt of every order
  cancels, \* how often a cancel of the order was put on the wire
  exec,    \* every executor's _drive: stage, lease, order, what it read
  clock,
  faults   \* crashes, lost calls and failed passes so far

vars == <<ctl, cmd, cache, order, lane, wire, posts, attempt, cancels, exec,
          clock, faults>>

Generations == 1 .. MaxGen
None == -1
Snapshot == [gen : 0 .. MaxGen, desired : {"RUN", "STOP"}, active : BOOLEAN]
\* A scope that could not be read is UNKNOWN, never permission to send.
Unknown == [gen |-> None, desired |-> "UNKNOWN", active |-> FALSE]
Command == [action : {"none", "STOP", "ON"}, phase : {"PENDING", "UNSETTLED", "SETTLED"},
            complete : BOOLEAN, accepted : Nat,
            executor : Executors \cup {NoOne}, fence : Nat, until : Nat]
Statuses == {"none", "pending", "working", "filled", "cancelled", "aborted"}
Order == [status : Statuses, stamped : 0 .. MaxGen \cup {None}, decided : Nat,
          permit : BOOLEAN, exited : BOOLEAN]
Attempt == [gen : 0 .. MaxGen, status : {"none", "PREPARED", "MAY_HAVE_SENT", "WORKING", "TERMINAL"},
            executor : Executors \cup {NoOne}, fence : Nat]
\* Where a _drive() is: between two orders, in the turn of one, or at the census.
Turns == {"prepared", "read", "dispatching", "cancelling", "sent", "reread"}
Stages == Turns \cup {"idle", "leased", "visiting", "listed", "counted", "down"}
Drive ==
  {d \in [stage : Stages, gen : 0 .. MaxGen, fence : Nat, todo : SUBSET Orders,
          order : Orders \cup {NoOne}, seen : {"no", "live", "filled", "dead"}, at : Nat] :
     d.stage \in Turns => d.order \in Orders}

TypeOK ==
  /\ ctl \in Snapshot
  /\ cmd \in [Generations -> Command]
  /\ cache \in Snapshot \cup {Unknown}
  /\ order \in [Orders -> Order]
  /\ lane \in [Orders -> {"idle", "checked", "granted"}]
  /\ wire \in [Orders -> {"no", "live", "filled", "dead"}]
  /\ posts \in [Orders -> Nat] /\ cancels \in [Orders -> Nat]
  /\ attempt \in [Orders -> Attempt]
  /\ exec \in [Executors -> Drive]
  /\ clock \in Nat /\ faults \in Nat

NoDrive == [stage |-> "idle", gen |-> 0, fence |-> 0, todo |-> {}, order |-> NoOne,
            seen |-> "live", at |-> 0]

Init ==
  /\ ctl = [gen |-> 0, desired |-> "RUN", active |-> FALSE]    \* seed()
  /\ cmd = [g \in Generations |-> [action |-> "none", phase |-> "PENDING", complete |-> FALSE,
                                   accepted |-> 0, executor |-> NoOne, fence |-> 0, until |-> 0]]
  /\ cache = Unknown
  /\ order = [o \in Orders |-> [status |-> "none", stamped |-> None, decided |-> 0,
                                permit |-> FALSE, exited |-> FALSE]]
  /\ lane = [o \in Orders |-> "idle"]
  /\ wire = [o \in Orders |-> "no"]
  /\ posts = [o \in Orders |-> 0] /\ cancels = [o \in Orders |-> 0]
  /\ attempt = [o \in Orders |-> [gen |-> 0, status |-> "none", executor |-> NoOne, fence |-> 0]]
  /\ exec = [e \in Executors |-> NoDrive]
  /\ clock = 0 /\ faults = 0

AdmissionOpen(s) == s.desired = "RUN" /\ ~s.active
Live(status) == status \notin {"none", "filled", "cancelled", "aborted"}
Unresolved(o) == attempt[o].status \notin {"none", "TERMINAL"}

------------------------------------------------------------------------------
(* The operator: request().                                                 *)

\* Mutation: an ON is accepted while the STOP is still being carried out.
RequestOnEarly ==
  /\ ctl.gen < MaxGen
  /\ ctl.desired = "STOP"
  /\ cmd' = [cmd EXCEPT ![ctl.gen + 1] =
               [@ EXCEPT !.action = "ON", !.phase = "SETTLED", !.complete = TRUE, !.accepted = clock]]
  /\ ctl' = [gen |-> ctl.gen + 1, desired |-> "RUN", active |-> FALSE]
  /\ UNCHANGED <<cache, order, lane, wire, posts, attempt, cancels, exec, clock, faults>>

\* A STOP needs no command in progress; a repeated or stale request changes
\* nothing.  An incomplete account scope is latched, and blocked, all the same.
RequestStop(complete) ==
  /\ ctl.gen < MaxGen /\ ~ctl.active
  /\ cmd' = [cmd EXCEPT ![ctl.gen + 1] =
               [@ EXCEPT !.action = "STOP", !.phase = IF complete THEN "PENDING" ELSE "UNSETTLED",
                         !.complete = complete, !.accepted = clock]]
  /\ ctl' = [gen |-> ctl.gen + 1, desired |-> "STOP", active |-> TRUE]
  /\ UNCHANGED <<cache, order, lane, wire, posts, attempt, cancels, exec, clock, faults>>

\* An ON needs the settled STOP of the same scope.
RequestOn ==
  /\ ctl.gen < MaxGen /\ ~ctl.active /\ ctl.desired = "STOP"
  /\ cmd[ctl.gen].action = "STOP" /\ cmd[ctl.gen].phase = "SETTLED" /\ cmd[ctl.gen].complete
  /\ cmd' = [cmd EXCEPT ![ctl.gen + 1] =
               [@ EXCEPT !.action = "ON", !.phase = "SETTLED", !.complete = TRUE, !.accepted = clock]]
  /\ ctl' = [gen |-> ctl.gen + 1, desired |-> "RUN", active |-> FALSE]
  /\ UNCHANGED <<cache, order, lane, wire, posts, attempt, cancels, exec, clock, faults>>

------------------------------------------------------------------------------
(* The entry fence.                                                         *)

\* refresh(), one at a time: the snapshot is replaced by what was read, or by nothing
\* when the read failed.  Between two refreshes it may be as old as it likes, so the
\* read on a thread and the installation on the loop are one step.
Refresh ==
  /\ \/ cache' = ctl /\ UNCHANGED faults
     \/ faults < MaxFaults /\ faults' = faults + 1 /\ cache' = Unknown
  /\ UNCHANGED <<ctl, cmd, order, lane, wire, posts, attempt, cancels, exec, clock>>

\* stamp(): a pending entry order is prepared under the cached generation, for a
\* decision that may be older than the stamp.
Stamp(o) ==
  /\ order[o].status = "none"
  /\ AdmissionOpen(cache)
  /\ \E decided \in 0 .. clock :
       order' = [order EXCEPT ![o] = [@ EXCEPT !.status = "pending", !.stamped = cache.gen,
                                               !.decided = decided]]
  /\ UNCHANGED <<ctl, cmd, cache, lane, wire, posts, attempt, cancels, exec, clock, faults>>

\* authorize(), on the event loop: the cached scope must be running.  A caller
\* may come back with an order it submitted before.
Check(o) ==
  /\ lane[o] = "idle" /\ order[o].status # "none"
  /\ AdmissionOpen(cache)
  /\ lane' = [lane EXCEPT ![o] = "checked"]
  /\ UNCHANGED <<ctl, cmd, cache, order, wire, posts, attempt, cancels, exec, clock, faults>>

\* Mutation: a permit already on the order is not looked at.
PermittedTwice(o) ==
  /\ AdmissionOpen(ctl) /\ order[o].stamped = ctl.gen
  /\ ctl.gen > 0 => cmd[ctl.gen].accepted <= order[o].decided
  /\ order[o].status = "pending"

\* authorize_entry(): the state must be running in the generation the order was
\* stamped with, the decision not older than the ON, the order unsent.
Permitted(o) ==
  /\ AdmissionOpen(ctl) /\ order[o].stamped = ctl.gen
  /\ ctl.gen > 0 => cmd[ctl.gen].accepted <= order[o].decided
  /\ order[o].status = "pending" /\ ~order[o].permit

Authorize(o) ==
  /\ lane[o] = "checked"
  /\ IF Permitted(o)
     THEN /\ order' = [order EXCEPT ![o].permit = TRUE]
          /\ lane' = [lane EXCEPT ![o] = "granted"]
     ELSE /\ lane' = [lane EXCEPT ![o] = "idle"]
          /\ UNCHANGED order
  /\ UNCHANGED <<ctl, cmd, cache, wire, posts, attempt, cancels, exec, clock, faults>>

\* submit_order() of the delegate: the call reaches the broker, or is lost.
Post(o) ==
  /\ lane[o] = "granted"
  /\ lane' = [lane EXCEPT ![o] = "idle"]
  /\ posts' = [posts EXCEPT ![o] = @ + 1]
  /\ \/ /\ wire' = [wire EXCEPT ![o] = IF @ = "no" THEN "live" ELSE @]
        /\ UNCHANGED faults
     \/ /\ faults < MaxFaults
        /\ faults' = faults + 1
        /\ UNCHANGED wire
  /\ UNCHANGED <<ctl, cmd, cache, order, attempt, cancels, exec, clock>>

\* Mutation: the proof ignores a permit that may already be on the wire.
UnsentPermitted(o) ==
  /\ ctl.desired = "STOP"
  /\ order[o].status = "pending" /\ order[o].stamped # None

\* prove_unsent_entry(): under STOP, an order without permit was never sent.
Unsent(o) ==
  /\ ctl.desired = "STOP"
  /\ order[o].status = "pending" /\ order[o].stamped # None /\ ~order[o].permit

ProveUnsent(o) ==
  /\ Unsent(o)
  /\ order' = [order EXCEPT ![o].status = "aborted"]
  /\ UNCHANGED <<ctl, cmd, cache, lane, wire, posts, attempt, cancels, exec, clock, faults>>

------------------------------------------------------------------------------
(* The STOP executor: _drive() of one command under a lease.                *)

\* Mutation: a lease is only ever renewed by its holder, never taken over.
ClaimOwnOnly(e) ==
  /\ exec[e].stage = "idle"
  /\ ctl.desired = "STOP" /\ ctl.active
  /\ cmd[ctl.gen].executor \in {NoOne, e}
  /\ cmd' = [cmd EXCEPT ![ctl.gen] =
               [@ EXCEPT !.executor = e, !.fence = 1, !.until = clock + LeaseTime]]
  /\ exec' = [exec EXCEPT ![e] = [NoDrive EXCEPT !.stage = "leased", !.gen = ctl.gen, !.fence = 1]]
  /\ UNCHANGED <<ctl, cache, order, lane, wire, posts, attempt, cancels, clock, faults>>

\* claim_stop(): a lease that another executor holds is left alone; one that ran
\* out is taken over with a higher fence.
Claim(e) ==
  LET c == cmd[ctl.gen]
      held == c.until > clock
  IN /\ exec[e].stage = "idle"
     /\ ctl.desired = "STOP" /\ ctl.active
     /\ held => c.executor = e
     /\ LET fence == IF held THEN c.fence ELSE c.fence + 1
        IN /\ cmd' = [cmd EXCEPT ![ctl.gen] =
                        [@ EXCEPT !.executor = e, !.fence = fence, !.until = clock + LeaseTime]]
           /\ exec' = [exec EXCEPT ![e] = [NoDrive EXCEPT !.stage = "leased", !.gen = ctl.gen,
                                                          !.fence = fence]]
     /\ UNCHANGED <<ctl, cache, order, lane, wire, posts, attempt, cancels, clock, faults>>

\* Mutation: only the name of the executor is compared, not its fence or time.
LeasedByName(e) ==
  /\ ctl.active /\ ctl.desired = "STOP" /\ ctl.gen = exec[e].gen

\* _leased(): every write of the executor is checked against the current lease.
Leased(e) ==
  /\ ctl.active /\ ctl.desired = "STOP" /\ ctl.gen = exec[e].gen
  /\ cmd[ctl.gen].executor = e
  /\ cmd[ctl.gen].fence = exec[e].fence
  /\ cmd[ctl.gen].until > clock

\* renew_stop(), from the renewal task beside the drive.
Renew(e) ==
  /\ exec[e].stage \notin {"idle", "down"} /\ Leased(e)
  /\ cmd' = [cmd EXCEPT ![ctl.gen].until = clock + LeaseTime]
  /\ UNCHANGED <<ctl, cache, order, lane, wire, posts, attempt, cancels, exec, clock, faults>>

\* Mutation: a filled entry is terminal, whether or not its position was sold.
CensusFlatHeld(g) ==
  \A o \in Orders : /\ order[o].status \in CensusTerminal \cup {"none"}
                    /\ ~(Unresolved(o) /\ attempt[o].gen = g)

\* The driver's own view: every entry terminal, nothing held, no attempt open.
CensusFlat(g) ==
  \A o \in Orders : /\ order[o].status \in CensusTerminal \cup {"none"}
                    /\ order[o].status = "filled" => order[o].exited
                    /\ ~(Unresolved(o) /\ attempt[o].gen = g)

\* set_stop_phase(), if the lease still holds: any phase short of SETTLED.
Unsettled(e) == IF Leased(e) THEN [cmd EXCEPT ![ctl.gen].phase = "UNSETTLED"] ELSE cmd

\* _inventory(): the entries that are short of terminal are visited one by one; with
\* none of them the pass goes on to the census.
Inventory(e) ==
  /\ exec[e].stage = "leased" /\ cmd[exec[e].gen].complete
  /\ LET entries == {o \in Orders : order[o].status \notin CensusTerminal \cup {"none"}}
     IN exec' = [exec EXCEPT ![e].stage = IF entries = {} THEN "listed" ELSE "visiting",
                             ![e].todo = entries]
  /\ UNCHANGED <<ctl, cmd, cache, order, lane, wire, posts, attempt, cancels, clock, faults>>

\* The pass ends without settlement: an incomplete scope, entries that were visited,
\* or a census that is not flat.
EndPass(e) ==
  /\ \/ exec[e].stage = "leased" /\ ~cmd[exec[e].gen].complete
     \/ exec[e].stage = "visiting" /\ exec[e].todo = {}
     \/ exec[e].stage = "listed" /\ ~CensusFlat(exec[e].gen)
  /\ cmd' = Unsettled(e)
  /\ exec' = [exec EXCEPT ![e] = NoDrive]
  /\ UNCHANGED <<ctl, cache, order, lane, wire, posts, attempt, cancels, clock, faults>>

\* cancel_owned_entry() starts with prepare(): the one attempt of this command for
\* the order is created while the order works, or found again.  A finished attempt,
\* a lost lease and an order without broker identity end the order's turn.
Prepare(e, o) ==
  LET old == attempt[o].gen = exec[e].gen
      known == order[o].status \notin {"pending", "aborted"}
      turn == Leased(e) /\ known /\ IF old THEN attempt[o].status # "TERMINAL"
                                           ELSE order[o].status = "working"
  IN /\ exec[e].stage = "visiting" /\ o \in exec[e].todo
     /\ attempt' = IF turn /\ ~old
                   THEN [attempt EXCEPT ![o] = [gen |-> exec[e].gen, status |-> "PREPARED",
                                                executor |-> e, fence |-> exec[e].fence]]
                   ELSE attempt
     /\ LET rest == [exec[e] EXCEPT !.todo = @ \ {o}]
        IN exec' = [exec EXCEPT ![e] = IF turn THEN [rest EXCEPT !.stage = "prepared", !.order = o]
                                               ELSE rest]
     /\ UNCHANGED <<ctl, cmd, cache, order, lane, wire, posts, cancels, clock, faults>>

\* The turn of an order is over; the pass goes on with the next one.
EndTurn(drive) == [drive EXCEPT !.stage = "visiting", !.order = NoOne, !.seen = "live"]

\* observe(): the broker is read; before the dispatch and again after the cancel.
Read(e) ==
  /\ exec[e].stage \in {"prepared", "sent"}
  /\ exec' = [exec EXCEPT ![e].stage = IF exec[e].stage = "prepared" THEN "read" ELSE "reread",
                          ![e].seen = wire[exec[e].order]]
  /\ UNCHANGED <<ctl, cmd, cache, order, lane, wire, posts, attempt, cancels, clock, faults>>

\* A broker report in the words of the order table.
StatusOf(seen) == CASE seen = "live" -> "working" [] seen = "filled" -> "filled"
                    [] OTHER -> "cancelled"

\* What was read is recorded when the fills on record match it, and journalled by
\* reconcile() when it is terminal, or when a cancel was sent.  Fills are left to
\* their own writer: a mismatch ends this order's turn.
Record(e) ==
  LET o == exec[e].order
      seen == exec[e].seen
      matched == (seen = "filled") = (order[o].status = "filled")
      journalled == matched /\ Leased(e) /\ attempt[o].status # "TERMINAL"
                    /\ (exec[e].stage = "reread" \/ seen # "live")
      proceeds == exec[e].stage = "read" /\ seen = "live" /\ order[o].status # "filled"
                  /\ attempt[o].status = "PREPARED"
  IN /\ exec[e].stage \in {"read", "reread"}
     /\ order' = IF matched THEN [order EXCEPT ![o].status = StatusOf(seen)] ELSE order
     /\ attempt' = IF journalled
                   THEN [attempt EXCEPT ![o] = [@ EXCEPT
                           !.status = IF seen = "live" THEN "WORKING" ELSE "TERMINAL",
                           !.executor = e, !.fence = exec[e].fence]]
                   ELSE attempt
     /\ exec' = [exec EXCEPT ![e] = IF proceeds THEN [@ EXCEPT !.stage = "dispatching"]
                                               ELSE EndTurn(@)]
     /\ UNCHANGED <<ctl, cmd, cache, lane, wire, posts, cancels, clock, faults>>

\* Mutation: the attempt its caller has read is trusted, lease and replay unchecked.
DispatchableAgain(e) == Unresolved(exec[e].order)

\* dispatch(): MAY_HAVE_SENT is committed before the one call, by the executor and
\* fence that prepared it; a replay refuses.
Dispatchable(e) ==
  /\ Leased(e)
  /\ attempt[exec[e].order] = [gen |-> exec[e].gen, status |-> "PREPARED",
                               executor |-> e, fence |-> exec[e].fence]

Dispatch(e) ==
  /\ exec[e].stage = "dispatching"
  /\ IF Dispatchable(e)
     THEN /\ attempt' = [attempt EXCEPT ![exec[e].order].status = "MAY_HAVE_SENT"]
          /\ exec' = [exec EXCEPT ![e].stage = "cancelling"]
     ELSE /\ exec' = [exec EXCEPT ![e] = EndTurn(@)]
          /\ UNCHANGED attempt
  /\ UNCHANGED <<ctl, cmd, cache, order, lane, wire, posts, cancels, clock, faults>>

\* The cancel goes out; whether and when the broker acts on it is its own affair.
CancelWire(e) ==
  /\ exec[e].stage = "cancelling"
  /\ cancels' = [cancels EXCEPT ![exec[e].order] = @ + 1]
  /\ exec' = [exec EXCEPT ![e].stage = "sent"]
  /\ UNCHANGED <<ctl, cmd, cache, order, lane, wire, posts, attempt, clock, faults>>

\* _flat(): the census is taken, and stamped with its time.
Census(e) ==
  /\ exec[e].stage = "listed"
  /\ CensusFlat(exec[e].gen)
  /\ exec' = [exec EXCEPT ![e].stage = "counted", ![e].at = clock]
  /\ UNCHANGED <<ctl, cmd, cache, order, lane, wire, posts, attempt, cancels, clock, faults>>

\* settle_stop(): the census is fresh, and under the lock no order of the strategy
\* is short of terminal and no attempt unresolved.
Settleable(e) ==
  /\ Leased(e) /\ cmd[ctl.gen].complete
  /\ cmd[ctl.gen].accepted <= exec[e].at /\ clock - exec[e].at <= Fresh
  /\ \A o \in Orders : ~Live(order[o].status) /\ ~Unresolved(o)

\* Mutation: the command is settled in a commit of its own, before the control row.
SettleInTwo(e) ==
  /\ exec[e].stage = "counted"
  /\ IF Settleable(e) /\ cmd[ctl.gen].phase # "SETTLED"
     THEN cmd' = [cmd EXCEPT ![ctl.gen].phase = "SETTLED"] /\ UNCHANGED <<ctl, exec>>
     ELSE /\ UNCHANGED cmd
          /\ ctl' = [ctl EXCEPT !.active = ~Settleable(e)]
          /\ exec' = [exec EXCEPT ![e] = NoDrive]
  /\ UNCHANGED <<cache, order, lane, wire, posts, attempt, cancels, clock, faults>>

Settle(e) ==
  /\ exec[e].stage = "counted"
  /\ IF Settleable(e)
     THEN /\ cmd' = [cmd EXCEPT ![ctl.gen].phase = "SETTLED"]
          /\ ctl' = [ctl EXCEPT !.active = FALSE]
     ELSE /\ cmd' = Unsettled(e)
          /\ UNCHANGED ctl
  /\ exec' = [exec EXCEPT ![e] = NoDrive]
  /\ UNCHANGED <<cache, order, lane, wire, posts, attempt, cancels, clock, faults>>

\* Any call may fail: in the turn of an order it ends the turn, elsewhere the pass.
\* What was committed stays.
Fail(e) ==
  /\ exec[e].stage \notin {"idle", "down"}
  /\ faults < MaxFaults /\ faults' = faults + 1
  /\ IF exec[e].stage \in Turns
     THEN /\ exec' = [exec EXCEPT ![e] = EndTurn(@)]
          /\ UNCHANGED cmd
     ELSE /\ cmd' = Unsettled(e)
          /\ exec' = [exec EXCEPT ![e] = NoDrive]
  /\ UNCHANGED <<ctl, cache, order, lane, wire, posts, attempt, cancels, clock>>

------------------------------------------------------------------------------
(* The broker, crashes and time.                                            *)

\* The process of an executor dies; its successor has another identity.  The
\* submissions in flight were its own, or those of the other process.
Crash(e) ==
  /\ exec[e].stage # "down"
  /\ faults < MaxFaults /\ faults' = faults + 1
  /\ exec' = [exec EXCEPT ![e] = [NoDrive EXCEPT !.stage = "down"]]
  /\ \/ /\ lane' = [o \in Orders |-> "idle"]
        /\ cache' = Unknown
     \/ UNCHANGED <<lane, cache>>
  /\ UNCHANGED <<ctl, cmd, order, wire, posts, attempt, cancels, clock>>

BrokerEnds(o) ==
  /\ wire[o] = "live"
  /\ \E end \in {"filled", "dead"} : wire' = [wire EXCEPT ![o] = end]
  /\ UNCHANGED <<ctl, cmd, cache, order, lane, posts, attempt, cancels, exec, clock, faults>>

\* The order sync of the OMS records what the broker reports of an open order, fills
\* included.
Report(o) ==
  /\ wire[o] # "no" /\ order[o].status \in {"pending", "working"}
  /\ order[o].status # StatusOf(wire[o])
  /\ order' = [order EXCEPT ![o].status = StatusOf(wire[o])]
  /\ UNCHANGED <<ctl, cmd, cache, lane, wire, posts, attempt, cancels, exec, clock, faults>>

\* The position of a filled entry is sold.
Exit(o) ==
  /\ order[o].status = "filled" /\ ~order[o].exited
  /\ order' = [order EXCEPT ![o].exited = TRUE]
  /\ UNCHANGED <<ctl, cmd, cache, lane, wire, posts, attempt, cancels, exec, clock, faults>>

Tick ==
  /\ clock < MaxClock
  /\ clock' = clock + 1
  /\ UNCHANGED <<ctl, cmd, cache, order, lane, wire, posts, attempt, cancels, exec, faults>>

Operator == (\E complete \in BOOLEAN : RequestStop(complete)) \/ RequestOn

Fence == Refresh
         \/ \E o \in Orders : Stamp(o) \/ Check(o) \/ Authorize(o) \/ Post(o) \/ ProveUnsent(o)

Driving(e) == \/ Claim(e) \/ Inventory(e) \/ EndPass(e) \/ Read(e) \/ Record(e) \/ Dispatch(e)
              \/ CancelWire(e) \/ Census(e) \/ Settle(e)
              \/ \E o \in Orders : Prepare(e, o)

Outside == \/ \E e \in Executors : Renew(e) \/ Fail(e) \/ Crash(e)
           \/ \E o \in Orders : BrokerEnds(o) \/ Report(o) \/ Exit(o)
           \/ Tick

Next == Operator \/ Fence \/ (\E e \in Executors : Driving(e)) \/ Outside

Spec == Init /\ [][Next]_vars

\* The executor task is rescheduled every half second as long as its process lives.
FairSpec == Spec /\ \A e \in Executors : WF_vars(Driving(e))

------------------------------------------------------------------------------
(* Properties.                                                              *)

\* _validate_state() never finds the control row and its command history in
\* disagreement, which would close every other operation of the store for good.
HistoryConsistent ==
  IF ctl.gen = 0 THEN ctl.desired = "RUN" /\ ~ctl.active
  ELSE /\ cmd[ctl.gen].action = (IF ctl.desired = "STOP" THEN "STOP" ELSE "ON")
       /\ IF ctl.active THEN ctl.desired = "STOP" /\ cmd[ctl.gen].phase # "SETTLED"
                        ELSE cmd[ctl.gen].phase = "SETTLED"

\* authorize_entry() gives one wire permit: whatever is retried after a lost call or
\* a crash, an order is sent at most once.
OneWire == \A o \in Orders : posts[o] <= 1

\* An order that prove_unsent_entry() has settled as never sent is not at the broker
\* and nobody holds a permit to send it.
UnsentIsUnsent ==
  \A o \in Orders : order[o].status = "aborted" => posts[o] = 0 /\ lane[o] # "granted"

\* A settled STOP is quiet: nothing of the strategy lives at the broker, nothing is
\* held, and no permit granted before the STOP can still reach the wire.
SettledQuiet ==
  ctl.desired = "STOP" /\ ~ctl.active =>
    \A o \in Orders : /\ lane[o] # "granted" /\ wire[o] # "live"
                      /\ wire[o] = "filled" => order[o].exited

\* After an ON, only decisions taken since that ON are at the broker or on their way.
FreshAfterOn ==
  ctl.desired = "RUN" /\ ctl.gen > 0 =>
    \A o \in Orders : lane[o] = "granted" \/ wire[o] = "live" =>
      order[o].stamped = ctl.gen /\ order[o].decided >= cmd[ctl.gen].accepted

\* dispatch() is committed before one call: an entry is cancelled on the wire at most
\* once per STOP, across lease losses, takeovers and failed passes.
CancelledOnce == \A o \in Orders : cancels[o] <= 1

\* "A stale executor must not overwrite a successor's phase": only the executor that
\* holds the highest fence of the command changes what the command says.
PhaseByHolder ==
  [][\A g \in Generations : cmd[g].action = "STOP" /\ cmd'[g].phase # cmd[g].phase =>
       \E e \in Executors : /\ exec[e].gen = g /\ exec'[e].stage = "idle"
                            /\ cmd[g].executor = e /\ exec[e].fence = cmd[g].fence]_vars

\* The lease of the STOP is with a live executor, or free for one.
Driven ==
  /\ ctl.active /\ cmd[ctl.gen].complete
  /\ \E e \in Executors : exec[e].stage # "down"
  /\ cmd[ctl.gen].until <= clock \/ exec[cmd[ctl.gen].executor].stage # "down"

Over(o) == ~Live(order[o].status) /\ (order[o].status = "filled" => order[o].exited)

\* A STOP whose orders are all terminal and exited, with no attempt open, does not
\* stay unsettled for ever while a process drives it: crashes, takeovers and failed
\* passes leave nothing behind that every later pass trips over.
StopSettles == ~<>[](Driven /\ \A o \in Orders : Over(o) /\ ~Unresolved(o))

\* reconcile() asks its caller to "query the same identity" of an uncertain call: the
\* attempt of an order that is over is resolved sooner or later, by a driven STOP.
UncertainResolved == \A o \in Orders : ~<>[](Driven /\ Over(o) /\ Unresolved(o))
==============================================================================
