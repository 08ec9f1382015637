---------------------------- MODULE EpisodeWorkQueue ----------------------------
(****************************************************************************)
(* How owned episodes get their turns (momentum_live/lifecycle.py and       *)
(* actor.py): quotes, the cadence loop and the entry lane offer episode     *)
(* ids, EpisodeWorkQueue coalesces them in a queue of two slots, two        *)
(* workers service them one at a time under the runtime's state lock.       *)
(*                                                                          *)
(* offer(), the head and the tail of run() and _refresh_owners() hold no    *)
(* await: each is part of one step.  What a service does to the episode is  *)
(* LiveAdmission's subject; here it may end the episode and may refresh     *)
(* the owners, which a refused or failed service does not.                  *)
(*                                                                          *)
(* The specification is called QueueSpec, and its parts likewise, so that   *)
(* a module may extend this one beside OwnedExit.                           *)
(****************************************************************************)
EXTENDS Integers, FiniteSets, Sequences, SequencesExt

CONSTANTS
  Ids,       \* episodes, each opened at most once
  Workers,   \* tasks of run(): two in the code
  Slots,     \* maxsize of the queue: two in the code
  Capacity,  \* active episodes the ledger admits: two in the code
  Free       \* no episode, no worker

ASSUME QueueConstants ==
  /\ Free \notin Ids \cup Workers \cup {"proof"}
  /\ Slots \in Nat \ {0} /\ Capacity \in Nat
  /\ "proof" \notin Workers

VARIABLES
  life,   \* of every episode: new, claimed by the entry lane, open, closed
  work,   \* the EpisodeWorkQueue
  turn,   \* of every worker: its episode, and whether it is past the lock
  lock    \* holder of state_lock: a worker, the owner-proof publisher, or Free

queueVars == <<life, work, turn, lock>>

Turn == [id : Ids \cup {Free}, serving : BOOLEAN]

Work == [queue : Seq(Ids), owners : SUBSET Ids, pending : SUBSET Ids,
         running : SUBSET Ids, dirty : SUBSET Ids]

QueueTypeOK ==
  /\ life \in [Ids -> {"new", "claimed", "open", "closed"}]
  /\ work \in Work /\ Len(work.queue) <= Slots
  /\ turn \in [Workers -> Turn]
  /\ lock \in Workers \cup {"proof", Free}

\* The ids of the ledger's active index.
Active == {i \in Ids : life[i] \in {"claimed", "open"}}
NoTurn == [id |-> Free, serving |-> FALSE]

\* A restart restores the active episodes as owners before the tasks start.
QueueInit ==
  /\ life \in {f \in [Ids -> {"new", "open"}] :
                 Cardinality({i \in Ids : f[i] = "open"}) <= Capacity}
  /\ work = [queue |-> <<>>, owners |-> Active, pending |-> {}, running |-> {}, dirty |-> {}]
  /\ turn = [w \in Workers |-> NoTurn]
  /\ lock = Free

------------------------------------------------------------------------------
(* The queue.                                                               *)

Put(q, i) == [q EXCEPT !.queue = Append(@, i), !.pending = @ \cup {i}]

\* Mutation: an id whose service is under way is queued like any other.
OfferBesideRun(q, i) ==
  IF i \in q.owners \ q.pending /\ Len(q.queue) < Slots THEN Put(q, i) ELSE q

\* offer(): an episode being serviced is remembered as dirty, a queued one is left
\* alone, and a full queue refuses: the caller's wakeup is lost.
Offer(q, i) ==
  CASE i \in q.owners /\ i \in q.running -> [q EXCEPT !.dirty = @ \cup {i}]
    [] i \in q.owners \ (q.running \cup q.pending) /\ Len(q.queue) < Slots -> Put(q, i)
    [] OTHER -> q

\* Mutation: closed owners are dropped, and new ones never taken up.
RefreshedPrunes(q, active) == [q EXCEPT !.owners = @ \cap active, !.dirty = @ \cap active]

\* _refresh_owners(): the owners become the active index.
Refreshed(q, active) == [q EXCEPT !.owners = active, !.dirty = @ \cap active]

\* run(), up to the service: the head of the queue starts its turn.
Get(w) ==
  /\ turn[w].id = Free /\ work.queue # <<>>
  /\ LET i == Head(work.queue)
     IN /\ work' = [work EXCEPT !.queue = Tail(@), !.pending = @ \ {i}, !.running = @ \cup {i}]
        /\ turn' = [turn EXCEPT ![w] = [id |-> i, serving |-> FALSE]]
  /\ UNCHANGED <<life, lock>>

\* _service_owned() waits for the lock.
Enter(w) ==
  /\ turn[w].id # Free /\ ~turn[w].serving /\ lock = Free
  /\ lock' = w
  /\ turn' = [turn EXCEPT ![w].serving = TRUE]
  /\ UNCHANGED <<life, work>>

\* The service returns or raises, and run() ends the turn: an episode that became
\* dirty meanwhile is offered again.
Finish(w) ==
  LET i == turn[w].id
  IN /\ turn[w].serving
     /\ \E over, refresh \in BOOLEAN :
          /\ over \/ refresh => i \in Active
          /\ life' = IF over THEN [life EXCEPT ![i] = "closed"] ELSE life
          /\ LET kept == IF refresh THEN Refreshed(work, Active \ (IF over THEN {i} ELSE {})) ELSE work
                 ended == [kept EXCEPT !.running = @ \ {i}, !.dirty = @ \ {i}]
             IN work' = IF i \in kept.dirty THEN Offer(ended, i) ELSE ended
     /\ turn' = [turn EXCEPT ![w] = NoTurn]
     /\ lock' = Free

------------------------------------------------------------------------------
(* Those who offer, and the other holder of the lock.                       *)

\* The entry lane claims an episode; it is no owner until the owners are refreshed.
EntryClaim(i) ==
  /\ life[i] = "new" /\ Cardinality(Active) < Capacity
  /\ life' = [life EXCEPT ![i] = "claimed"]
  /\ UNCHANGED <<work, turn, lock>>

\* _entries(), after the admission: refresh, and offer what it admitted.
EntryAdmitted(i) ==
  /\ life[i] = "claimed"
  /\ life' = [life EXCEPT ![i] = "open"]
  /\ work' = Offer(Refreshed(work, Active), i)
  /\ UNCHANGED <<turn, lock>>

\* The entry lane settles an episode that never reached the broker ...
EntrySettled(i) ==
  /\ life[i] = "claimed"
  /\ life' = [life EXCEPT ![i] = "closed"]
  /\ UNCHANGED <<work, turn, lock>>

\* ... and refreshes the owners when the admission ends in a refusal.
Refused ==
  /\ work' = Refreshed(work, Active)
  /\ UNCHANGED <<life, turn, lock>>

\* A quote of its symbol, an explicit action, or the cadence loop's turn.
Wake(i) ==
  /\ i \in work.owners
  /\ work' = Offer(work, i)
  /\ UNCHANGED <<life, turn, lock>>

\* The owner-proof publisher takes the same lock.
ProofLock == lock = Free /\ lock' = "proof" /\ UNCHANGED <<life, work, turn>>
ProofUnlock == lock = "proof" /\ lock' = Free /\ UNCHANGED <<life, work, turn>>

QueueNext ==
  \/ \E w \in Workers : Get(w) \/ Enter(w) \/ Finish(w)
  \/ \E i \in Ids : EntryClaim(i) \/ EntryAdmitted(i) \/ EntrySettled(i) \/ Wake(i)
  \/ Refused \/ ProofLock \/ ProofUnlock

QueueSpec == QueueInit /\ [][QueueNext]_queueVars

\* The loop runs every ready task: the workers, and the cadence loop, which offers
\* every owner ten times a second.  asyncio.Lock is first come first served, hence the strong
\* fairness of entering; every holder gives the lock back.
QueueFairSpec ==
  /\ QueueSpec
  /\ \A w \in Workers : WF_queueVars(Get(w)) /\ SF_queueVars(Enter(w)) /\ WF_queueVars(Finish(w))
  /\ \A i \in Ids : WF_queueVars(Wake(i))
  /\ WF_queueVars(ProofUnlock)

------------------------------------------------------------------------------
(* Properties.                                                              *)

\* An episode is in one place at a time: queued once, or with one worker, and what is
\* dirty is with a worker; no episode is ever serviced twice at the same time.
SingleFlight ==
  /\ ToSet(work.queue) = work.pending
  /\ Cardinality(work.pending) = Len(work.queue)
  /\ work.pending \cap work.running = {}
  /\ work.dirty \subseteq work.running
  /\ work.running = {turn[w].id : w \in Workers} \ {Free}
  /\ \A v, w \in Workers : turn[v].id = turn[w].id /\ turn[v].id # Free => v = w

\* Every open episode is serviced again and again, although closed owners may hold
\* the queue's slots, and a full queue drops wakeups.
Attended ==
  \A i \in Ids : []<>(life[i] # "open" \/ \E w \in Workers : turn[w] = [id |-> i, serving |-> TRUE])
==============================================================================
