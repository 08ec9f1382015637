-------------------------------- MODULE OrbExit --------------------------------
(****************************************************************************)
(* Who sells one filled opening-range (ORB) entry on Webull                 *)
(* (oms/orb_schwab_eod.py, orb_country.py, bot_control_orb.py).  Three      *)
(* closers want to: the signal exit, the end-of-day close and the STOP      *)
(* driver.  They share one durable claim in the entry's payload (_STATE)    *)
(* and one in-process claim (_orb_exit_claims).  Beside them a background   *)
(* reconciler attaches a native target and stop pair, and re-attaches it    *)
(* when the owned quantity changes; a closer must cancel the pair and prove *)
(* it ended before it sends its one sell.                                   *)
(*                                                                          *)
(* Every closer and the reconciler is a coroutine whose place is in pc; its *)
(* steps are its awaits: a transaction, a wire, a broker read with the      *)
(* transaction that records it.  Between two of them the broker fills or    *)
(* ends orders, the other coroutines run and the process may die.           *)
(*                                                                          *)
(* The two legs of a pair are one order that sells at most its quantity     *)
(* (one cancels the other is the broker's promise).  The account also holds *)
(* shares that are not the entry's, so the broker refuses no sell of ours   *)
(* for lack of shares.                                                      *)
(****************************************************************************)
EXTENDS Integers, FiniteSets, Totals

CONSTANTS
  Qty,        \* shares the entry bought
  MaxPairs,   \* bound: pairs the reconciler may attach
  MaxCrash,   \* bound: restarts
  Scenes      \* the situations explored

\* A situation: the closers that run, how many pairs the reconciler may attach, whether
\* the first of them is at the broker already, and whether wires and reads may be lost.
Sellers == {"signal", "eod", "stop"}
Scene   == [closers : SUBSET Sellers, pairs : 1..MaxPairs, attached : BOOLEAN, faulty : BOOLEAN]

ASSUME OrbExitConstants ==
  /\ Qty \in Nat \ {0} /\ MaxPairs \in Nat \ {0} /\ MaxCrash \in Nat
  /\ Scenes # {} /\ Scenes \subseteq Scene

VARIABLES
  scene,    \* the situation, which does not change
  pair,     \* the broker: the pairs
  sale,     \* the broker: the software sell
  booked,   \* durable: fills booked for each pair, and for the sell under 0
  prot,     \* durable: payload["orbroute1_protection"]
  claim,    \* durable: payload["orb_schwab_eod_close"]
  row,      \* durable: the exit's order row
  journal,  \* durable: STOP's attempts on the pair and on the exit
  settled,  \* durable: the STOP command is SETTLED
  pc,       \* the process: where each coroutine is
  holder,   \* the process: who is in _orb_exit_claims
  size,     \* the process: what each closer decided to sell
  plan,     \* the process: what the reconciler read
  clear,    \* the process: STOP's pass has met nothing unresolved
  boot,     \* the process: the entry was held when the process started
  crashes   \* restarts so far

wires   == <<pair, sale>>
durable == <<booked, prot, claim, row, journal, settled>>
vars    == <<scene, wires, durable, pc, holder, size, plan, clear, boot, crashes>>

Recon  == "reconciler"
Actors == Sellers \cup {Recon}
Normal == Sellers \ {"stop"}
Pairs  == 1..MaxPairs
Faulty == scene.faulty

LivePhases == {"submitting", "accepted", "working"}
Resolved   == {"resolved_by_child_fill", "resolved_by_stop_fill", "resolved_by_prior_exit_fill"}
Sum(f)     == Total(f, DOMAIN f)

\* _snapshot, _remaining: bought less the booked sales; the virtual position agrees.
Owned == Qty - Sum(booked)

TypeOK ==
  /\ scene \in Scenes
  /\ pair \in [Pairs -> [st : {"none", "working", "gone"}, qty : 0..Qty, sold : 0..Qty, asked : BOOLEAN]]
  /\ sale \in [st : {"none", "working", "gone", "refused"}, qty : 0..Qty, sold : 0..Qty]
  /\ booked \in [{0} \cup Pairs -> 0..Qty]
  /\ Owned \in 0..Qty
  /\ prot \in [phase : LivePhases \cup {"none", "released"}, base : 0..MaxPairs, qty : 0..Qty,
               latched : BOOLEAN, proof : {"none", "receipts", "unsent"}, child : BOOLEAN]
  /\ claim \in [phase : Resolved \cup {"none", "checking", "submitting", "submitted", "needs_attention",
                                       "exit_working", "terminal_exit_remaining"},
                owner : {"none"} \cup Sellers, bound : 0..MaxPairs]
  /\ row \in [st : {"none", "pending", "open", "over"}, qty : 0..Qty]
  /\ journal \in [native : {"none", "prepared", "sent", "unknown", "terminal"},
                  exit : {"none", "prepared", "sent", "working", "terminal"}]
  /\ settled \in BOOLEAN
  /\ pc \in [Actors -> {"idle", "claimed", "claiming", "entered", "binding", "dispatching", "release",
                        "cancel", "probe", "proved", "released", "sized", "journal", "submit", "validate",
                        "wire", "posted", "known", "targets", "target", "plan", "prewire", "post",
                        "accepted", "seen"}]
  /\ holder \in {"none"} \cup Sellers
  /\ size \in [Sellers -> 0..Qty]
  /\ plan \in [q : 0..Qty, base : 0..MaxPairs, phase : LivePhases \cup {"none", "released"}]
  /\ clear \in BOOLEAN /\ boot \in BOOLEAN
  /\ crashes \in 0..MaxCrash

Init ==
  /\ scene \in Scenes
  /\ pair = [b \in Pairs |-> IF scene.attached /\ b = 1
                             THEN [st |-> "working", qty |-> Qty, sold |-> 0, asked |-> FALSE]
                             ELSE [st |-> "none", qty |-> 0, sold |-> 0, asked |-> FALSE]]
  /\ sale = [st |-> "none", qty |-> 0, sold |-> 0]
  /\ booked = [i \in {0} \cup Pairs |-> 0]
  /\ prot = [phase |-> IF scene.attached THEN "working" ELSE "none", base |-> IF scene.attached THEN 1 ELSE 0,
             qty |-> IF scene.attached THEN Qty ELSE 0, latched |-> FALSE, proof |-> "none", child |-> FALSE]
  /\ claim = [phase |-> "none", owner |-> "none", bound |-> 0]
  /\ row = [st |-> "none", qty |-> 0]
  /\ journal = [native |-> "none", exit |-> "none"]
  /\ settled = FALSE
  /\ pc = [a \in Actors |-> "idle"]
  /\ holder = "none"
  /\ size = [s \in Sellers |-> 0]
  /\ plan = [q |-> 0, base |-> 0, phase |-> "none"]
  /\ clear = TRUE /\ boot = FALSE
  /\ crashes = 0

Goto(a, p) == pc' = [pc EXCEPT ![a] = p]

------------------------------------------------------------------------------
(* The broker, its fills and its cancels.                                   *)

Filled(o) == [o EXCEPT !.sold = @ + 1, !.st = IF o.sold + 1 = o.qty THEN "gone" ELSE "working"]

PairFills(b) ==
  /\ pair[b].st = "working"
  /\ pair' = [pair EXCEPT ![b] = Filled(@)]
  /\ UNCHANGED <<sale, durable, pc, holder, size, plan, clear, boot, crashes>>

\* A cancel that was late takes effect; under faults a pair may also end by itself.
PairEnds(b) ==
  /\ pair[b].st = "working" /\ (pair[b].asked \/ Faulty)
  /\ pair' = [pair EXCEPT ![b].st = "gone"]
  /\ UNCHANGED <<sale, durable, pc, holder, size, plan, clear, boot, crashes>>

SaleFills ==
  /\ sale.st = "working"
  /\ sale' = Filled(sale)
  /\ UNCHANGED <<pair, durable, pc, holder, size, plan, clear, boot, crashes>>

SaleEnds ==
  /\ Faulty /\ sale.st = "working"
  /\ sale' = [sale EXCEPT !.st = "gone"]
  /\ UNCHANGED <<pair, durable, pc, holder, size, plan, clear, boot, crashes>>

------------------------------------------------------------------------------
(* Reading and releasing the pair.                                          *)

\* record_protection_reports: the pair's cumulative fills are booked, unless they exceed
\* what is owned; a partly filled child that still works leaves an open child row behind.
Bookable(b) == b # 0 /\ pair[b].sold - booked[b] <= Owned
BookPair(b) == IF Bookable(b) THEN [booked EXCEPT ![b] = pair[b].sold] ELSE booked

ChildOpen(b) == b # 0 /\ pair[b].st = "working" /\ pair[b].sold > 0

\* _phase: only the base is checked, so a late writer may put an older phase back.
Phased(p, b, phase) == IF p.base = b THEN [p EXCEPT !.phase = phase] ELSE p

\* The attempt raised: its caller writes needs_attention, and nobody attempts again.
Attention(s) ==
  /\ claim' = [claim EXCEPT !.phase = "needs_attention"]
  /\ holder' = "none"
  /\ Goto(s, "idle")

Finish(s, phase) ==
  /\ claim' = [claim EXCEPT !.phase = phase]
  /\ holder' = "none"
  /\ Goto(s, "idle")

\* release_protection's outcome for the caller: the reconciler returns, a closer that
\* was not answered raises, STOP journals the outcome first (after_release).
Released(a) ==
  /\ Goto(a, CASE a = Recon -> "idle" [] a = "stop" -> "proved" [] OTHER -> "released")
  /\ UNCHANGED <<claim, journal, holder>>

Unanswerable(a) ==
  \/ /\ a = Recon
     /\ Goto(a, "idle")
     /\ UNCHANGED <<claim, journal, holder>>
  \/ /\ a # Recon
     /\ Attention(a)
     /\ journal' = [journal EXCEPT !.native = IF a = "stop" THEN "unknown" ELSE @]

\* Mutation: a cancel that is already latched is taken for the end of the pair.
ReleaseLatched(a) ==
  /\ pc[a] = "release"
  /\ \/ /\ prot.phase \in {"none", "released"} \/ prot.latched
        /\ Released(a)
        /\ UNCHANGED prot
     \/ /\ prot.phase \in LivePhases /\ ~prot.latched
        /\ prot' = [prot EXCEPT !.latched = TRUE]
        /\ Goto(a, "cancel")
        /\ UNCHANGED <<claim, journal, holder>>
  /\ UNCHANGED <<wires, booked, row, settled, size, plan, clear, boot, crashes>>

\* release_protection, up to its claim_cancel: nothing attached, or a proved release,
\* is enough; otherwise the cancel is latched durably once, before its wire.
Release(a) ==
  /\ pc[a] = "release"
  /\ \/ /\ prot.phase \in {"none", "released"}
        /\ Released(a)
        /\ UNCHANGED prot
     \/ /\ prot.phase \in LivePhases
        /\ prot' = [prot EXCEPT !.latched = TRUE]
        /\ Goto(a, IF prot.latched THEN "probe" ELSE "cancel")
        /\ UNCHANGED <<claim, journal, holder>>
  /\ UNCHANGED <<wires, booked, row, settled, size, plan, clear, boot, crashes>>

\* cancel_exit_pair: it may be late or lost, and finds nothing before the pair's POST.
Cancel(a) ==
  /\ pc[a] = "cancel"
  /\ LET b == prot.base
     IN \/ pair' = [pair EXCEPT ![b] = IF @.st = "working" THEN [@ EXCEPT !.st = "gone"] ELSE @]
        \/ Faulty /\ pair' = [pair EXCEPT ![b].asked = (pair[b].st = "working")]
        \/ Faulty /\ UNCHANGED pair
  /\ Goto(a, "probe")
  /\ UNCHANGED <<sale, durable, holder, size, plan, clear, boot, crashes>>

\* The fresh _probe of release_protection: only a terminal read of both legs releases.
Probe(a) ==
  /\ pc[a] = "probe"
  /\ LET b == prot.base
     IN /\ booked' = BookPair(b)
        /\ IF pair[b].st = "gone" /\ Bookable(b)
           THEN /\ prot' = [prot EXCEPT !.phase = "released", !.proof = "receipts", !.child = FALSE]
                /\ Released(a)
           ELSE /\ prot' = [prot EXCEPT !.child = ChildOpen(b)]
                /\ Unanswerable(a)
  /\ UNCHANGED <<wires, row, settled, size, plan, clear, boot, crashes>>

------------------------------------------------------------------------------
(* The reconciler: reconcile_one.                                           *)

\* A live pair is probed, and released when the owned quantity is no longer its own;
\* under a claimed close it is only probed.  With no live pair one is planned.
ReconRead ==
  /\ pc[Recon] = "idle"
  /\ \/ /\ prot.phase \in LivePhases
        /\ booked' = BookPair(prot.base)
        /\ prot' = [prot EXCEPT !.child = ChildOpen(prot.base)]
        /\ LET owned == Qty - Sum(booked')
           IN \/ claim.phase # "none" /\ UNCHANGED pc
              \/ claim.phase = "none" /\ owned # prot.qty /\ Goto(Recon, "release")
              \/ /\ claim.phase = "none" /\ owned = prot.qty /\ pair[prot.base].st = "working"
                 /\ Goto(Recon, "seen")
        /\ plan' = [q |-> 0, base |-> prot.base, phase |-> prot.phase]
     \/ /\ prot.phase \in {"none", "released"} /\ claim.phase = "none"
        /\ Owned > 0 /\ prot.base < scene.pairs
        /\ plan' = [q |-> Owned, base |-> prot.base, phase |-> prot.phase]
        /\ Goto(Recon, "plan")
        /\ UNCHANGED <<booked, prot>>
  /\ UNCHANGED <<wires, claim, row, journal, settled, holder, size, clear, boot, crashes>>

ReconSeen ==
  /\ pc[Recon] = "seen"
  /\ prot' = Phased(prot, plan.base, "working")
  /\ Goto(Recon, "idle")
  /\ UNCHANGED <<wires, booked, claim, row, journal, settled, holder, size, plan, clear, boot, crashes>>

\* prepare: the same quantity and the same protection state as were read, but not the
\* close claim, are required.
ReconPrepare ==
  /\ pc[Recon] = "plan"
  /\ IF Owned = plan.q /\ prot.base = plan.base /\ prot.phase = plan.phase
     THEN /\ prot' = [phase |-> "submitting", base |-> plan.base + 1, qty |-> plan.q,
                      latched |-> FALSE, proof |-> "none", child |-> FALSE]
          /\ Goto(Recon, "prewire")
     ELSE Goto(Recon, "idle") /\ UNCHANGED prot
  /\ UNCHANGED <<wires, booked, claim, row, journal, settled, holder, size, plan, clear, boot, crashes>>

\* The window closed before the POST: released, and known unsent.
ReconUnsent ==
  /\ pc[Recon] \in {"prewire", "post"}
  /\ prot.base = plan.base + 1
  /\ prot' = [prot EXCEPT !.phase = "released", !.proof = "unsent"]
  /\ Goto(Recon, "idle")
  /\ UNCHANGED <<wires, booked, claim, row, journal, settled, holder, size, plan, clear, boot, crashes>>

ReconPrewire ==
  /\ pc[Recon] = "prewire"
  /\ Goto(Recon, IF Owned = plan.q /\ prot.base = plan.base + 1 /\ prot.phase = "submitting"
                 THEN "post" ELSE "idle")
  /\ UNCHANGED <<wires, durable, holder, size, plan, clear, boot, crashes>>

\* submit_order of the pair: placed, or lost on the way.
ReconPost ==
  /\ pc[Recon] = "post"
  /\ \/ /\ pair' = [pair EXCEPT ![plan.base + 1] =
                      [st |-> "working", qty |-> plan.q, sold |-> 0, asked |-> FALSE]]
        /\ \/ Goto(Recon, "accepted")
           \/ Faulty /\ Goto(Recon, "idle")
     \/ Faulty /\ Goto(Recon, "idle") /\ UNCHANGED pair
  /\ UNCHANGED <<sale, durable, holder, size, plan, clear, boot, crashes>>

ReconAccepted ==
  /\ pc[Recon] = "accepted"
  /\ prot' = Phased(prot, plan.base + 1, "accepted")
  /\ Goto(Recon, "idle")
  /\ UNCHANGED <<wires, booked, claim, row, journal, settled, holder, size, plan, clear, boot, crashes>>

------------------------------------------------------------------------------
(* The claim, and the attempt that every closer shares.                     *)

\* validate_and_claim, claim: one close per entry, for the life of the entry.
Claim(s) ==
  /\ s \in scene.closers /\ pc[s] = "idle" /\ Owned > 0
  /\ claim.phase = "none"
  /\ claim' = [phase |-> "checking", owner |-> s, bound |-> 0]
  /\ Goto(s, "claimed")
  /\ UNCHANGED <<wires, booked, prot, row, journal, settled, holder, size, plan, clear, boot, crashes>>

\* _attempt: who finds the in-process claim taken declines, and does not queue.
Enter(s) ==
  /\ pc[s] = "claimed"
  /\ IF holder = "none" THEN holder' = s /\ Goto(s, "entered")
     ELSE Goto(s, "idle") /\ UNCHANGED holder
  /\ UNCHANGED <<wires, durable, size, plan, clear, boot, crashes>>

\* _attempt for STOP takes the in-process claim first and the durable one second.
StopEnter ==
  /\ pc["stop"] = "target"
  /\ IF holder = "none" THEN holder' = "stop" /\ Goto("stop", "claiming")
     ELSE Goto("stop", "idle") /\ UNCHANGED holder
  /\ UNCHANGED <<wires, durable, size, plan, clear, boot, crashes>>

\* OrbStopContext.claim: any earlier claim is read, never replayed.
StopClaim ==
  /\ pc["stop"] = "claiming"
  /\ IF claim.phase = "none"
     THEN /\ claim' = [phase |-> "checking", owner |-> "stop", bound |-> prot.base]
          /\ Goto("stop", "entered")
          /\ UNCHANGED holder
     ELSE holder' = "none" /\ Goto("stop", "idle") /\ UNCHANGED claim
  /\ UNCHANGED <<wires, booked, prot, row, journal, settled, size, plan, clear, boot, crashes>>

\* _attempt_owned, up to the release: a normal closer meets an open child row of a
\* partly filled pair as another working order; the children are polled (a normal
\* closer polls through the reconciler, which does nothing while it is running); a
\* position they sold resolves a normal close.
Verify(s) ==
  /\ pc[s] = "entered"
  /\ LET polls == prot.phase \in LivePhases /\ (s = "stop" \/ pc[Recon] = "idle")
         b     == IF polls THEN prot.base ELSE 0
     IN \/ /\ s # "stop" /\ prot.child
           /\ Attention(s)
           /\ UNCHANGED <<booked, prot>>
        \/ /\ s = "stop" \/ ~prot.child
           /\ booked' = BookPair(b)
           /\ prot' = [prot EXCEPT !.child = IF polls THEN ChildOpen(b) ELSE @]
           /\ IF s # "stop" /\ Sum(booked') = Qty
              THEN Finish(s, "resolved_by_child_fill")
              ELSE /\ Goto(s, IF s = "stop" THEN "binding" ELSE "release")
                   /\ UNCHANGED <<claim, holder>>
  /\ UNCHANGED <<wires, row, journal, settled, size, plan, clear, boot, crashes>>

\* before_release: STOP binds the tree and dispatches the attempt before the cancel.
StopBind ==
  /\ pc["stop"] = "binding"
  /\ journal.native = "none"
  /\ journal' = [journal EXCEPT !.native = "prepared"]
  /\ Goto("stop", "dispatching")
  /\ UNCHANGED <<wires, booked, prot, claim, row, settled, holder, size, plan, clear, boot, crashes>>

StopDispatch ==
  /\ pc["stop"] = "dispatching"
  /\ journal' = [journal EXCEPT !.native = "sent"]
  /\ Goto("stop", "release")
  /\ UNCHANGED <<wires, booked, prot, claim, row, settled, holder, size, plan, clear, boot, crashes>>

\* after_release: the pair's end is journalled.
StopReleased ==
  /\ pc["stop"] = "proved"
  /\ journal' = [journal EXCEPT !.native = "terminal"]
  /\ Goto("stop", "released")
  /\ UNCHANGED <<wires, booked, prot, claim, row, settled, holder, size, plan, clear, boot, crashes>>

\* child_closed again, then the quantity from a positions read after the release: the
\* owned remainder, which the shared account always backs.
Size(s) ==
  /\ pc[s] = "released"
  /\ IF Owned = 0
     THEN Finish(s, "resolved_by_child_fill") /\ UNCHANGED size
     ELSE /\ size' = [size EXCEPT ![s] = Owned]
          /\ Goto(s, "sized")
          /\ UNCHANGED <<claim, holder>>
  /\ UNCHANGED <<wires, booked, prot, row, journal, settled, plan, clear, boot, crashes>>

\* What STOP checks again before each further step: the tree it claimed is unchanged
\* and the quantity is still owned (validate_prepared).
StillBound == claim.owner = "stop" /\ claim.bound = prot.base /\ size["stop"] <= Owned

\* Mutation: the exit's row is left to the answer.
PrepareUnsaved(s) ==
  /\ pc[s] = "sized"
  /\ claim' = [claim EXCEPT !.phase = "submitting"]
  /\ Goto(s, IF s = "stop" THEN "journal" ELSE "wire")
  /\ UNCHANGED <<wires, booked, prot, row, journal, settled, holder, size, plan, clear, boot, crashes>>

\* prepare: the exit's row and the submitting phase are committed before the POST.
Prepare(s) ==
  /\ pc[s] = "sized"
  /\ IF IF s = "stop" THEN StillBound ELSE Owned = size[s]
     THEN /\ row' = [st |-> "pending", qty |-> size[s]]
          /\ claim' = [claim EXCEPT !.phase = "submitting"]
          /\ Goto(s, IF s = "stop" THEN "journal" ELSE "wire")
          /\ UNCHANGED holder
     ELSE Attention(s) /\ UNCHANGED row
  /\ UNCHANGED <<wires, booked, prot, journal, settled, size, plan, clear, boot, crashes>>

\* before_submit, validate_wire: STOP journals the exit, dispatches it and proves the
\* quantity once more.
StopJournal ==
  /\ pc["stop"] = "journal"
  /\ IF StillBound
     THEN /\ journal' = [journal EXCEPT !.exit = "prepared"]
          /\ Goto("stop", "submit")
          /\ UNCHANGED <<claim, holder>>
     ELSE Attention("stop") /\ UNCHANGED journal
  /\ UNCHANGED <<wires, booked, prot, row, settled, size, plan, clear, boot, crashes>>

StopSubmit ==
  /\ pc["stop"] = "submit"
  /\ journal' = [journal EXCEPT !.exit = "sent"]
  /\ Goto("stop", "validate")
  /\ UNCHANGED <<wires, booked, prot, claim, row, settled, holder, size, plan, clear, boot, crashes>>

StopValidate ==
  /\ pc["stop"] = "validate"
  /\ IF StillBound /\ Owned = size["stop"]
     THEN Goto("stop", "wire") /\ UNCHANGED <<claim, holder>>
     ELSE Attention("stop")
  /\ UNCHANGED <<wires, booked, prot, row, journal, settled, size, plan, clear, boot, crashes>>

\* submit_order of the one sell.
Post(s) ==
  /\ pc[s] = "wire"
  /\ \/ sale' = [st |-> "working", qty |-> sale.qty + size[s], sold |-> sale.sold]
     \/ Faulty /\ sale' = [sale EXCEPT !.st = "refused"]
  /\ Goto(s, "posted")
  /\ UNCHANGED <<pair, durable, holder, size, plan, clear, boot, crashes>>

\* The sell as a report shows it: booked, its row open or over, STOP's attempt followed.
SaleOver == sale.st \in {"gone", "refused"}

\* Mutation: a terminal sell is booked at the quantity it asked for.
BookSaleWhole ==
  /\ booked' = [booked EXCEPT ![0] = IF SaleOver THEN row.qty ELSE sale.sold]
  /\ row' = [row EXCEPT !.st = IF SaleOver THEN "over" ELSE "open"]

BookSale ==
  /\ booked' = [booked EXCEPT ![0] = sale.sold]
  /\ row' = [row EXCEPT !.st = IF SaleOver THEN "over" ELSE "open"]

Answer(s) ==
  /\ pc[s] = "posted"
  /\ BookSale
  /\ journal' = [journal EXCEPT !.exit = IF s # "stop" THEN @ ELSE IF SaleOver THEN "terminal" ELSE "working"]
  /\ IF sale.st = "refused" THEN Attention(s) ELSE Finish(s, "submitted")
  /\ UNCHANGED <<wires, prot, settled, size, plan, clear, boot, crashes>>

\* Any await of an attempt may raise; a lost wire or reply is one of them.
Fail(s) ==
  /\ Faulty
  /\ pc[s] \in {"claiming", "entered", "binding", "dispatching", "release", "cancel", "probe", "proved",
                "released", "sized", "journal", "submit", "validate", "wire", "posted"}
  /\ Attention(s)
  /\ UNCHANGED <<wires, booked, prot, row, journal, settled, size, plan, clear, boot, crashes>>

\* sync_broker_orders reads every open order row by its client order id.
SyncOrders ==
  /\ row.st \in {"pending", "open"} /\ sale.st # "none"
  /\ BookSale
  /\ UNCHANGED <<wires, prot, claim, journal, settled, pc, holder, size, plan, clear, boot, crashes>>

------------------------------------------------------------------------------
(* The STOP driver around its attempt: drive_orb_stop.                      *)

\* _recover_flat_native: nothing is owned any more and the tree's attempt went out; its
\* end is read, never cancelled again, and the claim resolved by the child's fill.
FlatProven == journal.native = "terminal" \/ (prot.latched /\ prot.base # 0 /\ pair[prot.base].st = "gone")

StopFlat ==
  /\ "stop" \in scene.closers /\ pc["stop"] = "idle" /\ ~settled
  /\ \/ /\ ~(journal.native \in {"sent", "unknown", "terminal"} /\ Owned = 0)
        /\ clear' = TRUE
        /\ UNCHANGED <<prot, claim, journal>>
     \/ /\ journal.native \in {"sent", "unknown", "terminal"} /\ Owned = 0
        /\ clear' = (holder = "none" /\ claim.bound = prot.base /\ FlatProven)
        /\ IF clear'
           THEN /\ prot' = IF journal.native = "terminal" THEN prot
                           ELSE [prot EXCEPT !.phase = "released", !.proof = "receipts", !.child = FALSE]
                /\ journal' = [journal EXCEPT !.native = "terminal"]
                /\ claim' = [claim EXCEPT !.phase = IF row.st = "none" THEN "resolved_by_child_fill" ELSE @]
           ELSE UNCHANGED <<prot, claim, journal>>
  /\ Goto("stop", "known")
  /\ UNCHANGED <<wires, booked, row, settled, holder, size, plan, boot, crashes>>

\* recover_exit's finish.
Recovered(owned) ==
  CASE ~SaleOver -> "exit_working"
    [] SaleOver /\ owned > 0 -> "terminal_exit_remaining"
    [] OTHER -> IF claim.owner = "stop" THEN "resolved_by_stop_fill" ELSE "resolved_by_prior_exit_fill"

\* Mutation: an exit that is out is waited for, not read.
StopKnownPassive ==
  /\ pc["stop"] = "known"
  /\ clear' = (clear /\ claim.phase \in Resolved \cup {"none"})
  /\ Goto("stop", "targets")
  /\ UNCHANGED <<wires, durable, holder, size, plan, boot, crashes>>

\* _recover_known_exits: a claim without a row is unresolved unless a child resolved it;
\* a row whose broker id never came back raises; any other exit is read and booked.
StopKnown ==
  /\ pc["stop"] = "known"
  /\ \/ /\ row.st = "none"
        /\ clear' = (clear /\ claim.phase \in Resolved \cup {"none"})
        /\ Goto("stop", "targets")
        /\ UNCHANGED <<booked, row, claim, journal>>
     \/ /\ row.st = "pending"
        /\ clear' = FALSE
        /\ Goto("stop", "idle")
        /\ UNCHANGED <<booked, row, claim, journal>>
     \/ /\ row.st \in {"open", "over"}
        /\ BookSale
        /\ journal' = [journal EXCEPT !.exit = IF claim.owner # "stop" THEN @
                                               ELSE IF SaleOver THEN "terminal" ELSE "working"]
        /\ LET owned == Qty - Sum(booked')
           IN /\ claim' = [claim EXCEPT !.phase = Recovered(owned)]
              /\ clear' = (clear /\ SaleOver /\ owned = 0)
        /\ Goto("stop", "targets")
  /\ UNCHANGED <<wires, prot, settled, holder, size, plan, boot, crashes>>

\* trusted_census: every order and attempt is over, the fills conserve the entry, and
\* the native tree has a receipt.
Census ==
  /\ row.st \in {"none", "over"}
  /\ journal.native \in {"none", "terminal"} /\ journal.exit \in {"none", "terminal"}
  /\ Owned = 0 /\ ~prot.child
  /\ journal.native = "terminal" \/ (prot.phase = "released" /\ prot.proof = "receipts")

\* The pass ends in an attempt on what is held (never on what was held at boot), or,
\* when nothing is held and nothing is unresolved, in the census.
StopTargets ==
  /\ pc["stop"] = "targets"
  /\ Goto("stop", IF Owned > 0 /\ ~boot THEN "target" ELSE "idle")
  /\ settled' = (Owned = 0 /\ clear /\ Census)
  /\ UNCHANGED <<wires, booked, prot, claim, row, journal, holder, size, plan, clear, boot, crashes>>

\* The process dies; the new one blocks STOP on what it finds held (boot_orb_entry_ids).
Crash ==
  /\ crashes < MaxCrash
  /\ crashes' = crashes + 1
  /\ pc' = [a \in Actors |-> "idle"]
  /\ holder' = "none"
  /\ size' = [s \in Sellers |-> 0]
  /\ plan' = [q |-> 0, base |-> 0, phase |-> "none"]
  /\ clear' = TRUE
  /\ boot' = (Owned > 0)
  /\ UNCHANGED <<wires, durable>>

------------------------------------------------------------------------------
Broker == (\E b \in Pairs : PairFills(b) \/ PairEnds(b)) \/ SaleFills \/ SaleEnds

Releasing == \E a \in Actors : Release(a) \/ Cancel(a) \/ Probe(a)

Reconciler ==
  ReconRead \/ ReconSeen \/ ReconPrepare \/ ReconUnsent \/ ReconPrewire \/ ReconPost \/ ReconAccepted

Closer(s) == Enter(s) \/ Verify(s) \/ Size(s) \/ Prepare(s) \/ Post(s) \/ Answer(s)

StopDriver ==
  \/ StopFlat \/ StopKnown \/ StopTargets \/ StopEnter \/ StopClaim \/ StopBind \/ StopDispatch
  \/ StopReleased \/ StopJournal \/ StopSubmit \/ StopValidate

Step ==
  \/ Broker \/ Releasing \/ Reconciler \/ StopDriver \/ SyncOrders \/ Crash
  \/ \E s \in Normal : Claim(s)
  \/ \E s \in Sellers : Closer(s) \/ Fail(s)

Next == Step /\ UNCHANGED scene

Spec == Init /\ [][Next]_vars

\* The coroutines run on, the broker answers and an order that works fills in the end.
FairSpec ==
  /\ Spec
  /\ WF_vars(StopDriver /\ UNCHANGED scene) /\ WF_vars(Releasing /\ UNCHANGED scene)
  /\ WF_vars((\E s \in Sellers : Closer(s)) /\ UNCHANGED scene)
  /\ WF_vars(Reconciler /\ UNCHANGED scene) /\ WF_vars(SyncOrders /\ UNCHANGED scene)
  /\ WF_vars(SaleFills /\ UNCHANGED scene)

------------------------------------------------------------------------------
(* What the closers promise.                                                *)

CanSell(o) == IF o.st = "working" THEN o.qty - o.sold ELSE 0
SoldAll    == Sum([b \in Pairs |-> pair[b].sold]) + sale.sold
OpenAll    == Sum([b \in Pairs |-> CanSell(pair[b])]) + CanSell(sale)

\* Never sell more than owned: what the entry's orders have sold and may still sell is
\* never more than it bought, whichever closers race, whatever the pair fills while it
\* is being cancelled and wherever the process dies (the _STATE claim, release_protection,
\* the reread of the quantity after the release).
SellsOwn == SoldAll + OpenAll <= Qty

\* The process that comes after a crash knows what is on the wire: a live pair is the
\* recorded base, and a sell at the broker has its row (the prewire fences).
SentIsDurable ==
  /\ \A b \in Pairs : pair[b].st = "working" => prot.base = b
  /\ sale.st = "working" => row.st \in {"pending", "open"} /\ row.qty = sale.qty

\* SETTLED unlocks ON: nothing of the entry is held at the broker and no order of it
\* can still sell (trusted_census).
SettledIsFlat == settled => SoldAll = Qty /\ OpenAll = 0

\* STOP ends: with a broker that answers (a calm scene) it gets the entry sold and
\* settles, whatever the pair sells while STOP takes it down, or it asks for attention
\* (it does when it meets the reconciler between the cancel's latch and its wire); it
\* never keeps driving in silence (drive_orb_stop).  Only a process that died may have:
\* the cancel it latched and never sent is sent by nobody after it.
StopEnds == ~Faulty => <>(settled \/ claim.phase = "needs_attention" \/ crashes > 0)

\* Past the release of the pair, by a closer that is about to send its sell or has sent it.
PastRelease == {"proved", "released", "sized", "journal", "submit", "validate", "wire", "posted"}

\* "A claimed close owns release. Never attach a fresh pair between its terminal child
\* receipt and its one already-fenced sell" (reconcile_one): past its release, a closer
\* has no live pair over the shares it is selling.
NoFreshPair == \A s \in Sellers : pc[s] \in PastRelease => \A b \in Pairs : pair[b].st # "working"

\* "Normal and STOP reasons share one non-queued episode owner" (_attempt): in a process
\* that has not crashed, a close that is being checked has a closer driving it.
ClaimIsDriven == claim.phase = "checking" /\ crashes = 0 => \E s \in Sellers : pc[s] \notin
  {"idle", "known", "targets", "target", "claiming"}
==============================================================================
