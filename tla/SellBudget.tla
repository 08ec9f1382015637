------------------------------ MODULE SellBudget ------------------------------
(****************************************************************************)
(* What the live momentum exits promise about one owned episode, seen from  *)
(* the broker: shares are bought, sell orders are placed, filled and        *)
(* closed, and no sell order is ever placed that the shares still held,     *)
(* less what other sell orders may still sell, do not cover.                *)
(*                                                                          *)
(* momentum_live/lifecycle.py and protection.py state it as the rule that   *)
(* a reservation is released only on an authoritative terminal read, and    *)
(* that a sell never exceeds the owned remainder.  OwnedExit is the         *)
(* detailed specification shown to implement this one.                      *)
(****************************************************************************)
EXTENDS Integers

VARIABLES
  bought,  \* shares the entry has bought
  sold,    \* shares its sell orders have sold
  open     \* shares its sell orders at the broker may still sell

budget == <<bought, sold, open>>

Init == bought = 0 /\ sold = 0 /\ open = 0

Buy == bought' = bought + 1 /\ UNCHANGED <<sold, open>>

Place(n) ==
  /\ sold + open + n <= bought
  /\ open' = open + n
  /\ UNCHANGED <<bought, sold>>

\* A fill sells one share; it may also end the order that it completes.
Fill == open > 0 /\ open' = open - 1 /\ sold' = sold + 1 /\ UNCHANGED bought

Close == open > 0 /\ open' = 0 /\ UNCHANGED <<bought, sold>>

Next == Buy \/ (\E n \in 1..bought : Place(n)) \/ Fill \/ Close

Spec == Init /\ [][Next]_budget

Covered == sold + open <= bought
==============================================================================
