--------------------------- MODULE ExclusiveEntry ---------------------------
(***************************************************************************)
(* What the native journal promises about one broker account, without      *)
(* threads, messages or polls: the account trades one order at a time, an  *)
(* order trades once, and the next order may begin only when the books of  *)
(* every earlier one are settled.  Books may be reopened (a fee revision)  *)
(* but a trade that is over never comes back.                              *)
(***************************************************************************)
CONSTANT Orders

VARIABLES
  trade,  \* "new", then "live" while the order can hold exposure, then "over"
  books   \* orders whose outcome is settled (NO_FILL, or CLOSED with its costs)

vars == <<trade, books>>

Init == trade = [o \in Orders |-> "new"] /\ books = {}

(* The order is reserved and posted. *)
Begin(o) ==
  /\ trade[o] = "new"
  /\ \A p \in Orders : trade[p] = "new" \/ (trade[p] = "over" /\ p \in books)
  /\ trade' = [trade EXCEPT ![o] = "live"]
  /\ UNCHANGED books

(* Its entry can no longer fill and its position is gone. *)
End(o) ==
  /\ trade[o] = "live"
  /\ trade' = [trade EXCEPT ![o] = "over"]
  /\ UNCHANGED books

Settle(S) ==
  /\ \A o \in S : trade[o] = "over"
  /\ books' = books \cup S
  /\ UNCHANGED trade

Reopen(o) ==
  /\ books' = books \ {o}
  /\ UNCHANGED trade

Next ==
  \/ \E S \in SUBSET Orders : Settle(S)
  \/ \E o \in Orders : Begin(o) \/ End(o) \/ Reopen(o)

Spec == Init /\ [][Next]_vars
=============================================================================
