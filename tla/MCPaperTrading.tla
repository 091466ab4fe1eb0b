--------------------------- MODULE MCPaperTrading ---------------------------
(* Small instances of PaperTrading for TLC: plans of a few points, one or two  *)
(* partials, and prices on both sides of every level.                          *)
EXTENDS PaperTrading, TLC

Third(price)  == [third |-> TRUE, qty |-> 0, symbol |-> "MNQ", price |-> price]
Fixed(n)      == [third |-> FALSE, qty |-> n, symbol |-> "ES", price |-> 0]

Long ==
  [sign |-> 1, setup |-> "h1", entry |-> 10, invalidation |-> 8, stop |-> 7, target |-> 16,
   retrace |-> FALSE, nq |-> FALSE, qty |-> 3, budget |-> 42, expires |-> 4,
   partials |-> <<Third(13)>>]
Short ==
  [sign |-> -1, setup |-> "h1", entry |-> 10, invalidation |-> 12, stop |-> 13, target |-> 4,
   retrace |-> TRUE, nq |-> TRUE, qty |-> 3, budget |-> 42, expires |-> 4,
   partials |-> <<Fixed(1), Third(7)>>]

\* Two plans for one selected structure: only one of them may be attempted.
LongOrShort == [p \in Plans |-> IF p = "long" THEN Long ELSE Short]

\* Plans of one contract, of no known structure.
NoSetups == [p \in Plans |-> [Long EXCEPT !.setup = "", !.partials = <<>>, !.expires = 9, !.qty = 1]]

Quiet == [guards |-> FALSE, newsStop |-> FALSE, es |-> FALSE, nq |-> "clear"]
QuietOnly == {Quiet}
Alarms    == {Quiet, [Quiet EXCEPT !.guards = TRUE],
              [Quiet EXCEPT !.newsStop = TRUE, !.nq = "invalidated"],
              [Quiet EXCEPT !.es = TRUE, !.nq = "stale"]}

Alike == Permutations(Plans)
=============================================================================
