---------------------------- MODULE PaperTrading ----------------------------
(***************************************************************************)
(* The continuous paper loop of the Tanja service: TradingLoop in mode     *)
(* "paper" (trading_loop.py) driving PaperLifecycle with its default       *)
(* source_selections policy (paper_lifecycle.py).                          *)
(*                                                                         *)
(* The loop thread takes the feed's latest quote, either submits the plan  *)
(* the observer has ready or stores the quote with everything the          *)
(* simulator will see of it, applies it in one transaction of the          *)
(* simulator's own database, and marks it done.  The feed, the observer    *)
(* and the clock move meanwhile, and the process may restart anywhere.     *)
(* Prices are in points, a contract is worth two dollars a point.          *)
(***************************************************************************)
EXTENDS Integers, Sequences, FiniteSets

CONSTANTS
  Plans,        \* plan ids the observer can produce
  Plan,         \* [Plans -> plan]: see PlanSpecs
  Prices,       \* quoted prices
  GuardBudgets, \* risk budgets the account guard may report
  Delays,       \* seconds from the observation of a quote to its arrival
  Acks,         \* acknowledgements: the loop always passes "fill"
  Signals,      \* what else may be read with a quote: see SignalSpecs
  Slippage,     \* slippage_points
  Fee,          \* fee_per_side
  NewsOffset,   \* points behind the entry of the pre-news stop
  DayLength,    \* seconds of a New York day
  MaxNow,       \* bound: the clock
  MaxQuotes,    \* bound: quote events
  Steady,       \* bound: TRUE for one quote a second
  MaxCrashes    \* bound: restarts

PlanSpecs ==
  [sign : {1, -1}, setup : STRING, entry : Nat, invalidation : Nat, stop : Nat, target : Nat,
   retrace : BOOLEAN, nq : BOOLEAN, qty : Nat \ {0}, budget : Nat, expires : Nat,
   partials : Seq([third : BOOLEAN, qty : Nat, symbol : {"MNQ", "ES"}, price : Nat])]

(* guards: some entry guard, the ATR guard or a news blackout stops entries;    *)
(* newsStop: the minute before a known release; es: the ES objectives are       *)
(* reached; nq: the NQ thesis of an entry.                                      *)
SignalSpecs == [guards : BOOLEAN, newsStop : BOOLEAN, es : BOOLEAN,
                nq : {"clear", "invalidated", "stale"}]

ASSUME PaperTradingAssumption ==
  /\ Plan \in [Plans -> PlanSpecs] /\ IsFiniteSet(Plans)
  /\ Prices \subseteq {m \in Nat : m > Slippage} /\ GuardBudgets \subseteq Nat
  /\ Delays \subseteq 0..2
  /\ Acks \subseteq {"fill", "hold", "reject"} /\ Signals \subseteq SignalSpecs
  /\ Slippage \in Nat /\ Fee \in Nat /\ NewsOffset \in Nat
  /\ DayLength \in Nat \ {0} /\ Steady \in BOOLEAN
  /\ MaxNow \in Nat /\ MaxQuotes \in Nat /\ MaxCrashes \in Nat

VARIABLES
  runs,     \* simulation_state: a run for each submitted plan
  cursor,   \* simulation_state: the time of the last event
  applied,  \* simulation_events: what the last quote event was applied with
  stored,   \* loop_quote_events: the row of the last quote stored
  done,     \* loop_quote_events: the last event marked done
  feed,     \* the latest MNQ quote
  ready,    \* the plan of the observer's latest decision
  pc, todo, \* the loop thread: what it does next, and the arguments it holds
  outcome,  \* how the last call of the simulator ended
  now, crashes

simulator == <<runs, cursor, applied>>
loopVars  == <<stored, done, pc, todo, outcome>>
worldVars == <<feed, ready, now, crashes>>
vars == <<simulator, loopVars, worldVars>>

-----------------------------------------------------------------------------
NoPlan == "no plan"
Quotes == 1..MaxQuotes
Times  == 0..MaxNow

(* What the simulator is told with a quote. *)
Args == [id : Quotes, at : Times, received : Times, price : Prices, ack : Acks, signal : Signals]
NoArgs == [id |-> 0]

RunStates == {"none", "ENTRY_PENDING", "OPEN", "CLOSED", "EXPIRED", "CANCELLED", "REJECTED"}
NoRun == [state |-> "none", budget |-> 0, original |-> 0, qty |-> 0, price |-> 0, stop |-> 0,
          gross |-> 0, fees |-> 0, completed |-> {}, pending |-> "none", requested |-> 0,
          pendingStop |-> 0, pendingRule |-> 0, bracket |-> <<0, 0>>, closed |-> 0]

Day(t) == t \div DayLength
Lower(a, b)  == IF a <= b THEN a ELSE b
Positive(a)  == IF a >= 0 THEN a ELSE 0

Active(p) == runs[p].state \in {"ENTRY_PENDING", "OPEN"}
ActivePlans == {p \in Plans : Active(p)}
NetLoss(r) == r.fees - r.gross

LossesOnDay(t) ==
  Cardinality({p \in Plans : runs[p].state = "CLOSED" /\ NetLoss(runs[p]) > 0
                             /\ Day(runs[p].closed) = Day(t)})

(* Mutant: the third loss ends the day. *)
DayOpenLate == LossesOnDay(now) <= 2

DayOpen == LossesOnDay(now) < 2

Rules(p) == DOMAIN Plan[p].partials
PartialQuantity(p, i, original) ==
  LET rule == Plan[p].partials[i] IN IF rule.third THEN original \div 3 ELSE rule.qty
PartialSum(p, I, original) ==
  LET sum[i \in 0..Len(Plan[p].partials)] ==
        IF i = 0 THEN 0
        ELSE sum[i - 1] + IF i \in I THEN PartialQuantity(p, i, original) ELSE 0
  IN sum[Len(Plan[p].partials)]

(* _risk: realized losses, fees paid, and the loss at the stop of what is left. *)
LotRisk(p, price, stop) == Positive(Plan[p].sign * (price - stop) + Slippage) * 2 + Fee
Risk(p, r) == Positive(-r.gross) + r.fees + LotRisk(p, r.price, r.stop) * r.qty

Init ==
  /\ runs = [p \in Plans |-> NoRun] /\ cursor = -1
  /\ applied = NoArgs /\ stored = NoArgs /\ done = 0
  /\ feed = [id |-> 0, at |-> 0, price |-> 0]
  /\ ready = NoPlan
  /\ pc = "idle" /\ todo = NoArgs /\ outcome = "ok"
  /\ now = 0 /\ crashes = 0

-----------------------------------------------------------------------------
(* The feed, the observer, the clock *)

NewQuote(price, delay) ==
  /\ feed.id < MaxQuotes /\ delay <= now
  /\ Steady => feed.id = now
  /\ feed' = [id |-> feed.id + 1, at |-> now - delay, price |-> price]
  /\ UNCHANGED <<simulator, loopVars, ready, now, crashes>>

PlanReady(p) ==
  /\ ready # p
  /\ ready' = p
  /\ UNCHANGED <<simulator, loopVars, feed, now, crashes>>

Tick ==
  /\ now < MaxNow
  /\ Steady => feed.id = now + 1
  /\ now' = now + 1
  /\ UNCHANGED <<simulator, loopVars, feed, ready, crashes>>

-----------------------------------------------------------------------------
(* process_one *)

(* Its first tests: a fresh quote that is not done, in a later second than the *)
(* simulator's last event.                                                     *)
Due ==
  /\ pc = "idle"
  /\ feed.id > 0 /\ now - feed.at <= 2 /\ feed.id # done
  /\ now > cursor

Consumed(p) == runs[p].state # "none"

SetupUsed(p) ==
  Plan[p].setup # "" /\ \E o \in Plans : Consumed(o) /\ Plan[o].setup = Plan[p].setup

(* With no active run and a plan ready, process_one does not come to the quote: *)
(* it submits, or returns blocked.                                              *)
TakesPlan == ActivePlans = {} /\ ready # NoPlan /\ (SetupUsed(ready) \/ ~Consumed(ready))

(* submit: the quantity the budget funds, modelled costs included. *)
PerContract(p) ==
  LET plan == Plan[p] IN (plan.sign * (plan.entry - plan.stop) + 2 * Slippage) * 2 + 2 * Fee
Funded(p, budget) ==
  IF PerContract(p) = 0 THEN Plan[p].qty ELSE Lower(Plan[p].qty, budget \div PerContract(p))

(* review_plan and validate_management. *)
PlanInOrder(p) ==
  LET plan == Plan[p] IN
    /\ plan.sign * (plan.entry - plan.stop) > 0 /\ plan.sign * (plan.target - plan.entry) > 0
    /\ plan.sign * (plan.entry - plan.stop) * plan.qty * 2 <= plan.budget
    /\ \A i \in Rules(p) : plan.partials[i].symbol = "MNQ" =>
         /\ 0 < plan.sign * (plan.partials[i].price - plan.entry)
         /\ plan.sign * (plan.partials[i].price - plan.target) < 0

Submit(p, guard) ==
  LET budget   == Lower(Plan[p].budget, guard)
      quantity == Funded(p, budget) IN
  /\ Due /\ ActivePlans = {}
  /\ ready = p /\ ~Consumed(p) /\ ~SetupUsed(p)
  /\ now < Plan[p].expires /\ PlanInOrder(p)
  /\ DayOpen
  /\ quantity >= 1 /\ PartialSum(p, Rules(p), quantity) < quantity
  /\ runs' = [runs EXCEPT ![p] =
       [NoRun EXCEPT !.state = "ENTRY_PENDING", !.budget = budget, !.original = quantity,
                     !.stop = Plan[p].stop, !.pending = "ENTRY", !.requested = now]]
  /\ cursor' = now
  /\ outcome' = "ok"
  /\ UNCHANGED <<applied, stored, done, pc, todo, worldVars>>

(* What the loop reads now about the latest quote. *)
Observed(ack, signal) ==
  [id |-> feed.id, at |-> feed.at, received |-> now, price |-> feed.price,
   ack |-> ack, signal |-> signal]

(* Mutant: the arguments are read afresh, not from loop_quote_events. *)
StoreAfresh(args) ==
  /\ Due /\ ~TakesPlan
  /\ stored' = IF stored.id = args.id THEN stored ELSE args
  /\ todo' = args
  /\ pc' = "apply"
  /\ UNCHANGED <<simulator, done, outcome, worldVars>>

(* INSERT OR IGNORE, then the stored arguments are read back.  Quotes only move *)
(* on, so the rows of earlier ones are never read again.                        *)
Store(args) ==
  /\ Due /\ ~TakesPlan
  /\ stored' = IF stored.id = args.id THEN stored ELSE args
  /\ todo' = stored'
  /\ pc' = "apply"
  /\ UNCHANGED <<simulator, done, outcome, worldVars>>

MarkDone ==
  /\ pc = "mark"
  /\ done' = todo.id
  /\ pc' = "idle" /\ todo' = NoArgs
  /\ UNCHANGED <<simulator, stored, outcome, worldVars>>

Crash ==
  /\ crashes < MaxCrashes
  /\ crashes' = crashes + 1
  /\ pc' = "idle" /\ todo' = NoArgs /\ outcome' = "ok"
  /\ UNCHANGED <<simulator, stored, done, feed, ready, now>>

-----------------------------------------------------------------------------
(* PaperLifecycle.quote: _event *)

(* The same event again: its old result if the arguments agree, else an error. *)
ApplyAgain ==
  /\ pc = "apply" /\ applied.id = todo.id
  /\ IF todo = applied
       THEN pc' = "mark" /\ outcome' = "ok" /\ UNCHANGED todo
       ELSE pc' = "idle" /\ outcome' = "conflict" /\ todo' = NoArgs
  /\ UNCHANGED <<simulator, stored, done, worldVars>>

(* An event that does not advance time is refused. *)
ApplyLate ==
  /\ pc = "apply" /\ applied.id # todo.id /\ todo.received <= cursor
  /\ pc' = "idle" /\ outcome' = "late" /\ todo' = NoArgs
  /\ UNCHANGED <<simulator, stored, done, worldVars>>

NewEvent == pc = "apply" /\ applied.id # todo.id /\ todo.received > cursor

(* Mutant: the cursor is left one second ahead. *)
EventAhead ==
  /\ cursor' = todo.received + 1
  /\ applied' = todo
  /\ pc' = "mark" /\ outcome' = "ok"
  /\ UNCHANGED <<stored, done, todo, worldVars>>

Event ==
  /\ cursor' = todo.received
  /\ applied' = todo
  /\ pc' = "mark" /\ outcome' = "ok"
  /\ UNCHANGED <<stored, done, todo, worldVars>>

ApplyIdle == NewEvent /\ Event /\ ActivePlans = {} /\ UNCHANGED runs

(* The event turns the active run into r. *)
Turn(p, r) == Event /\ runs' = [runs EXCEPT ![p] = r]

-----------------------------------------------------------------------------
(* PaperLifecycle.quote: its branches, in the order of the code *)

Ended(r, state) == [r EXCEPT !.state = state, !.pending = "none"]
Cleared(r) == [r EXCEPT !.pending = "none"]

(* Mutant: the close is charged for both sides. *)
ReducedBothSides(p, r, n, fill) ==
  [r EXCEPT !.gross = @ + Plan[p].sign * (fill - r.price) * n * 2,
            !.fees = @ + 2 * n * Fee,
            !.qty = @ - n,
            !.bracket = <<r.qty - n, r.stop>>]

(* _close of n contracts at a fill; the bracket follows what is left. *)
Reduced(p, r, n, fill) ==
  [r EXCEPT !.gross = @ + Plan[p].sign * (fill - r.price) * n * 2,
            !.fees = @ + n * Fee,
            !.qty = @ - n,
            !.bracket = <<r.qty - n, r.stop>>]

Beyond(p, level)  == Plan[p].sign * (todo.price - level) <= 0
Attained(p, level) == Plan[p].sign * (todo.price - level) >= 0

(* Mutant: a request that awaits its acknowledgement is settled first. *)
AtExitWhenIdle(p) ==
  /\ runs[p].state = "OPEN" /\ runs[p].pending = "none"
  /\ Beyond(p, runs[p].stop) \/ Attained(p, Plan[p].target)

AtExit(p) == runs[p].state = "OPEN" /\ (Beyond(p, runs[p].stop) \/ Attained(p, Plan[p].target))

(* Protection first: it cancels whatever request is pending. *)
ProtectionExit(p) ==
  LET r    == runs[p]
      fill == IF Beyond(p, r.stop) THEN todo.price - Plan[p].sign * Slippage ELSE Plan[p].target IN
  /\ AtExit(p)
  /\ Turn(p, [Ended(Reduced(p, r, r.qty, fill), "CLOSED") EXCEPT !.closed = todo.received])

EntryGuarded(p) == runs[p].pending = "ENTRY" /\ todo.signal.guards

GuardCancels(p) ==
  /\ Active(p) /\ ~AtExit(p) /\ EntryGuarded(p)
  /\ Turn(p, Ended(runs[p], "CANCELLED"))

(* Mutant: the quote the request was made on fills it. *)
SameQuoteAnswers(p) ==
  /\ Active(p) /\ ~AtExit(p) /\ ~EntryGuarded(p)
  /\ runs[p].pending # "none"

(* A pending request that this quote may answer: one observed after it. *)
Answers(p) ==
  /\ Active(p) /\ ~AtExit(p) /\ ~EntryGuarded(p)
  /\ runs[p].pending # "none" /\ todo.at > runs[p].requested

WaitForLaterQuote(p) ==
  /\ Active(p) /\ ~AtExit(p) /\ ~EntryGuarded(p)
  /\ runs[p].pending # "none" /\ ~Answers(p)
  /\ Turn(p, runs[p])

Expired(p) == runs[p].pending = "ENTRY" /\ todo.received >= Plan[p].expires
NqBars(p)  == runs[p].pending = "ENTRY" /\ Plan[p].nq /\ ~Expired(p) /\ todo.signal.nq # "clear"

NqGuard(p) ==
  /\ Answers(p) /\ NqBars(p)
  /\ Turn(p, IF todo.signal.nq = "invalidated" THEN Ended(runs[p], "CANCELLED") ELSE runs[p])

(* _settle *)

EntryExpires(p) == Answers(p) /\ Expired(p) /\ Turn(p, Ended(runs[p], "EXPIRED"))

Retracing(p) == runs[p].pending = "ENTRY" /\ ~Expired(p) /\ Plan[p].retrace
Missed(p) == Beyond(p, Plan[p].invalidation) \/ Attained(p, Plan[p].target)
NotYet(p) == todo.ack # "reject" /\ Plan[p].sign * (todo.price - Plan[p].entry) > 0

RetraceMissed(p) ==
  /\ Answers(p) /\ ~NqBars(p) /\ Retracing(p) /\ Missed(p)
  /\ Turn(p, Ended(runs[p], "CANCELLED"))

RetraceWaits(p) ==
  /\ Answers(p) /\ ~NqBars(p) /\ Retracing(p) /\ ~Missed(p) /\ NotYet(p)
  /\ Turn(p, runs[p])

(* The request comes to its acknowledgement. *)
Reaches(p, ack) ==
  /\ Answers(p) /\ ~NqBars(p) /\ ~Expired(p)
  /\ Retracing(p) => ~Missed(p) /\ ~NotYet(p)
  /\ todo.ack = ack

AckHeld(p) == Reaches(p, "hold") /\ Turn(p, runs[p])

AckRejected(p) ==
  /\ Reaches(p, "reject")
  /\ Turn(p, IF runs[p].pending = "ENTRY" THEN Ended(runs[p], "REJECTED") ELSE Cleared(runs[p]))

(* Mutant: the stop moves, its bracket is not confirmed. *)
StopUnconfirmed(p) ==
  LET r == runs[p] stop == runs[p].pendingStop IN
  /\ Reaches(p, "fill") /\ r.pending = "STOP"
  /\ Turn(p, IF ~Beyond(p, stop) /\ Plan[p].sign * (stop - r.stop) > 0
               THEN [Cleared(r) EXCEPT !.stop = stop]
               ELSE Cleared(r))

StopMoves(p) ==
  LET r == runs[p] stop == runs[p].pendingStop IN
  /\ Reaches(p, "fill") /\ r.pending = "STOP"
  /\ Turn(p, IF ~Beyond(p, stop) /\ Plan[p].sign * (stop - r.stop) > 0
               THEN [Cleared(r) EXCEPT !.stop = stop, !.bracket = <<r.qty, stop>>]
               ELSE Cleared(r))

PartialFills(p) ==
  LET r == runs[p]
      n == PartialQuantity(p, r.pendingRule, r.original) IN
  /\ Reaches(p, "fill") /\ r.pending = "SELECTED_PARTIAL"
  /\ Turn(p, [Cleared(Reduced(p, r, n, todo.price - Plan[p].sign * Slippage))
                EXCEPT !.completed = @ \cup {r.pendingRule}])

(* A limit may be improved on, never filled worse. *)
EntryFill(p) ==
  LET plan == Plan[p]
      fill == todo.price + plan.sign * Slippage IN
  IF plan.retrace /\ plan.sign * (fill - plan.entry) > 0 THEN plan.entry ELSE fill

Entered(p, r, fill) ==
  [Cleared(r) EXCEPT !.state = "OPEN", !.price = fill, !.qty = r.original,
                     !.fees = r.original * Fee, !.bracket = <<r.original, r.stop>>]

(* Mutant: the risk of the fill leaves out the costs. *)
AffordableBeforeCosts(p, r, fill) ==
  Positive(Plan[p].sign * (fill - r.stop)) * 2 * r.original <= r.budget

Affordable(p, r, fill) == Risk(p, Entered(p, r, fill)) <= r.budget

EntryFills(p) ==
  LET r == runs[p] fill == EntryFill(p) IN
  /\ Reaches(p, "fill") /\ r.pending = "ENTRY"
  /\ IF ~Beyond(p, r.stop) /\ Plan[p].sign * (Plan[p].target - fill) > 0 /\ Affordable(p, r, fill)
       THEN Turn(p, Entered(p, r, fill))
       ELSE Turn(p, Ended(r, "REJECTED"))

(* Nothing pending: the pre-news stop is proposed first, else the first selected *)
(* partial whose objective this quote reaches, if it leaves a runner.            *)
NewsStop(p) == runs[p].price - Plan[p].sign * NewsOffset
StopProposed(p) ==
  /\ todo.signal.newsStop /\ NewsStop(p) > 0
  /\ Plan[p].sign * (NewsStop(p) - runs[p].stop) > 0 /\ ~Beyond(p, NewsStop(p))

Touched(p, i) ==
  LET rule == Plan[p].partials[i] IN
  IF rule.symbol = "ES" THEN todo.signal.es ELSE Attained(p, rule.price)
Proposable(p) == {i \in Rules(p) : /\ i \notin runs[p].completed
                                   /\ PartialQuantity(p, i, runs[p].original) >= 1
                                   /\ Touched(p, i)}
FirstProposed(p, i) == i \in Proposable(p) /\ \A k \in Proposable(p) : i <= k
RunnerLeft(p, i) == PartialQuantity(p, i, runs[p].original) < runs[p].qty

Proposing(p) == runs[p].state = "OPEN" /\ runs[p].pending = "none" /\ ~AtExit(p)

ProposeStop(p) ==
  /\ Proposing(p) /\ StopProposed(p)
  /\ Turn(p, [runs[p] EXCEPT !.pending = "STOP", !.pendingStop = NewsStop(p),
                             !.requested = todo.received])

ProposePartial(p, i) ==
  /\ Proposing(p) /\ ~StopProposed(p)
  /\ FirstProposed(p, i) /\ RunnerLeft(p, i)
  /\ Turn(p, [runs[p] EXCEPT !.pending = "SELECTED_PARTIAL", !.pendingRule = i,
                             !.requested = todo.received])

NoProposal(p) ==
  /\ Proposing(p) /\ ~StopProposed(p)
  /\ \A i \in Rules(p) : FirstProposed(p, i) => ~RunnerLeft(p, i)
  /\ Turn(p, runs[p])

-----------------------------------------------------------------------------
Settle(p) ==
  \/ EntryExpires(p) \/ RetraceMissed(p) \/ RetraceWaits(p)
  \/ AckHeld(p) \/ AckRejected(p)
  \/ StopMoves(p) \/ PartialFills(p) \/ EntryFills(p)

Quote(p) ==
  /\ NewEvent
  /\ \/ ProtectionExit(p) \/ GuardCancels(p) \/ WaitForLaterQuote(p) \/ NqGuard(p)
     \/ Settle(p)
     \/ ProposeStop(p) \/ (\E i \in Rules(p) : ProposePartial(p, i)) \/ NoProposal(p)

ProcessOne ==
  \/ \E p \in Plans, guard \in GuardBudgets : Submit(p, guard)
  \/ \E ack \in Acks, signal \in Signals : Store(Observed(ack, signal))
  \/ ApplyAgain \/ ApplyLate \/ ApplyIdle
  \/ \E p \in Plans : Quote(p)
  \/ MarkDone

World ==
  \/ \E price \in Prices, delay \in Delays : NewQuote(price, delay)
  \/ \E p \in Plans : PlanReady(p)
  \/ Tick \/ Crash

Next == ProcessOne \/ World

Spec == Init /\ [][Next]_vars

-----------------------------------------------------------------------------
(* Properties *)

RunTypes ==
  [state : RunStates, budget : Nat, original : Nat, qty : Nat, price : Int, stop : Int,
   gross : Int, fees : Nat, completed : SUBSET Nat,
   pending : {"none", "ENTRY", "STOP", "SELECTED_PARTIAL"}, requested : Nat,
   pendingStop : Int, pendingRule : Nat, bracket : Nat \X Int, closed : Nat]

TypeOK ==
  /\ runs \in [Plans -> RunTypes]
  /\ cursor \in Times \cup {-1}
  /\ {applied, stored, todo} \subseteq Args \cup {NoArgs}
  /\ done \in 0..MaxQuotes
  /\ feed \in [id : Quotes, at : Times, price : Prices] \cup {[id |-> 0, at |-> 0, price |-> 0]}
  /\ ready \in Plans \cup {NoPlan}
  /\ pc \in {"idle", "apply", "mark"}
  /\ pc # "idle" => todo \in Args
  /\ outcome \in {"ok", "late", "conflict"}
  /\ now \in Times /\ crashes \in 0..MaxCrashes

(* While a run is open, what it has lost and paid and what its stop would lose, *)
(* slippage and closing fees included, stays within the budget it was sized to: *)
(* across partial exits, moved stops, late quotes and restarts (_risk, _settle).*)
RiskWithinBudget ==
  \A p \in Plans : runs[p].state = "OPEN" => Risk(p, runs[p]) <= runs[p].budget

(* A run that ends on a quote no worse than its stop loses, net of all fees, no *)
(* more than its budget; only a gap through the stop costs more (_close).       *)
StopOutWithinBudget ==
  [][\A p \in Plans : runs[p].state = "OPEN" /\ runs'[p].state = "CLOSED"
                      /\ Plan[p].sign * (todo.price - runs[p].stop) >= 0
                        => NetLoss(runs'[p]) <= runs[p].budget]_vars

(* Through every partial, stop move and restart ("atomic bracket replacement")  *)
(* the open quantity is what was entered less the completed partials, each      *)
(* taken once, and never nothing, a partial leaving a runner; the confirmed     *)
(* bracket covers exactly these contracts at the current stop.                  *)
PositionKept ==
  \A p \in Plans :
    /\ runs[p].state = "OPEN" =>
         /\ runs[p].qty >= 1
         /\ runs[p].qty = runs[p].original - PartialSum(p, runs[p].completed, runs[p].original)
         /\ runs[p].bracket = <<runs[p].qty, runs[p].stop>>
    /\ runs[p].state = "CLOSED" => runs[p].bracket[1] = 0

(* A position never outlives a quote at or beyond its stop or target.            *)
ProtectionFirst ==
  [][\A p \in Plans :
       (/\ cursor' # cursor /\ pc = "apply" /\ runs[p].state = "OPEN"
        /\ \/ Plan[p].sign * (todo.price - runs[p].stop) <= 0
           \/ Plan[p].sign * (todo.price - Plan[p].target) >= 0)
       => runs'[p].state = "CLOSED"]_vars

(* A fill is simulated on a quote observed after the request, also when the     *)
(* quote was stored before a restart: the simulation never looks ahead.         *)
NoLookahead ==
  [][\A p \in Plans : runs[p].pending # "none" /\ runs'[p].qty # runs[p].qty
                      /\ runs'[p].state = "OPEN"
                        => todo.at > runs[p].requested]_vars

(* No New York day closes more than two runs with a net loss.                    *)
TwoLossesADay ==
  \A d \in {Day(t) : t \in Times} :
    Cardinality({p \in Plans : runs[p].state = "CLOSED" /\ runs[p].fees > runs[p].gross
                               /\ Day(runs[p].closed) = d}) <= 2

(* A quote event is never replayed with other arguments than it was applied     *)
(* with: the stored row makes the retry after a restart exact.  And no event is *)
(* marked done before the simulator has applied it, so none is skipped.         *)
ReplayIsExact ==
  /\ outcome # "conflict"
  /\ done # 0 => applied.id >= done
=============================================================================
