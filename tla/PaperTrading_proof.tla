-------------------------- MODULE PaperTrading_proof --------------------------
(***************************************************************************)
(* What the simulator guarantees for every set of plans, every price and   *)
(* every restart: its types, the exact retry of a stored quote, the        *)
(* bracket, the quantity and the risk of an open run, and the day's limit. *)
(***************************************************************************)
EXTENDS PaperTrading, TLAPS, FiniteSetTheorems, WellFoundedInduction

-----------------------------------------------------------------------------
(* The plans *)

LEMMA PlanFields ==
  ASSUME NEW p \in Plans
  PROVE  /\ Plan[p].sign \in {1, -1}
         /\ Plan[p].entry \in Nat /\ Plan[p].invalidation \in Nat
         /\ Plan[p].stop \in Nat /\ Plan[p].target \in Nat
         /\ Plan[p].qty \in Nat /\ Plan[p].qty > 0
         /\ Plan[p].budget \in Nat /\ Plan[p].expires \in Nat
         /\ Plan[p].partials \in
              Seq([third : BOOLEAN, qty : Nat, symbol : {"MNQ", "ES"}, price : Nat])
  BY PaperTradingAssumption DEF PaperTradingAssumption, PlanSpecs

LEMMA Costs == Slippage \in Nat /\ Fee \in Nat /\ NewsOffset \in Nat
  BY PaperTradingAssumption DEF PaperTradingAssumption

LEMMA RuleFields ==
  ASSUME NEW p \in Plans
  PROVE  /\ Len(Plan[p].partials) \in Nat
         /\ Rules(p) = 1..Len(Plan[p].partials)
         /\ \A i \in Rules(p) : Plan[p].partials[i].qty \in Nat /\ Plan[p].partials[i].third \in BOOLEAN
PROOF
<1>. DEFINE R == [third : BOOLEAN, qty : Nat, symbol : {"MNQ", "ES"}, price : Nat]
             s == Plan[p].partials
<1>1. s \in Seq(R)
  BY PlanFields
<1>2. \A x \in R : x.qty \in Nat /\ x.third \in BOOLEAN
  OBVIOUS
<1>. HIDE DEF R, s
<1>3. Len(s) \in Nat /\ DOMAIN s = 1..Len(s) /\ \A i \in 1..Len(s) : s[i] \in R
  BY <1>1
<1>4. \A i \in 1..Len(s) : s[i].qty \in Nat /\ s[i].third \in BOOLEAN
  BY <1>2, <1>3
<1>. QED
  BY <1>3, <1>4 DEF s, Rules

LEMMA RuleIsNat ==
  ASSUME NEW p \in Plans, NEW i \in Rules(p)
  PROVE  i \in Nat
PROOF
<1>. DEFINE n == Len(Plan[p].partials)
<1>1. n \in Nat /\ i \in 1..n
  BY RuleFields
<1>. HIDE DEF n
<1>. QED
  BY <1>1

LEMMA PartialQuantityType ==
  ASSUME NEW p \in Plans, NEW i \in Rules(p), NEW original \in Nat
  PROVE  PartialQuantity(p, i, original) \in Nat
  BY RuleFields DEF PartialQuantity

-----------------------------------------------------------------------------
(* The sum of the selected partials *)

(* Induction up to n, over a set of numbers. *)
LEMMA UpTo ==
  ASSUME NEW n \in Nat, NEW S \in SUBSET (0..n), 0 \in S,
         \A k \in 0..n : k < n /\ k \in S => k + 1 \in S
  PROVE  S = 0..n
PROOF
<1>. DEFINE T == (0..n) \ S
<1>1. SUFFICES ASSUME T # {} PROVE FALSE
  OBVIOUS
<1>2. T \in SUBSET Nat
  OBVIOUS
<1>3. PICK d \in T : \A e \in T : ~(<<e, d>> \in OpToRel(<, Nat))
  <2>. HIDE DEF T
  <2>. QED
    BY <1>1, <1>2, WFMin, NatLessThanWellFounded, Zenon
<1>4. d - 1 \in S
  <2>1. d > 0 /\ d - 1 \in 0..n
    OBVIOUS
  <2>2. SUFFICES ASSUME d - 1 \in T PROVE FALSE
    BY <2>1
  <2>3. <<d - 1, d>> \in OpToRel(<, Nat)
    <3>1. OpToRel(<, Nat) = {q \in Nat \X Nat : q[1] < q[2]}
      BY DEF OpToRel
    <3>2. <<d - 1, d>> \in {q \in Nat \X Nat : q[1] < q[2]}
      BY <2>1
    <3>. QED
      BY <3>1, <3>2
  <2>. QED
    BY <1>3, <2>2, <2>3
<1>5. d - 1 \in 0..n /\ d - 1 < n /\ (d - 1) + 1 = d
  OBVIOUS
<1>. QED
  BY <1>4, <1>5

(* What the i-th rule adds to the sum over I. *)
Share(p, I, original, i) == IF i \in I THEN PartialQuantity(p, i, original) ELSE 0

(* f sums up the shares of the first k rules. *)
Sums(f, k, p, I, original) ==
  /\ f \in [0..k -> Nat] /\ f[0] = 0
  /\ \A i \in 1..k : f[i] = f[i - 1] + Share(p, I, original, i)

LEMMA ShareType ==
  ASSUME NEW p \in Plans, NEW I, NEW original \in Nat, NEW i \in Rules(p)
  PROVE  Share(p, I, original, i) \in Nat
  BY PartialQuantityType DEF Share

LEMMA SumsExist ==
  ASSUME NEW p \in Plans, NEW I, NEW original \in Nat
  PROVE  \E f : Sums(f, Len(Plan[p].partials), p, I, original)
PROOF
<1>. DEFINE n == Len(Plan[p].partials)
            g(i) == Share(p, I, original, i)
            S == {k \in 0..n : \E f : Sums(f, k, p, I, original)}
<1>1. n \in Nat /\ \A i \in 1..n : g(i) \in Nat
  BY RuleFields, ShareType
<1>2. 0 \in S
  <2>1. Sums([i \in 0..0 |-> 0], 0, p, I, original)
    BY DEF Sums
  <2>. QED
    BY <1>1, <2>1
<1>3. ASSUME NEW k \in 0..n, k < n, k \in S PROVE k + 1 \in S
  <2>1. PICK f : Sums(f, k, p, I, original)
    BY <1>3
  <2>. DEFINE h == [i \in 0..(k + 1) |-> IF i = k + 1 THEN f[k] + g(i) ELSE f[i]]
  <2>2. k + 1 \in 1..n /\ k \in Nat /\ g(k + 1) \in Nat
    BY <1>1, <1>3
  <2>3. f \in [0..k -> Nat] /\ f[0] = 0 /\ \A i \in 1..k : f[i] = f[i - 1] + g(i)
    BY <2>1 DEF Sums
  <2>. HIDE DEF g
  <2>4. h \in [0..(k + 1) -> Nat]
    BY <2>2, <2>3
  <2>5. h[0] = 0
    BY <2>2, <2>3
  <2>6. ASSUME NEW i \in 1..(k + 1) PROVE h[i] = h[i - 1] + g(i)
    <3>1. CASE i = k + 1
      BY <3>1, <2>2, <2>3
    <3>2. CASE i \in 1..k
      BY <3>2, <2>2, <2>3
    <3>. QED
      BY <2>2, <3>1, <3>2
  <2>7. Sums(h, k + 1, p, I, original)
    <3>. HIDE DEF h
    <3>. QED
      BY <2>4, <2>5, <2>6 DEF Sums, g
  <2>. QED
    BY <2>2, <2>7
<1>4. S = 0..n
  <2>. HIDE DEF S
  <2>1. S \in SUBSET (0..n)
    BY DEF S
  <2>. QED
    BY <1>1, <1>2, <1>3, <2>1, UpTo
<1>. QED
  BY <1>1, <1>4

(* PartialSum is the last of the sums. *)
LEMMA PartialSumIs ==
  ASSUME NEW p \in Plans, NEW I, NEW original \in Nat
  PROVE  \E f : /\ Sums(f, Len(Plan[p].partials), p, I, original)
                /\ PartialSum(p, I, original) = f[Len(Plan[p].partials)]
PROOF
<1>. DEFINE n == Len(Plan[p].partials)
            Eq(f) == f = [i \in 0..n |-> IF i = 0 THEN 0
                                         ELSE f[i - 1] + IF i \in I THEN PartialQuantity(p, i, original) ELSE 0]
            s == CHOOSE f : Eq(f)
<1>1. n \in Nat /\ \A i \in 1..n : Share(p, I, original, i) \in Nat
  BY RuleFields, ShareType
<1>2. \E f : Eq(f)
  <2>1. PICK f : Sums(f, n, p, I, original)
    BY SumsExist
  <2>2. Eq(f)
    BY <1>1, <2>1 DEF Sums, Share
  <2>. QED
    BY <2>2
<1>3. Eq(s)
  <2>. HIDE DEF Eq
  <2>. QED
    BY <1>2
<1>4. PartialSum(p, I, original) = s[n]
  BY DEF PartialSum
<1>. HIDE DEF s
<1>5. DOMAIN s = 0..n /\ s[0] = 0 /\ \A i \in 1..n : s[i] = s[i - 1] + Share(p, I, original, i)
  <2>1. s = [i \in 0..n |-> IF i = 0 THEN 0
                             ELSE s[i - 1] + IF i \in I THEN PartialQuantity(p, i, original) ELSE 0]
    BY <1>3
  <2>2. DOMAIN s = 0..n /\ s[0] = 0
    BY <1>1, <2>1
  <2>3. ASSUME NEW i \in 1..n PROVE s[i] = s[i - 1] + Share(p, I, original, i)
    BY <1>1, <2>1 DEF Share
  <2>. QED
    BY <2>2, <2>3
<1>6. s = [i \in 0..n |-> s[i]]
  BY <1>3
<1>7. \A i \in 0..n : s[i] \in Nat
  <2>. DEFINE S == {k \in 0..n : s[k] \in Nat}
  <2>1. 0 \in S /\ S \in SUBSET (0..n)
    BY <1>1, <1>5
  <2>2. ASSUME NEW k \in 0..n, k < n, k \in S PROVE k + 1 \in S
    <3>1. k + 1 \in 1..n /\ (k + 1) - 1 = k /\ s[k] \in Nat
      BY <2>2, <1>1
    <3>2. s[k + 1] = s[k] + Share(p, I, original, k + 1)
      BY <3>1, <1>5
    <3>. QED
      BY <3>1, <3>2, <1>1
  <2>. HIDE DEF S
  <2>3. S = 0..n
    BY <1>1, <2>1, <2>2, UpTo
  <2>. QED
    BY <2>3 DEF S
<1>8. Sums(s, n, p, I, original)
  BY <1>5, <1>6, <1>7 DEF Sums
<1>. QED
  BY <1>4, <1>8

(* Taking one more partial adds its quantity. *)
LEMMA PartialSumAdds ==
  ASSUME NEW p \in Plans, NEW I, NEW original \in Nat, NEW r \in Rules(p), r \notin I
  PROVE  /\ PartialSum(p, I, original) \in Nat
         /\ PartialSum(p, I \cup {r}, original)
              = PartialSum(p, I, original) + PartialQuantity(p, r, original)
PROOF
<1>. DEFINE n == Len(Plan[p].partials)
            J == I \cup {r}
            q == PartialQuantity(p, r, original)
<1>1. PICK a : Sums(a, n, p, I, original) /\ PartialSum(p, I, original) = a[n]
  BY PartialSumIs
<1>2. PICK b : Sums(b, n, p, J, original) /\ PartialSum(p, J, original) = b[n]
  BY PartialSumIs
<1>3. n \in Nat /\ r \in 1..n /\ q \in Nat
  BY RuleFields, PartialQuantityType
<1>4. \A i \in 1..n : /\ Share(p, I, original, i) \in Nat
                      /\ Share(p, J, original, i)
                           = Share(p, I, original, i) + IF i = r THEN q ELSE 0
  <2>1. TAKE i \in 1..n
  <2>2. Share(p, I, original, i) \in Nat
    BY RuleFields, ShareType
  <2>3. CASE i = r
    BY <2>3, <1>3 DEF Share
  <2>4. CASE i # r
    BY <2>2, <2>4 DEF Share
  <2>. QED
    BY <2>2, <2>3, <2>4
<1>5. /\ a \in [0..n -> Nat] /\ a[0] = 0
      /\ \A i \in 1..n : a[i] = a[i - 1] + Share(p, I, original, i)
      /\ b \in [0..n -> Nat] /\ b[0] = 0
      /\ \A i \in 1..n : b[i] = b[i - 1] + Share(p, J, original, i)
  BY <1>1, <1>2 DEF Sums
<1>. DEFINE S == {k \in 0..n : b[k] = a[k] + IF r <= k THEN q ELSE 0}
<1>. HIDE DEF n, J, q
<1>6. 0 \in S /\ S \in SUBSET (0..n)
  BY <1>3, <1>5
<1>7. ASSUME NEW k \in 0..n, k < n, k \in S PROVE k + 1 \in S
  <2>. DEFINE x == Share(p, I, original, k + 1)
  <2>1. k + 1 \in 1..n /\ (k + 1) - 1 = k /\ a[k] \in Nat
    BY <1>3, <1>5, <1>7
  <2>2. a[k + 1] = a[k] + x /\ b[k + 1] = b[k] + Share(p, J, original, k + 1)
    BY <2>1, <1>5
  <2>3. x \in Nat /\ Share(p, J, original, k + 1) = x + IF k + 1 = r THEN q ELSE 0
    BY <2>1, <1>4
  <2>4. b[k] = a[k] + IF r <= k THEN q ELSE 0
    BY <1>7
  <2>. HIDE DEF x
  <2>5. b[k + 1] = a[k + 1] + IF r <= k + 1 THEN q ELSE 0
    BY <2>1, <2>2, <2>3, <2>4, <1>3
  <2>. QED
    BY <2>1, <2>5
<1>8. S = 0..n
  <2>. HIDE DEF S
  <2>. QED
    BY <1>3, <1>6, <1>7, UpTo
<1>9. b[n] = a[n] + q /\ a[n] \in Nat
  <2>1. n \in S
    BY <1>3, <1>8
  <2>2. b[n] = a[n] + IF r <= n THEN q ELSE 0
    BY <2>1
  <2>3. n \in 0..n /\ r <= n
    BY <1>3
  <2>4. a[n] \in Nat
    BY <1>5, <2>3
  <2>. QED
    BY <2>2, <2>3, <2>4
<1>. QED
  BY <1>1, <1>2, <1>9 DEF n, J, q

(* Nothing taken yet. *)
LEMMA PartialSumEmpty ==
  ASSUME NEW p \in Plans, NEW original \in Nat
  PROVE  PartialSum(p, {}, original) = 0
PROOF
<1>. DEFINE n == Len(Plan[p].partials)
<1>1. PICK a : Sums(a, n, p, {}, original) /\ PartialSum(p, {}, original) = a[n]
  BY PartialSumIs
<1>2. n \in Nat /\ a[0] = 0 /\ \A i \in 1..n : a[i] = a[i - 1] + 0
  BY <1>1, RuleFields DEF Sums, Share
<1>3. a \in [0..n -> Nat]
  BY <1>1 DEF Sums
<1>. DEFINE S == {k \in 0..n : a[k] = 0}
<1>. HIDE DEF n
<1>4. 0 \in S /\ S \in SUBSET (0..n)
  BY <1>2
<1>5. ASSUME NEW k \in 0..n, k < n, k \in S PROVE k + 1 \in S
  BY <1>2, <1>3, <1>5
<1>6. S = 0..n
  <2>. HIDE DEF S
  <2>. QED
    BY <1>2, <1>4, <1>5, UpTo
<1>. QED
  BY <1>1, <1>2, <1>6 DEF n

-----------------------------------------------------------------------------
(* The rows of the loop *)

(* The two databases agree: what is in hand, what is stored, what was applied  *)
(* with and what is marked done never contradict each other.                   *)
RowsAgree ==
  /\ applied.id <= stored.id /\ stored.id <= feed.id
  /\ applied.id = stored.id => applied = stored
  /\ pc # "idle" => todo = stored
  /\ pc = "mark" => applied = todo
  /\ done <= applied.id
  /\ outcome # "conflict"

(* The part of TypeOK that does not look into the runs. *)
LoopTypes ==
  /\ cursor \in Times \cup {-1}
  /\ {applied, stored, todo} \subseteq Args \cup {NoArgs}
  /\ done \in 0..MaxQuotes
  /\ feed \in [id : Quotes, at : Times, price : Prices] \cup {[id |-> 0, at |-> 0, price |-> 0]}
  /\ ready \in Plans \cup {NoPlan}
  /\ pc \in {"idle", "apply", "mark"}
  /\ pc # "idle" => todo \in Args
  /\ outcome \in {"ok", "late", "conflict"}
  /\ now \in Times /\ crashes \in 0..MaxCrashes

LEMMA Bounds == /\ MaxNow \in Nat /\ MaxQuotes \in Nat /\ MaxCrashes \in Nat
                /\ Delays \subseteq 0..2 /\ Prices \subseteq Nat
  BY PaperTradingAssumption DEF PaperTradingAssumption

LEMMA RowIds ==
  ASSUME LoopTypes
  PROVE  /\ applied.id \in Nat /\ stored.id \in Nat /\ todo.id \in Nat /\ feed.id \in Nat
         /\ feed.id <= MaxQuotes /\ feed.at \in Times
         /\ feed.id > 0 => feed \in [id : Quotes, at : Times, price : Prices]
         /\ cursor \in Int /\ now \in Nat /\ done \in Nat
         /\ todo.id > 0 => todo \in Args
  BY Bounds DEF LoopTypes, Args, NoArgs, Quotes, Times

LEMMA ArgsFields ==
  ASSUME NEW a \in Args
  PROVE  /\ a.id \in Nat /\ a.id > 0 /\ a.id <= MaxQuotes
         /\ a.at \in Times /\ a.received \in Times /\ a.price \in Nat
PROOF
<1>1. a.id \in 1..MaxQuotes /\ a.at \in Times /\ a.received \in Times /\ a.price \in Prices
  BY DEF Args, Quotes
<1>. DEFINE id == a.id price == a.price
<1>2. id \in Nat /\ id > 0 /\ id <= MaxQuotes /\ price \in Nat
  <2>. HIDE DEF id, price
  <2>1. id \in 1..MaxQuotes /\ price \in Prices
    BY <1>1 DEF id, price
  <2>. QED
    BY <2>1, Bounds
<1>. QED
  BY <1>1, <1>2

LEMMA ObservedType ==
  ASSUME LoopTypes, Due, NEW ack \in Acks, NEW signal \in Signals
  PROVE  /\ Observed(ack, signal) \in Args
         /\ Observed(ack, signal).id = feed.id
  BY RowIds DEF LoopTypes, Due, Observed, Args

LEMMA RowsInit ==
  ASSUME Init
  PROVE  LoopTypes /\ RowsAgree
  BY Bounds DEF Init, LoopTypes, RowsAgree, NoArgs, Times

(* Every step of a run is one event of the simulator. *)
LEMMA TurnIsEvent ==
  ASSUME NEW p \in Plans, Quote(p)
  PROVE  Event /\ NewEvent
  BY DEF Quote, Settle, Turn, ProtectionExit, GuardCancels, WaitForLaterQuote, NqGuard,
         EntryExpires, RetraceMissed, RetraceWaits, AckHeld, AckRejected, StopMoves,
         PartialFills, EntryFills, ProposeStop, ProposePartial, NoProposal

LEMMA EventRows ==
  ASSUME LoopTypes, RowsAgree, NewEvent, Event
  PROVE  LoopTypes' /\ RowsAgree'
PROOF
<1>1. todo \in Args /\ todo = stored /\ todo.id \in Nat
  BY RowIds DEF NewEvent, LoopTypes, RowsAgree
<1>2. todo.received \in Times
  BY <1>1, ArgsFields
<1>3. RowsAgree'
  BY <1>1, RowIds DEF Event, RowsAgree, NewEvent, worldVars
<1>4. LoopTypes'
  BY <1>1, <1>2 DEF LoopTypes, Event, worldVars
<1>. QED
  BY <1>3, <1>4

LEMMA StoreRows ==
  ASSUME LoopTypes, RowsAgree, NEW ack \in Acks, NEW signal \in Signals,
         Store(Observed(ack, signal))
  PROVE  LoopTypes' /\ RowsAgree'
PROOF
<1>. DEFINE args == Observed(ack, signal)
<1>1. args \in Args /\ args.id = feed.id /\ Due
  BY ObservedType DEF Store
<1>2. stored' \in {stored, args} /\ stored' \in Args /\ todo' = stored' /\ stored'.id = feed.id
  <2>1. CASE stored.id = args.id
    <3>1. stored \in Args
      BY <2>1, <1>1, ArgsFields DEF LoopTypes, NoArgs
    <3>. QED
      BY <2>1, <3>1, <1>1 DEF Store
  <2>2. CASE stored.id # args.id
    BY <2>2, <1>1 DEF Store
  <2>. QED
    BY <2>1, <2>2
<1>3. stored.id # feed.id => stored' = args /\ applied.id < feed.id
  BY <1>1, RowIds DEF Store, RowsAgree
<1>4. stored.id = feed.id => stored' = stored
  BY <1>1 DEF Store
<1>. HIDE DEF args
<1>5. LoopTypes'
  BY <1>1, <1>2 DEF LoopTypes, Store, simulator, worldVars
<1>6. RowsAgree'
  BY <1>2, <1>3, <1>4, RowIds DEF RowsAgree, Store, simulator, worldVars
<1>. QED
  BY <1>5, <1>6

(* The retry after a restart is exact, and only what is applied is marked done. *)
LEMMA RowsStep ==
  ASSUME LoopTypes, RowsAgree, [Next]_vars
  PROVE  LoopTypes' /\ RowsAgree'
PROOF
<1>1. ASSUME NEW p \in Plans, NEW guard \in GuardBudgets, Submit(p, guard) PROVE LoopTypes' /\ RowsAgree'
  BY <1>1, RowIds DEF Submit, LoopTypes, RowsAgree, worldVars
<1>2. ASSUME NEW ack \in Acks, NEW signal \in Signals, Store(Observed(ack, signal))
      PROVE  LoopTypes' /\ RowsAgree'
  BY <1>2, StoreRows
<1>3. CASE ApplyAgain
  BY <1>3, RowIds DEF ApplyAgain, LoopTypes, RowsAgree, simulator, worldVars
<1>4. CASE ApplyLate
  BY <1>4, RowIds DEF ApplyLate, LoopTypes, RowsAgree, simulator, worldVars
<1>5. CASE ApplyIdle
  BY <1>5, EventRows DEF ApplyIdle
<1>6. ASSUME NEW p \in Plans, Quote(p) PROVE LoopTypes' /\ RowsAgree'
  BY <1>6, TurnIsEvent, EventRows
<1>7. CASE MarkDone
  <2>1. todo \in Args /\ todo = applied
    BY <1>7 DEF MarkDone, LoopTypes, RowsAgree
  <2>2. todo.id \in 0..MaxQuotes
    BY <2>1, ArgsFields, Bounds
  <2>. QED
    BY <1>7, <2>1, <2>2, RowIds DEF MarkDone, LoopTypes, RowsAgree, simulator, worldVars
<1>8. ASSUME NEW price \in Prices, NEW delay \in Delays, NewQuote(price, delay)
      PROVE  LoopTypes' /\ RowsAgree'
  <2>1. feed.id + 1 \in Quotes /\ now - delay \in Times
    BY <1>8, RowIds, Bounds DEF NewQuote, Quotes, Times, LoopTypes
  <2>2. feed' \in [id : Quotes, at : Times, price : Prices] /\ feed'.id = feed.id + 1
    BY <1>8, <2>1 DEF NewQuote
  <2>. QED
    BY <1>8, <2>2, RowIds DEF NewQuote, LoopTypes, RowsAgree, simulator, loopVars
<1>9. ASSUME NEW p \in Plans, PlanReady(p) PROVE LoopTypes' /\ RowsAgree'
  BY <1>9 DEF PlanReady, LoopTypes, RowsAgree, simulator, loopVars
<1>10. CASE Tick
  BY <1>10, Bounds DEF Tick, LoopTypes, RowsAgree, simulator, loopVars, Times
<1>11. CASE Crash
  BY <1>11, Bounds DEF Crash, LoopTypes, RowsAgree, simulator
<1>12. CASE UNCHANGED vars
  BY <1>12 DEF vars, LoopTypes, RowsAgree, simulator, loopVars, worldVars
<1>. QED
  BY <1>1, <1>2, <1>3, <1>4, <1>5, <1>6, <1>7, <1>8, <1>9, <1>10, <1>11, <1>12
     DEF Next, ProcessOne, World
-----------------------------------------------------------------------------
(* One run *)

(* What holds of an open run: the bracket, the quantity and the risk, and that *)
(* a partial on its way leaves a runner.                                       *)
OpenOK(p, r) ==
  /\ r.bracket = <<r.qty, r.stop>>
  /\ r.qty >= 1 /\ r.completed \subseteq Rules(p)
  /\ r.qty = r.original - PartialSum(p, r.completed, r.original)
  /\ Risk(p, r) <= r.budget
  /\ r.pending = "SELECTED_PARTIAL" =>
       /\ r.pendingRule \in Rules(p) /\ r.pendingRule \notin r.completed
       /\ PartialQuantity(p, r.pendingRule, r.original) < r.qty

RunOK(p, r) ==
  /\ r \in RunTypes
  /\ r.pending = "ENTRY" <=> r.state = "ENTRY_PENDING"
  /\ r.pending \in {"STOP", "SELECTED_PARTIAL"} => r.state = "OPEN"
  /\ r.state = "ENTRY_PENDING" => r.original >= 1 /\ r.completed = {}
  /\ r.state \in {"ENTRY_PENDING", "OPEN"} => Plan[p].sign * (Plan[p].target - r.stop) > 0
  /\ r.state = "OPEN" => OpenOK(p, r)
  /\ r.state = "CLOSED" => r.bracket[1] = 0

LEMMA RunFields ==
  ASSUME NEW r \in RunTypes
  PROVE  /\ r.state \in RunStates /\ r.budget \in Nat /\ r.original \in Nat /\ r.qty \in Nat
         /\ r.price \in Int /\ r.stop \in Int /\ r.gross \in Int /\ r.fees \in Nat
         /\ r.completed \in SUBSET Nat /\ r.pending \in {"none", "ENTRY", "STOP", "SELECTED_PARTIAL"}
         /\ r.requested \in Nat /\ r.pendingStop \in Int /\ r.pendingRule \in Nat
         /\ r.bracket \in Nat \X Int /\ r.closed \in Nat
  BY DEF RunTypes

(* Fields that no management changes. *)
SameEntry(r, v) ==
  /\ v.budget = r.budget /\ v.original = r.original /\ v.price = r.price /\ v.closed = r.closed

LEMMA EndedFields ==
  ASSUME NEW r \in RunTypes, NEW state \in RunStates
  PROVE  /\ Ended(r, state) \in RunTypes
         /\ Ended(r, state).state = state /\ Ended(r, state).pending = "none"
         /\ Ended(r, state).bracket = r.bracket /\ Ended(r, state).qty = r.qty
         /\ Ended(r, state).gross = r.gross /\ Ended(r, state).fees = r.fees
         /\ Ended(r, state).budget = r.budget /\ Ended(r, state).closed = r.closed
  BY DEF RunTypes, Ended

LEMMA ClearedFields ==
  ASSUME NEW r \in RunTypes
  PROVE  /\ Cleared(r) \in RunTypes
         /\ Cleared(r).pending = "none" /\ Cleared(r).state = r.state
         /\ Cleared(r).bracket = r.bracket /\ Cleared(r).qty = r.qty /\ Cleared(r).stop = r.stop
         /\ Cleared(r).gross = r.gross /\ Cleared(r).fees = r.fees
         /\ Cleared(r).completed = r.completed
         /\ SameEntry(r, Cleared(r))
  BY DEF RunTypes, Cleared, SameEntry

(* Reduced by n contracts at a fill. *)
LEMMA ReducedFields ==
  ASSUME NEW p \in Plans, NEW r \in RunTypes, NEW n \in Nat, n <= r.qty, NEW fill \in Int
  PROVE  LET v == Reduced(p, r, n, fill) IN
         /\ v \in RunTypes
         /\ v.gross = r.gross + Plan[p].sign * (fill - r.price) * n * 2
         /\ v.fees = r.fees + n * Fee
         /\ v.qty = r.qty - n /\ v.stop = r.stop /\ v.bracket = <<r.qty - n, r.stop>>
         /\ v.state = r.state /\ v.completed = r.completed
         /\ SameEntry(r, v)
PROOF
<1>. DEFINE g == r.gross + Plan[p].sign * (fill - r.price) * n * 2
            f == r.fees + n * Fee
            q == r.qty - n
<1>1. g \in Int /\ f \in Nat /\ q \in Nat /\ <<q, r.stop>> \in Nat \X Int
  <2>1. /\ r.gross \in Int /\ r.price \in Int /\ r.fees \in Nat /\ r.qty \in Nat /\ r.stop \in Int
        /\ Plan[p].sign \in Int /\ Fee \in Nat
    BY RunFields, PlanFields, Costs
  <2>2. g \in Int
    BY <2>1
  <2>3. f \in Nat /\ q \in Nat
    BY <2>1
  <2>. QED
    BY <2>1, <2>2, <2>3
<1>2. Reduced(p, r, n, fill) = [r EXCEPT !.gross = g, !.fees = f, !.qty = q, !.bracket = <<q, r.stop>>]
  BY DEF Reduced
<1>. HIDE DEF g, f, q
<1>. DEFINE v == Reduced(p, r, n, fill)
<1>3. /\ v \in RunTypes /\ v.gross = g /\ v.fees = f /\ v.qty = q /\ v.stop = r.stop
      /\ v.bracket = <<q, r.stop>> /\ v.state = r.state /\ v.completed = r.completed
      /\ SameEntry(r, v)
  BY <1>1, <1>2 DEF RunTypes, SameEntry
<1>. HIDE DEF v
<1>4. v = Reduced(p, r, n, fill)
  BY DEF v
<1>. QED
  BY <1>3, <1>4 DEF g, f, q

LEMMA EnteredFields ==
  ASSUME NEW p \in Plans, NEW r \in RunTypes, NEW fill \in Int
  PROVE  LET v == Entered(p, r, fill) IN
         /\ v \in RunTypes
         /\ v.state = "OPEN" /\ v.pending = "none" /\ v.qty = r.original /\ v.stop = r.stop
         /\ v.bracket = <<r.original, r.stop>> /\ v.completed = r.completed
         /\ v.budget = r.budget /\ v.original = r.original
PROOF
<1>. DEFINE f == r.original * Fee
            v == Entered(p, r, fill)
<1>1. f \in Nat /\ r.original \in Nat /\ <<r.original, r.stop>> \in Nat \X Int
  BY RunFields, Costs
<1>2. v = [[r EXCEPT !.pending = "none"] EXCEPT
             !.state = "OPEN", !.price = fill, !.qty = r.original, !.fees = f,
             !.bracket = <<r.original, r.stop>>]
  BY DEF Entered, Cleared
<1>. HIDE DEF f
<1>3. "OPEN" \in RunStates
  BY DEF RunStates
<1>. HIDE DEF v
<1>4. /\ v \in RunTypes /\ v.state = "OPEN" /\ v.pending = "none" /\ v.qty = r.original
      /\ v.stop = r.stop /\ v.bracket = <<r.original, r.stop>> /\ v.completed = r.completed
      /\ v.budget = r.budget /\ v.original = r.original
  BY <1>1, <1>2, <1>3 DEF RunTypes
<1>. QED
  BY <1>4 DEF v

-----------------------------------------------------------------------------
(* Risk *)

LEMMA Products ==
  /\ \A x, y \in Int, n \in Nat : x <= y => x * n <= y * n
  /\ \A x \in Int, n \in Nat : Positive(x * n) <= Positive(x) * n
  /\ \A x \in Int : Positive(x) \in Nat
  /\ \A x, y \in Int : x <= y => Positive(x) <= Positive(y)
  /\ \A x, y \in Int : Positive(x + y) <= Positive(x) + Positive(y)
PROOF
<1>1. \A x \in Int : Positive(x) \in Nat
  BY DEF Positive
<1>2. \A x, y \in Int, n \in Nat : x <= y => x * n <= y * n
  OBVIOUS
<1>3. \A x, y \in Int : x <= y => Positive(x) <= Positive(y)
  BY DEF Positive
<1>4. \A x, y \in Int : Positive(x + y) <= Positive(x) + Positive(y)
  BY DEF Positive
<1>5. ASSUME NEW x \in Int, NEW n \in Nat PROVE Positive(x * n) <= Positive(x) * n
  <2>1. CASE x >= 0
    <3>1. x * n >= 0 /\ x * n \in Int
      BY <2>1, <1>2
    <3>. QED
      BY <2>1, <3>1 DEF Positive
  <2>2. CASE x < 0
    <3>1. x * n <= 0 /\ x * n \in Int
      BY <2>2, <1>2
    <3>. QED
      BY <2>2, <3>1 DEF Positive
  <2>. QED
    BY <2>1, <2>2
<1>. QED
  BY <1>1, <1>2, <1>3, <1>4, <1>5

LEMMA LotRiskType ==
  ASSUME NEW p \in Plans, NEW price \in Int, NEW stop \in Int
  PROVE  LotRisk(p, price, stop) \in Nat
PROOF
<1>. DEFINE x == Plan[p].sign * (price - stop) + Slippage
<1>1. x \in Int
  BY PlanFields, Costs
<1>. HIDE DEF x
<1>2. Positive(x) \in Nat
  BY <1>1, Products
<1>3. LotRisk(p, price, stop) = Positive(x) * 2 + Fee
  BY DEF LotRisk, x
<1>. QED
  BY <1>2, <1>3, Costs

LEMMA RiskType ==
  ASSUME NEW p \in Plans, NEW r \in RunTypes
  PROVE  Risk(p, r) \in Int
PROOF
<1>. DEFINE lot == LotRisk(p, r.price, r.stop) g == Positive(- r.gross)
<1>1. lot \in Nat /\ r.qty \in Nat /\ r.fees \in Nat
  BY RunFields, LotRiskType
<1>2. g \in Nat
  BY RunFields DEF Positive
<1>3. Risk(p, r) = g + r.fees + lot * r.qty
  BY DEF Risk
<1>. HIDE DEF lot, g
<1>. QED
  BY <1>1, <1>2, <1>3

(* A stop that moves towards the price risks no more. *)
LEMMA BetterStop ==
  ASSUME NEW p \in Plans, NEW r \in RunTypes, NEW v \in RunTypes,
         v.gross = r.gross, v.fees = r.fees, v.price = r.price, v.qty = r.qty,
         Plan[p].sign * (v.stop - r.stop) > 0
  PROVE  Risk(p, v) <= Risk(p, r)
PROOF
<1>. DEFINE s == Plan[p].sign
            x == s * (r.price - v.stop) + Slippage
            y == s * (r.price - r.stop) + Slippage
<1>1. /\ r.price \in Int /\ r.stop \in Int /\ v.stop \in Int /\ r.qty \in Nat /\ s \in {1, -1}
      /\ r.gross \in Int /\ r.fees \in Nat
  BY RunFields, PlanFields
<1>2. x \in Int /\ y \in Int /\ x <= y
  BY <1>1, Costs
<1>. HIDE DEF x, y
<1>. DEFINE a == Positive(x) * 2 + Fee
            b == Positive(y) * 2 + Fee
<1>3. a \in Nat /\ b \in Nat /\ a <= b
  <2>1. Positive(x) \in Nat /\ Positive(y) \in Nat /\ Positive(x) <= Positive(y)
    BY <1>2, Products
  <2>. QED
    BY <2>1, Costs
<1>4. LotRisk(p, v.price, v.stop) = a /\ LotRisk(p, r.price, r.stop) = b
  BY DEF LotRisk, x, y
<1>. HIDE DEF a, b
<1>5. a * r.qty <= b * r.qty /\ a * r.qty \in Nat /\ b * r.qty \in Nat
  <2>. DEFINE q == r.qty
  <2>1. q \in Nat
    BY <1>1
  <2>. HIDE DEF q
  <2>2. a * q <= b * q /\ a * q \in Nat /\ b * q \in Nat
    BY <1>3, <2>1
  <2>. QED
    BY <2>2 DEF q
<1>6. Positive(-r.gross) \in Nat
  BY <1>1 DEF Positive
<1>7. /\ Risk(p, v) = Positive(-r.gross) + r.fees + a * r.qty
      /\ Risk(p, r) = Positive(-r.gross) + r.fees + b * r.qty
  BY <1>4 DEF Risk
<1>. QED
  BY <1>1, <1>5, <1>6, <1>7

(* Closing n contracts at a quote before the stop, slippage and fee paid, adds *)
(* no more to what is lost than the stop would have cost them.                 *)
LEMMA CloseRisk ==
  ASSUME NEW p \in Plans, NEW r \in RunTypes, NEW n \in Nat, n <= r.qty,
         NEW quote \in Int, Plan[p].sign * (quote - r.stop) >= 0,
         NEW fill \in Int, Plan[p].sign * (fill - (quote - Plan[p].sign * Slippage)) >= 0
  PROVE  Risk(p, Reduced(p, r, n, fill)) <= Risk(p, r)
PROOF
<1>. DEFINE s == Plan[p].sign
            v == Reduced(p, r, n, fill)
            d == s * (r.price - fill)
            c == s * (r.price - r.stop) + Slippage
<1>1. /\ r.price \in Int /\ r.stop \in Int /\ r.qty \in Nat /\ s \in {1, -1}
      /\ r.gross \in Int /\ r.fees \in Nat
  BY RunFields, PlanFields
<1>2. d \in Int /\ c \in Int /\ d <= c
  <2>1. CASE s = 1
    BY <2>1, <1>1, Costs
  <2>2. CASE s = -1
    BY <2>2, <1>1, Costs
  <2>. QED
    BY <1>1, <2>1, <2>2
<1>3. /\ v.gross = r.gross + s * (fill - r.price) * n * 2 /\ v.fees = r.fees + n * Fee
      /\ v.qty = r.qty - n /\ v.stop = r.stop /\ v.price = r.price
  BY ReducedFields DEF SameEntry
<1>4. v.gross = r.gross - d * n * 2
  <2>1. s * (fill - r.price) = - d
    BY <1>1
  <2>2. (- d) * n * 2 = - (d * n * 2)
    BY <1>2
  <2>3. d * n * 2 \in Int
    BY <1>2
  <2>. HIDE DEF d, s, v
  <2>. QED
    BY <1>1, <1>3, <2>1, <2>2, <2>3
<1>. DEFINE P == Positive(c)
            D == Positive(d)
            lot == P * 2 + Fee
            G == Positive(- r.gross)
<1>5. P \in Nat /\ D \in Nat /\ D <= P /\ lot \in Nat /\ G \in Nat
  <2>1. G \in Nat
    BY <1>1 DEF Positive
  <2>. HIDE DEF c, d
  <2>2. P \in Nat /\ D \in Nat /\ D <= P
    BY <1>2, Products
  <2>. HIDE DEF P
  <2>3. lot \in Nat
    BY <2>2, Costs
  <2>. QED
    BY <2>1, <2>2, <2>3
<1>6. LotRisk(p, r.price, r.stop) = lot /\ LotRisk(p, v.price, v.stop) = lot
  BY <1>3 DEF LotRisk
<1>7. /\ Risk(p, r) = G + r.fees + lot * r.qty
      /\ Risk(p, v) = Positive(- v.gross) + v.fees + lot * (r.qty - n)
  BY <1>3, <1>6 DEF Risk
<1>8. Positive(- v.gross) <= G + P * n * 2 /\ Positive(- v.gross) \in Nat
  <2>. DEFINE e == d * n
              z == P * n
  <2>1. e \in Int /\ z \in Nat /\ Positive(e) <= D * n /\ D * n <= z /\ D * n \in Nat
    <3>. HIDE DEF d
    <3>1. e \in Int /\ Positive(e) <= D * n
      BY <1>2, Products
    <3>. HIDE DEF e, D, P
    <3>2. z \in Nat /\ D * n <= z /\ D * n \in Nat
      BY <1>5
    <3>. QED
      BY <3>1, <3>2
  <2>2. - v.gross = (- r.gross) + (e + e)
    BY <1>1, <1>4, <2>1
  <2>. HIDE DEF e, z, D, P, G, v
  <2>3. /\ Positive((- r.gross) + (e + e)) <= Positive(- r.gross) + Positive(e + e)
        /\ Positive(e + e) <= Positive(e) + Positive(e)
        /\ Positive(e) \in Nat /\ Positive(e + e) \in Nat /\ Positive((- r.gross) + (e + e)) \in Nat
    <3>. DEFINE g == - r.gross
                f == e + e
    <3>1. g \in Int /\ f \in Int
      BY <1>1, <2>1
    <3>2. Positive(f) <= Positive(e) + Positive(e) /\ Positive(e) \in Nat
      BY <2>1, Products
    <3>. HIDE DEF g, f
    <3>3. Positive(g + f) <= Positive(g) + Positive(f) /\ Positive(f) \in Nat /\ Positive(g + f) \in Nat
      BY <3>1 DEF Positive
    <3>. QED
      BY <3>2, <3>3 DEF g, f
  <2>4. Positive(- r.gross) = G /\ z = P * n
    BY DEF G, z
  <2>5. P * n * 2 = z + z
    BY <2>1, <2>4
  <2>. QED
    BY <2>1, <2>2, <2>3, <2>4, <2>5, <1>5
<1>9. lot * (r.qty - n) = lot * r.qty - lot * n /\ lot * n = P * n * 2 + n * Fee
  BY <1>1, <1>5, Costs
<1>. DEFINE A == P * n * 2 B == n * Fee C == lot * r.qty E == lot * n
<1>10. A \in Nat /\ B \in Nat /\ C \in Nat /\ E \in Nat
  BY <1>1, <1>5, Costs
<1>. QED
  <2>1. v.fees = r.fees + B /\ Positive(- v.gross) <= G + A /\ lot * (r.qty - n) = C - E /\ E = A + B
    BY <1>3, <1>8, <1>9
  <2>. HIDE DEF A, B, C, E, v, G, lot
  <2>2. Risk(p, r) = G + r.fees + C /\ Risk(p, v) = Positive(- v.gross) + v.fees + (C - E)
    BY <1>7, <2>1 DEF C
  <2>3. Risk(p, v) <= Risk(p, r)
    BY <1>1, <1>5, <1>8, <1>10, <2>1, <2>2
  <2>. QED
    BY <2>3 DEF v
-----------------------------------------------------------------------------
(* The branches of a quote *)

(* The step gives run p a record that is again in order; only an exit closes   *)
(* it, and closes it now.                                                      *)
Kept(p) ==
  \E v : /\ RunOK(p, v)
         /\ v.state = "CLOSED" => v.closed = todo.received /\ ProtectionExit(p)
         /\ runs' = [runs EXCEPT ![p] = v]

LEMMA TodoFields ==
  ASSUME LoopTypes, NewEvent
  PROVE  todo.price \in Nat /\ todo.received \in Nat /\ todo.at \in Nat
  BY ArgsFields, Bounds DEF LoopTypes, NewEvent, Times

LEMMA KeptAsIs ==
  ASSUME NEW p \in Plans, RunOK(p, runs[p]), Active(p), Turn(p, runs[p])
  PROVE  Kept(p)
  BY DEF Kept, Turn, Active

LEMMA KeptEnded ==
  ASSUME NEW p \in Plans, RunOK(p, runs[p]), NEW state \in {"CANCELLED", "EXPIRED", "REJECTED"},
         Turn(p, Ended(runs[p], state))
  PROVE  Kept(p)
PROOF
<1>. DEFINE v == Ended(runs[p], state)
<1>1. state \in RunStates /\ runs[p] \in RunTypes
  BY DEF RunStates, RunOK
<1>2. v \in RunTypes /\ v.state = state /\ v.pending = "none"
  BY <1>1, EndedFields
<1>. HIDE DEF v
<1>3. RunOK(p, v)
  BY <1>2 DEF RunOK
<1>. QED
  BY <1>2, <1>3 DEF Kept, Turn, v

LEMMA KeptCleared ==
  ASSUME NEW p \in Plans, RunOK(p, runs[p]), runs[p].state = "OPEN", Turn(p, Cleared(runs[p]))
  PROVE  Kept(p)
PROOF
<1>. DEFINE r == runs[p] v == Cleared(r)
<1>1. r \in RunTypes /\ OpenOK(p, r)
  BY DEF RunOK
<1>2. /\ v \in RunTypes /\ v.pending = "none" /\ v.state = "OPEN" /\ v.bracket = r.bracket
      /\ v.qty = r.qty /\ v.stop = r.stop /\ v.gross = r.gross /\ v.fees = r.fees
      /\ v.completed = r.completed /\ v.budget = r.budget /\ v.original = r.original /\ v.price = r.price
  BY <1>1, ClearedFields DEF SameEntry
<1>. HIDE DEF v, r
<1>3. Risk(p, v) = Risk(p, r)
  BY <1>2 DEF Risk
<1>4. OpenOK(p, v)
  BY <1>1, <1>2, <1>3 DEF OpenOK
<1>5. RunOK(p, v)
  BY <1>2, <1>4 DEF RunOK, r
<1>. QED
  BY <1>2, <1>5 DEF Kept, Turn, v, r

(* A quote that is not at the exit lies before the stop. *)
LEMMA BeforeStop ==
  ASSUME NEW p \in Plans, runs[p] \in RunTypes, LoopTypes, NewEvent,
         runs[p].state = "OPEN", ~AtExit(p)
  PROVE  Plan[p].sign * (todo.price - runs[p].stop) > 0
PROOF
<1>1. runs[p].stop \in Int /\ todo.price \in Nat /\ Plan[p].sign \in {1, -1}
  BY RunFields, TodoFields, PlanFields
<1>. QED
  BY <1>1 DEF AtExit, Beyond

LEMMA AnswersPending ==
  ASSUME NEW p \in Plans, RunOK(p, runs[p]), Answers(p)
  PROVE  /\ runs[p].pending # "none" /\ ~AtExit(p)
         /\ runs[p].pending = "ENTRY" <=> runs[p].state = "ENTRY_PENDING"
         /\ runs[p].pending # "ENTRY" => runs[p].state = "OPEN"
  BY RunFields DEF RunOK, Answers, Active

LEMMA KeptStopMoves ==
  ASSUME NEW p \in Plans, RunOK(p, runs[p]), LoopTypes, NewEvent, StopMoves(p)
  PROVE  Kept(p)
PROOF
<1>. DEFINE r == runs[p] stop == runs[p].pendingStop c == Cleared(r)
            v == [c EXCEPT !.stop = stop, !.bracket = <<r.qty, stop>>]
<1>1. r.state = "OPEN" /\ r \in RunTypes /\ OpenOK(p, r)
  BY AnswersPending DEF StopMoves, Reaches, RunOK
<1>2. CASE ~(~Beyond(p, stop) /\ Plan[p].sign * (stop - r.stop) > 0)
  BY <1>1, <1>2, KeptCleared DEF StopMoves
<1>3. CASE ~Beyond(p, stop) /\ Plan[p].sign * (stop - r.stop) > 0
  <2>1. /\ c \in RunTypes /\ c.pending = "none" /\ c.state = "OPEN"
        /\ c.qty = r.qty /\ c.stop = r.stop /\ c.gross = r.gross /\ c.fees = r.fees
        /\ c.completed = r.completed /\ c.budget = r.budget /\ c.original = r.original /\ c.price = r.price
    BY <1>1, ClearedFields DEF SameEntry
  <2>2. stop \in Int /\ <<r.qty, stop>> \in Nat \X Int
    BY <1>1, RunFields
  <2>3. Turn(p, v)
    BY <1>3 DEF StopMoves
  <2>4. Plan[p].sign * (stop - r.stop) > 0
    BY <1>3
  <2>10. Plan[p].sign * (Plan[p].target - stop) > 0
    <3>1. ~AtExit(p)
      BY AnswersPending DEF StopMoves, Reaches
    <3>2. ~Beyond(p, stop) /\ ~Attained(p, Plan[p].target)
      BY <1>1, <1>3, <3>1 DEF AtExit
    <3>. HIDE DEF stop
    <3>3. /\ ~(Plan[p].sign * (todo.price - stop) <= 0)
          /\ ~(Plan[p].sign * (todo.price - Plan[p].target) >= 0)
      BY <3>2 DEF Beyond, Attained
    <3>4. stop \in Int /\ todo.price \in Int /\ Plan[p].target \in Int /\ Plan[p].sign \in {1, -1}
      BY <2>2, TodoFields, PlanFields
    <3>. QED
      BY <3>3, <3>4
  <2>. HIDE DEF c, stop
  <2>5. /\ v \in RunTypes /\ v.pending = "none" /\ v.state = "OPEN" /\ v.bracket = <<r.qty, stop>>
        /\ v.qty = c.qty /\ v.stop = stop /\ v.gross = c.gross /\ v.fees = c.fees
        /\ v.completed = c.completed /\ v.budget = c.budget /\ v.original = c.original /\ v.price = c.price
    BY <2>1, <2>2 DEF RunTypes
  <2>. HIDE DEF v, r
  <2>6. Risk(p, v) <= Risk(p, r)
    BY <1>1, <2>1, <2>4, <2>5, BetterStop
  <2>7. Risk(p, v) \in Int /\ Risk(p, r) \in Int /\ r.budget \in Nat
    BY <1>1, <2>5, RiskType, RunFields
  <2>8. OpenOK(p, v)
    BY <1>1, <2>1, <2>5, <2>6, <2>7 DEF OpenOK
  <2>9. RunOK(p, v)
    BY <2>5, <2>8, <2>10 DEF RunOK
  <2>. QED
    BY <2>3, <2>5, <2>9 DEF Kept, Turn
<1>. QED
  BY <1>2, <1>3

LEMMA KeptPartial ==
  ASSUME NEW p \in Plans, RunOK(p, runs[p]), LoopTypes, NewEvent, PartialFills(p)
  PROVE  Kept(p)
PROOF
<1>. DEFINE r == runs[p]
            i == r.pendingRule
            n == PartialQuantity(p, i, r.original)
            fill == todo.price - Plan[p].sign * Slippage
            w == Reduced(p, r, n, fill)
            c == Cleared(w)
            v == [c EXCEPT !.completed = @ \cup {i}]
<1>1. /\ r.state = "OPEN" /\ r \in RunTypes /\ OpenOK(p, r) /\ ~AtExit(p)
      /\ r.pending = "SELECTED_PARTIAL"
  BY AnswersPending DEF PartialFills, Reaches, RunOK
<1>2. i \in Rules(p) /\ i \notin r.completed /\ n < r.qty /\ r.completed \subseteq Rules(p)
  BY <1>1 DEF OpenOK
<1>3. n \in Nat /\ r.original \in Nat /\ r.qty \in Nat
  BY <1>1, <1>2, RunFields, PartialQuantityType
<1>4. fill \in Int /\ todo.price \in Int
  BY TodoFields, PlanFields, Costs
<1>5. Plan[p].sign * (todo.price - r.stop) >= 0
  <2>1. Plan[p].sign * (todo.price - r.stop) > 0
    BY <1>1, BeforeStop
  <2>2. Plan[p].sign * (todo.price - r.stop) \in Int
    <3>1. r.stop \in Int /\ Plan[p].sign \in Int
      BY <1>1, RunFields, PlanFields
    <3>. HIDE DEF r
    <3>. QED
      BY <1>4, <3>1
  <2>. QED
    BY <2>1, <2>2
<1>6. Plan[p].sign * (fill - (todo.price - Plan[p].sign * Slippage)) >= 0
  BY <1>4, PlanFields
<1>7. Turn(p, v)
  BY DEF PartialFills
<1>. HIDE DEF r, n, fill
<1>8. Risk(p, w) <= Risk(p, r)
  BY <1>1, <1>2, <1>3, <1>4, <1>5, <1>6, CloseRisk
<1>9. /\ w \in RunTypes /\ w.qty = r.qty - n /\ w.stop = r.stop /\ w.bracket = <<r.qty - n, r.stop>>
      /\ w.state = r.state /\ w.completed = r.completed
      /\ w.budget = r.budget /\ w.original = r.original
  BY <1>1, <1>2, <1>3, <1>4, ReducedFields DEF SameEntry
<1>. HIDE DEF w
<1>10. /\ c \in RunTypes /\ c.pending = "none" /\ c.state = w.state /\ c.bracket = w.bracket
       /\ c.qty = w.qty /\ c.stop = w.stop /\ c.gross = w.gross /\ c.fees = w.fees
       /\ c.completed = w.completed /\ c.budget = w.budget /\ c.original = w.original /\ c.price = w.price
  BY <1>9, ClearedFields DEF SameEntry
<1>11. i \in Nat /\ c.completed \in SUBSET Nat
  BY <1>2, <1>10, RuleIsNat, RunFields
<1>. HIDE DEF c, i
<1>12. /\ v \in RunTypes /\ v.pending = "none" /\ v.state = c.state /\ v.bracket = c.bracket
       /\ v.qty = c.qty /\ v.stop = c.stop /\ v.gross = c.gross /\ v.fees = c.fees
       /\ v.completed = c.completed \cup {i} /\ v.budget = c.budget /\ v.original = c.original
       /\ v.price = c.price
  BY <1>10, <1>11 DEF RunTypes
<1>. HIDE DEF v
<1>13. Risk(p, v) = Risk(p, w)
  BY <1>10, <1>12 DEF Risk
<1>14. /\ PartialSum(p, r.completed, r.original) \in Nat
       /\ PartialSum(p, r.completed \cup {i}, r.original)
            = PartialSum(p, r.completed, r.original) + n
  BY <1>2, <1>3, PartialSumAdds DEF n, i
<1>15. v.qty = v.original - PartialSum(p, v.completed, v.original)
  <2>1. r.qty = r.original - PartialSum(p, r.completed, r.original)
    BY <1>1 DEF OpenOK
  <2>2. /\ v.completed = r.completed \cup {i} /\ v.original = r.original /\ v.qty = r.qty - n
    BY <1>9, <1>10, <1>12
  <2>. QED
    BY <1>3, <1>14, <2>1, <2>2
<1>16. Risk(p, w) \in Int /\ Risk(p, r) \in Int /\ r.budget \in Nat /\ Risk(p, r) <= r.budget
  BY <1>1, <1>9, RiskType, RunFields DEF OpenOK
<1>17. Risk(p, v) <= v.budget
  BY <1>8, <1>9, <1>10, <1>12, <1>13, <1>16
<1>18. v.qty >= 1 /\ v.completed \subseteq Rules(p) /\ v.bracket = <<v.qty, v.stop>>
  BY <1>2, <1>3, <1>9, <1>10, <1>12
<1>20. Plan[p].sign * (Plan[p].target - v.stop) > 0
  BY <1>1, <1>9, <1>10, <1>12 DEF RunOK, r
<1>19. RunOK(p, v)
  BY <1>1, <1>9, <1>10, <1>12, <1>15, <1>17, <1>18, <1>20 DEF RunOK, OpenOK
<1>. QED
  BY <1>1, <1>7, <1>9, <1>10, <1>12, <1>19 DEF Kept, Turn, r

LEMMA KeptEntry ==
  ASSUME NEW p \in Plans, RunOK(p, runs[p]), LoopTypes, NewEvent, EntryFills(p)
  PROVE  Kept(p)
PROOF
<1>. DEFINE r == runs[p] fill == EntryFill(p) v == Entered(p, r, fill)
<1>1. r.state = "ENTRY_PENDING" /\ r \in RunTypes /\ r.original >= 1 /\ r.completed = {}
  BY AnswersPending DEF EntryFills, Reaches, RunOK
<1>2. CASE Turn(p, Ended(r, "REJECTED"))
  BY <1>2, KeptEnded
<1>3. CASE Affordable(p, r, fill) /\ Turn(p, v)
  <2>1. fill \in Int
    BY TodoFields, PlanFields, Costs DEF EntryFill
  <2>2. Risk(p, v) <= r.budget
    BY <1>3 DEF Affordable
  <2>3. /\ v \in RunTypes /\ v.state = "OPEN" /\ v.pending = "none" /\ v.qty = r.original
        /\ v.stop = r.stop /\ v.bracket = <<r.original, r.stop>> /\ v.completed = r.completed
        /\ v.budget = r.budget /\ v.original = r.original
    BY <1>1, <2>1, EnteredFields
  <2>4. r.original \in Nat
    BY <1>1, RunFields
  <2>. HIDE DEF v, r
  <2>5. PartialSum(p, {}, r.original) = 0
    BY <2>4, PartialSumEmpty
  <2>6. OpenOK(p, v)
    BY <1>1, <2>2, <2>3, <2>4, <2>5 DEF OpenOK
  <2>7. RunOK(p, v)
    BY <1>1, <2>3, <2>6 DEF RunOK, r
  <2>. QED
    BY <1>3, <2>3, <2>7 DEF Kept, Turn, r
<1>. QED
  BY <1>2, <1>3 DEF EntryFills

LEMMA KeptExit ==
  ASSUME NEW p \in Plans, RunOK(p, runs[p]), LoopTypes, NewEvent, ProtectionExit(p)
  PROVE  Kept(p)
PROOF
<1>. DEFINE r == runs[p]
            fill == IF Beyond(p, r.stop) THEN todo.price - Plan[p].sign * Slippage ELSE Plan[p].target
            w == Reduced(p, r, r.qty, fill)
            e == Ended(w, "CLOSED")
            at == todo.received
            v == [e EXCEPT !.closed = at]
<1>1. r \in RunTypes /\ r.qty \in Nat /\ at \in Nat
  BY RunFields, TodoFields DEF RunOK
<1>2. fill \in Int
  BY TodoFields, PlanFields, Costs
<1>3. Turn(p, v)
  BY DEF ProtectionExit
<1>. HIDE DEF r, fill, at
<1>4. w \in RunTypes /\ w.bracket = <<r.qty - r.qty, r.stop>>
  BY <1>1, <1>2, ReducedFields
<1>. HIDE DEF w
<1>5. e \in RunTypes /\ e.state = "CLOSED" /\ e.pending = "none" /\ e.bracket = w.bracket
  BY <1>4, EndedFields DEF RunStates
<1>. HIDE DEF e
<1>6. /\ v \in RunTypes /\ v.state = "CLOSED" /\ v.pending = "none" /\ v.bracket = e.bracket
      /\ v.closed = at
  BY <1>1, <1>5 DEF RunTypes
<1>. HIDE DEF v
<1>7. v.bracket[1] = 0
  BY <1>1, <1>4, <1>5, <1>6
<1>8. RunOK(p, v)
  BY <1>6, <1>7 DEF RunOK
<1>. QED
  BY <1>3, <1>6, <1>8 DEF Kept, Turn, at

LEMMA KeptProposal ==
  ASSUME NEW p \in Plans, RunOK(p, runs[p]), LoopTypes, NewEvent,
         \/ ProposeStop(p)
         \/ \E i \in Rules(p) : ProposePartial(p, i)
  PROVE  Kept(p)
PROOF
<1>. DEFINE r == runs[p] at == todo.received
<1>1. r.state = "OPEN" /\ r \in RunTypes /\ OpenOK(p, r) /\ at \in Nat
  BY TodoFields DEF RunOK, ProposeStop, ProposePartial, Proposing
<1>2. CASE ProposeStop(p)
  <2>. DEFINE s == NewsStop(p)
              v == [r EXCEPT !.pending = "STOP", !.pendingStop = s, !.requested = at]
  <2>1. Turn(p, v)
    BY <1>2 DEF ProposeStop
  <2>2. s \in Int
    BY <1>1, RunFields, PlanFields, Costs DEF NewsStop
  <2>. HIDE DEF s, at
  <2>3. /\ v \in RunTypes /\ v.pending = "STOP" /\ v.state = r.state /\ v.bracket = r.bracket
        /\ v.qty = r.qty /\ v.stop = r.stop /\ v.gross = r.gross /\ v.fees = r.fees
        /\ v.completed = r.completed /\ v.budget = r.budget /\ v.original = r.original /\ v.price = r.price
    BY <1>1, <2>2 DEF RunTypes
  <2>. HIDE DEF v
  <2>4. Risk(p, v) = Risk(p, r)
    BY <2>3 DEF Risk
  <2>5. RunOK(p, v)
    BY <1>1, <2>3, <2>4 DEF RunOK, OpenOK
  <2>. QED
    BY <1>1, <2>1, <2>3, <2>5 DEF Kept, Turn
<1>3. ASSUME NEW i \in Rules(p), ProposePartial(p, i) PROVE Kept(p)
  <2>. DEFINE v == [r EXCEPT !.pending = "SELECTED_PARTIAL", !.pendingRule = i, !.requested = at]
  <2>1. Turn(p, v)
    BY <1>3 DEF ProposePartial
  <2>2. i \in Nat /\ i \notin r.completed /\ PartialQuantity(p, i, r.original) < r.qty
    BY <1>3, RuleIsNat DEF ProposePartial, FirstProposed, Proposable, RunnerLeft
  <2>. HIDE DEF at
  <2>3. /\ v \in RunTypes /\ v.pending = "SELECTED_PARTIAL" /\ v.state = r.state
        /\ v.bracket = r.bracket /\ v.pendingRule = i
        /\ v.qty = r.qty /\ v.stop = r.stop /\ v.gross = r.gross /\ v.fees = r.fees
        /\ v.completed = r.completed /\ v.budget = r.budget /\ v.original = r.original /\ v.price = r.price
    BY <1>1, <2>2 DEF RunTypes
  <2>. HIDE DEF v
  <2>4. Risk(p, v) = Risk(p, r)
    BY <2>3 DEF Risk
  <2>5. RunOK(p, v)
    BY <1>1, <1>3, <2>2, <2>3, <2>4 DEF RunOK, OpenOK
  <2>. QED
    BY <1>1, <2>1, <2>3, <2>5 DEF Kept, Turn
<1>. QED
  BY <1>2, <1>3

(* Every branch of a quote keeps its run in order. *)
LEMMA QuoteKept ==
  ASSUME NEW p \in Plans, RunOK(p, runs[p]), LoopTypes, Quote(p)
  PROVE  Kept(p)
PROOF
<1>1. NewEvent
  BY DEF Quote
<1>2. CASE ProtectionExit(p)
  BY <1>1, <1>2, KeptExit
<1>3. CASE GuardCancels(p)
  BY <1>3, KeptEnded DEF GuardCancels
<1>4. CASE WaitForLaterQuote(p)
  BY <1>4, KeptAsIs DEF WaitForLaterQuote
<1>9. Answers(p) => Active(p)
  BY DEF Answers
<1>5. CASE NqGuard(p)
  <2>1. Turn(p, Ended(runs[p], "CANCELLED")) \/ Turn(p, runs[p])
    BY <1>5 DEF NqGuard
  <2>. QED
    BY <1>5, <1>9, <2>1, KeptEnded, KeptAsIs DEF NqGuard
<1>6. CASE Settle(p)
  <2>1. CASE EntryExpires(p)
    BY <2>1, KeptEnded DEF EntryExpires
  <2>2. CASE RetraceMissed(p)
    BY <2>2, KeptEnded DEF RetraceMissed
  <2>3. CASE RetraceWaits(p) \/ AckHeld(p)
    BY <1>9, <2>3, KeptAsIs DEF RetraceWaits, AckHeld, Reaches
  <2>4. CASE AckRejected(p)
    <3>1. CASE runs[p].pending = "ENTRY"
      <4>1. Turn(p, Ended(runs[p], "REJECTED"))
        BY <2>4, <3>1 DEF AckRejected
      <4>. QED
        BY <4>1, KeptEnded
    <3>2. CASE runs[p].pending # "ENTRY"
      <4>1. Turn(p, Cleared(runs[p]))
        BY <2>4, <3>2 DEF AckRejected
      <4>2. runs[p].state = "OPEN"
        BY <2>4, <3>2, AnswersPending DEF AckRejected, Reaches
      <4>. QED
        BY <4>1, <4>2, KeptCleared
    <3>. QED
      BY <3>1, <3>2
  <2>5. CASE StopMoves(p)
    BY <1>1, <2>5, KeptStopMoves
  <2>6. CASE PartialFills(p)
    BY <1>1, <2>6, KeptPartial
  <2>7. CASE EntryFills(p)
    BY <1>1, <2>7, KeptEntry
  <2>. QED
    BY <1>6, <2>1, <2>2, <2>3, <2>4, <2>5, <2>6, <2>7 DEF Settle
<1>7. CASE ProposeStop(p) \/ \E i \in Rules(p) : ProposePartial(p, i)
  BY <1>1, <1>7, KeptProposal
<1>8. CASE NoProposal(p)
  BY <1>8, KeptAsIs DEF NoProposal, Proposing, Active
<1>. QED
  BY <1>2, <1>3, <1>4, <1>5, <1>6, <1>7, <1>8 DEF Quote

(* A submitted plan starts in order. *)
LEMMA SubmitKept ==
  ASSUME NEW p \in Plans, NEW guard \in GuardBudgets, LoopTypes, Submit(p, guard)
  PROVE  Kept(p)
PROOF
<1>. DEFINE budget == Lower(Plan[p].budget, guard)
            quantity == Funded(p, budget)
            stop == Plan[p].stop
            v == [NoRun EXCEPT !.state = "ENTRY_PENDING", !.budget = budget, !.original = quantity,
                               !.stop = stop, !.pending = "ENTRY", !.requested = now]
<1>1. budget \in Nat
  BY PlanFields, PaperTradingAssumption DEF PaperTradingAssumption, Lower
<1>2. quantity \in Nat /\ quantity >= 1
  <2>1. PerContract(p) \in Int /\ PerContract(p) > 0
    <3>1. Plan[p].sign * (Plan[p].entry - Plan[p].stop) > 0
      BY DEF Submit, PlanInOrder
    <3>. DEFINE x == Plan[p].sign * (Plan[p].entry - Plan[p].stop)
    <3>2. x \in Int /\ x > 0
      BY <3>1, PlanFields
    <3>. HIDE DEF x
    <3>3. PerContract(p) = (x + 2 * Slippage) * 2 + 2 * Fee
      BY DEF PerContract, x
    <3>. QED
      BY <3>2, <3>3, Costs
  <2>2. budget \div PerContract(p) \in Int
    <3>. DEFINE c == PerContract(p)
    <3>. HIDE DEF c, budget
    <3>1. c \in Int /\ c > 0
      BY <2>1 DEF c
    <3>2. budget \div c \in Int
      BY <1>1, <3>1
    <3>. QED
      BY <3>2 DEF c
  <2>3. quantity \in Int
    BY <2>1, <2>2, PlanFields DEF Funded, Lower
  <2>4. quantity >= 1
    BY DEF Submit
  <2>. QED
    BY <2>3, <2>4
<1>3. now \in Nat /\ stop \in Int
  BY RowIds, PlanFields
<1>4. runs' = [runs EXCEPT ![p] = v]
  BY DEF Submit
<1>. HIDE DEF budget, quantity, stop
<1>5. /\ v \in RunTypes /\ v.state = "ENTRY_PENDING" /\ v.pending = "ENTRY"
      /\ v.original = quantity /\ v.completed = {} /\ v.stop = stop
  <2>1. NoRun \in RunTypes /\ NoRun.completed = {}
    <3>1. {} \in SUBSET Nat /\ <<0, 0>> \in Nat \X Int
      OBVIOUS
    <3>. QED
      BY <3>1 DEF NoRun, RunTypes, RunStates
  <2>2. "ENTRY_PENDING" \in RunStates
    BY DEF RunStates
  <2>. DEFINE z == NoRun
  <2>. HIDE DEF z
  <2>3. /\ [z EXCEPT !.state = "ENTRY_PENDING", !.budget = budget, !.original = quantity,
                     !.stop = stop, !.pending = "ENTRY", !.requested = now] = v
        /\ z \in RunTypes /\ z.completed = {}
    BY <2>1 DEF z
  <2>. HIDE DEF v
  <2>. QED
    BY <1>1, <1>2, <1>3, <2>2, <2>3 DEF RunTypes
<1>. HIDE DEF v
<1>7. Plan[p].sign * (Plan[p].target - stop) > 0
  <2>1. Plan[p].sign * (Plan[p].entry - stop) > 0 /\ Plan[p].sign * (Plan[p].target - Plan[p].entry) > 0
    BY DEF Submit, PlanInOrder, stop
  <2>. QED
    BY <1>3, <2>1, PlanFields
<1>6. RunOK(p, v)
  BY <1>2, <1>5, <1>7 DEF RunOK
<1>. QED
  BY <1>4, <1>5, <1>6 DEF Kept
-----------------------------------------------------------------------------
(* The day *)

Lost(d) == {p \in Plans : runs[p].state = "CLOSED" /\ runs[p].fees > runs[p].gross
                          /\ Day(runs[p].closed) = d}

(* One run at a time, all closes in the past; while a run is active, no day    *)
(* that is not over has lost more than once.                                   *)
DayInOrder ==
  /\ \A p, q \in Plans : Active(p) /\ Active(q) => p = q
  /\ \A p \in Plans : runs[p].state = "CLOSED" => runs[p].closed <= cursor
  /\ \A t \in Times : Cardinality(Lost(Day(t))) <= 2
  /\ ActivePlans # {} => \A t \in Times : t >= cursor => Cardinality(Lost(Day(t))) <= 1

RunsInOrder == /\ runs \in [Plans -> RunTypes]
               /\ \A p \in Plans : RunOK(p, runs[p])

PaperInv == LoopTypes /\ RowsAgree /\ RunsInOrder /\ DayInOrder

LEMMA KeptInOrder ==
  ASSUME NEW p \in Plans, RunsInOrder, Kept(p)
  PROVE  RunsInOrder'
PROOF
<1>1. PICK v : RunOK(p, v) /\ runs' = [runs EXCEPT ![p] = v]
  BY DEF Kept
<1>2. v \in RunTypes
  BY <1>1 DEF RunOK
<1>3. runs' \in [Plans -> RunTypes]
  BY <1>1, <1>2 DEF RunsInOrder
<1>4. \A q \in Plans : runs'[q] = IF q = p THEN v ELSE runs[q]
  BY <1>1 DEF RunsInOrder
<1>5. ASSUME NEW q \in Plans PROVE RunOK(q, runs'[q])
  BY <1>1, <1>4 DEF RunsInOrder
<1>. QED
  BY <1>3, <1>5 DEF RunsInOrder

LEMMA SameRuns ==
  ASSUME RunsInOrder, runs' = runs
  PROVE  RunsInOrder'
  BY DEF RunsInOrder

LEMMA RunsStep ==
  ASSUME LoopTypes, RunsInOrder, [Next]_vars
  PROVE  RunsInOrder'
PROOF
<1>1. ASSUME NEW p \in Plans, NEW guard \in GuardBudgets, Submit(p, guard) PROVE RunsInOrder'
  BY <1>1, SubmitKept, KeptInOrder
<1>2. ASSUME NEW p \in Plans, Quote(p) PROVE RunsInOrder'
  <2>1. RunOK(p, runs[p])
    BY DEF RunsInOrder
  <2>. QED
    BY <1>2, <2>1, QuoteKept, KeptInOrder
<1>3. CASE runs' = runs
  BY <1>3, SameRuns
<1>4. ASSUME NEW ack \in Acks, NEW signal \in Signals, Store(Observed(ack, signal)) PROVE runs' = runs
  BY <1>4 DEF Store, simulator
<1>5. ApplyAgain \/ ApplyLate \/ ApplyIdle \/ MarkDone => runs' = runs
  BY DEF ApplyAgain, ApplyLate, ApplyIdle, MarkDone, simulator
<1>6. World => runs' = runs
  BY DEF World, NewQuote, PlanReady, Tick, Crash, simulator
<1>7. UNCHANGED vars => runs' = runs
  BY DEF vars, simulator
<1>. QED
  BY <1>1, <1>2, <1>3, <1>4, <1>5, <1>6, <1>7 DEF Next, ProcessOne

(* The days of later times are not earlier. *)
LEMMA DayMonotone ==
  ASSUME NEW a \in Nat, NEW b \in Nat, a <= b
  PROVE  Day(a) \in Nat /\ Day(b) \in Nat /\ Day(a) <= Day(b)
PROOF
<1>1. DayLength \in Nat /\ DayLength > 0
  BY PaperTradingAssumption DEF PaperTradingAssumption
<1>. DEFINE x == a \div DayLength y == b \div DayLength
<1>2. /\ x \in Int /\ DayLength * x <= a /\ a < DayLength * (x + 1)
      /\ y \in Int /\ DayLength * y <= b /\ b < DayLength * (y + 1)
  BY <1>1
<1>. HIDE DEF x, y
<1>3. x <= y
  <2>1. SUFFICES ASSUME y + 1 <= x PROVE FALSE
    BY <1>2
  <2>2. DayLength * (y + 1) <= DayLength * x
    BY <1>1, <1>2, <2>1
  <2>3. DayLength * (y + 1) \in Int /\ DayLength * x \in Int
    BY <1>1, <1>2
  <2>. QED
    BY <1>2, <2>2, <2>3
<1>4. x >= 0 /\ y >= 0
  <2>1. ASSUME NEW z \in Int, z <= -1, DayLength * (z + 1) > 0 PROVE FALSE
    BY <1>1, <2>1
  <2>. QED
    BY <1>1, <1>2, <2>1
<1>. QED
  BY <1>2, <1>3, <1>4 DEF Day, x, y

LEMMA LostFinite ==
  ASSUME NEW d
  PROVE  IsFiniteSet(Lost(d)) /\ Cardinality(Lost(d)) \in Nat
PROOF
<1>1. IsFiniteSet(Plans)
  BY PaperTradingAssumption DEF PaperTradingAssumption
<1>2. Lost(d) \subseteq Plans
  BY DEF Lost
<1>. QED
  BY <1>1, <1>2, FS_Subset, FS_CardinalityType

LEMMA LossesAreLost ==
  ASSUME RunsInOrder, NEW t
  PROVE  LossesOnDay(t) = Cardinality(Lost(Day(t)))
PROOF
<1>1. \A p \in Plans : NetLoss(runs[p]) > 0 <=> runs[p].fees > runs[p].gross
  <2>1. TAKE p \in Plans
  <2>2. runs[p].fees \in Int /\ runs[p].gross \in Int
    BY RunFields DEF RunsInOrder
  <2>. QED
    BY <2>2 DEF NetLoss
<1>. QED
  BY <1>1 DEF LossesOnDay, Lost

(* A run that is not closed by the step leaves every day's losses alone. *)
LEMMA LostSame ==
  ASSUME RunsInOrder, NEW p \in Plans, NEW v, runs[p].state # "CLOSED", v.state # "CLOSED",
         runs' = [runs EXCEPT ![p] = v], NEW d
  PROVE  Lost(d)' = Lost(d)
PROOF
<1>1. \A q \in Plans : runs'[q] = IF q = p THEN v ELSE runs[q]
  BY DEF RunsInOrder
<1>. QED
  BY <1>1 DEF Lost

(* A close adds at most one loss to its own day and none to another. *)
LEMMA LostOneMore ==
  ASSUME RunsInOrder, NEW p \in Plans, NEW v, runs[p].state # "CLOSED",
         runs' = [runs EXCEPT ![p] = v], NEW d
  PROVE  /\ Cardinality(Lost(d)') <= Cardinality(Lost(d)) + 1
         /\ Day(v.closed) # d => Lost(d)' = Lost(d)
PROOF
<1>1. \A q \in Plans : runs'[q] = IF q = p THEN v ELSE runs[q]
  BY DEF RunsInOrder
<1>2. Lost(d)' \in {Lost(d), Lost(d) \cup {p}} /\ p \notin Lost(d)
  BY <1>1 DEF Lost
<1>3. Cardinality(Lost(d) \cup {p}) = Cardinality(Lost(d)) + 1 /\ Cardinality(Lost(d)) \in Nat
  BY <1>2, LostFinite, FS_AddElement
<1>4. Day(v.closed) # d => Lost(d)' = Lost(d)
  BY <1>1 DEF Lost
<1>5. Cardinality(Lost(d)') <= Cardinality(Lost(d)) + 1
  <2>1. CASE Lost(d)' = Lost(d)
    <3>1. Cardinality(Lost(d)') = Cardinality(Lost(d))
      BY <2>1, Zenon
    <3>. QED
      BY <1>3, <3>1
  <2>2. CASE Lost(d)' = Lost(d) \cup {p}
    <3>1. Cardinality(Lost(d)') = Cardinality(Lost(d) \cup {p})
      BY <2>2, Zenon
    <3>. QED
      BY <1>3, <3>1
  <2>. QED
    BY <1>2, <2>1, <2>2
<1>. QED
  BY <1>4, <1>5

LEMMA DayUnchanged ==
  ASSUME DayInOrder, runs' = runs, cursor' = cursor
  PROVE  DayInOrder'
  BY DEF DayInOrder, Active, ActivePlans, Lost

(* Time passes for the simulator while no run is active. *)
LEMMA DayIdle ==
  ASSUME LoopTypes, RunsInOrder, DayInOrder, ApplyIdle
  PROVE  DayInOrder'
PROOF
<1>1. runs' = runs /\ cursor' = todo.received /\ todo.received > cursor /\ ActivePlans = {}
  BY DEF ApplyIdle, Event, NewEvent
<1>2. ActivePlans' = {} /\ \A p \in Plans : Active(p)' = Active(p)
  BY <1>1 DEF ActivePlans, Active
<1>3. todo.received \in Nat /\ cursor \in Int
  BY TodoFields, RowIds DEF ApplyIdle
<1>4. \A p \in Plans : runs'[p].state = "CLOSED" => runs'[p].closed <= cursor'
  <2>1. TAKE p \in Plans
  <2>2. runs[p].closed \in Nat
    BY RunFields DEF RunsInOrder
  <2>. QED
    BY <1>1, <1>3, <2>2 DEF DayInOrder
<1>5. \A d : Lost(d)' = Lost(d)
  BY <1>1 DEF Lost
<1>. QED
  BY <1>2, <1>4, <1>5 DEF DayInOrder

LEMMA DaySubmit ==
  ASSUME LoopTypes, RunsInOrder, DayInOrder,
         NEW p \in Plans, NEW guard \in GuardBudgets, Submit(p, guard)
  PROVE  DayInOrder'
PROOF
<1>1. /\ ActivePlans = {} /\ runs[p].state = "none" /\ cursor' = now /\ now > cursor
      /\ DayOpen
  BY DEF Submit, Consumed, Due
<1>2. PICK v : runs' = [runs EXCEPT ![p] = v] /\ v.state = "ENTRY_PENDING"
  <2>. DEFINE b == Lower(Plan[p].budget, guard)
              v == [NoRun EXCEPT !.state = "ENTRY_PENDING", !.budget = b,
                      !.original = Funded(p, b), !.stop = Plan[p].stop,
                      !.pending = "ENTRY", !.requested = now]
  <2>1. runs' = [runs EXCEPT ![p] = v]
    BY DEF Submit
  <2>2. v.state = "ENTRY_PENDING"
    BY DEF NoRun
  <2>. QED
    BY <2>1, <2>2
<1>3. \A q \in Plans : runs'[q] = IF q = p THEN v ELSE runs[q]
  BY <1>2 DEF RunsInOrder
<1>4. \A d : Lost(d)' = Lost(d)
  BY <1>1, <1>2, LostSame
<1>5. now \in Nat /\ now \in Times /\ cursor \in Int
  BY RowIds DEF LoopTypes
<1>6. \A q \in Plans : runs'[q].state = "CLOSED" => runs'[q].closed <= cursor'
  <2>1. TAKE q \in Plans
  <2>2. runs[q].closed \in Nat
    BY RunFields DEF RunsInOrder
  <2>. QED
    BY <1>1, <1>2, <1>3, <1>5, <2>2 DEF DayInOrder
<1>7. \A q, o \in Plans : Active(q)' /\ Active(o)' => q = o
  BY <1>1, <1>3 DEF ActivePlans, Active
<1>8. ASSUME NEW t \in Times, t >= cursor' PROVE Cardinality(Lost(Day(t))) <= 1
  <2>1. t \in Nat /\ now <= t
    BY <1>1, <1>5, <1>8, Bounds DEF Times
  <2>2. CASE Day(t) = Day(now)
    <3>1. Cardinality(Lost(Day(now))) < 2 /\ Cardinality(Lost(Day(now))) \in Nat
      BY <1>1, LossesAreLost, LostFinite DEF DayOpen
    <3>. QED
      BY <2>2, <3>1
  <2>3. CASE Day(t) # Day(now)
    <3>1. ASSUME NEW q \in Lost(Day(t)) PROVE FALSE
      <4>1. /\ q \in Plans /\ runs[q].state = "CLOSED" /\ Day(runs[q].closed) = Day(t)
        BY <3>1 DEF Lost
      <4>2. runs[q].closed \in Nat /\ runs[q].closed <= now
        <5>1. runs[q].closed \in Nat
          BY <4>1, RunFields DEF RunsInOrder
        <5>. QED
          BY <1>1, <1>5, <4>1, <5>1 DEF DayInOrder
      <4>3. Day(runs[q].closed) <= Day(now) /\ Day(now) <= Day(t) /\ Day(now) \in Nat /\ Day(t) \in Nat
        BY <1>5, <2>1, <4>2, DayMonotone
      <4>. QED
        BY <2>3, <4>1, <4>3
    <3>2. Lost(Day(t)) = {}
      BY <3>1
    <3>. QED
      BY <3>2, FS_EmptySet
  <2>. QED
    BY <2>2, <2>3
<1>. QED
  BY <1>4, <1>6, <1>7, <1>8 DEF DayInOrder

LEMMA QuoteActive ==
  ASSUME NEW p \in Plans, Quote(p)
  PROVE  Active(p)
  BY DEF Quote, Settle, ProtectionExit, AtExit, GuardCancels, WaitForLaterQuote, NqGuard,
         EntryExpires, RetraceMissed, RetraceWaits, AckHeld, AckRejected, StopMoves,
         PartialFills, EntryFills, Reaches, Answers, ProposeStop, ProposePartial, NoProposal,
         Proposing, Active

LEMMA DayQuote ==
  ASSUME LoopTypes, RunsInOrder, DayInOrder, NEW p \in Plans, Quote(p)
  PROVE  DayInOrder'
PROOF
<1>1. NewEvent /\ Event /\ Active(p) /\ RunOK(p, runs[p])
  BY QuoteActive, TurnIsEvent DEF RunsInOrder
<1>2. PICK v : /\ RunOK(p, v)
               /\ v.state = "CLOSED" => v.closed = todo.received
               /\ runs' = [runs EXCEPT ![p] = v]
  BY <1>1, QuoteKept DEF Kept
<1>3. \A q \in Plans : runs'[q] = IF q = p THEN v ELSE runs[q]
  BY <1>2 DEF RunsInOrder
<1>4. /\ cursor' = todo.received /\ cursor' > cursor /\ cursor' \in Nat /\ cursor \in Int
      /\ todo.received \in Times /\ runs[p].state # "CLOSED" /\ ActivePlans # {}
  BY <1>1, TodoFields, RowIds, ArgsFields
     DEF Event, NewEvent, Active, ActivePlans, LoopTypes
<1>5. \A q \in Plans : runs'[q].state = "CLOSED" => runs'[q].closed <= cursor'
  <2>1. TAKE q \in Plans
  <2>2. runs[q].closed \in Nat
    BY RunFields DEF RunsInOrder
  <2>. QED
    BY <1>2, <1>3, <1>4, <2>2 DEF DayInOrder
<1>6. \A q \in Plans : Active(q)' => q = p
  BY <1>1, <1>3 DEF DayInOrder, Active
<1>7. \A t \in Times : t >= cursor => Cardinality(Lost(Day(t))) <= 1
  BY <1>4 DEF DayInOrder
<1>8. CASE v.state # "CLOSED"
  <2>1. \A d : Lost(d)' = Lost(d)
    BY <1>2, <1>4, <1>8, LostSame
  <2>2. \A t \in Times : t >= cursor' => t >= cursor
    BY <1>4, Bounds DEF Times
  <2>3. \A t \in Times : Cardinality(Lost(Day(t)))' = Cardinality(Lost(Day(t)))
    BY <2>1
  <2>4. \A t \in Times : Cardinality(Lost(Day(t)))' <= 2
    BY <2>3 DEF DayInOrder
  <2>5. \A t \in Times : t >= cursor' => Cardinality(Lost(Day(t)))' <= 1
    BY <1>7, <2>2, <2>3
  <2>. QED
    BY <1>5, <1>6, <2>4, <2>5 DEF DayInOrder
<1>9. CASE v.state = "CLOSED"
  <2>1. ActivePlans' = {}
    BY <1>3, <1>6, <1>9 DEF ActivePlans, Active
  <2>2. ASSUME NEW t \in Times PROVE Cardinality(Lost(Day(t))') <= 2
    <3>1. CASE Day(t) # Day(v.closed)
      <4>1. Lost(Day(t))' = Lost(Day(t))
        BY <1>2, <1>4, <3>1, LostOneMore
      <4>. QED
        BY <4>1 DEF DayInOrder
    <3>2. CASE Day(t) = Day(v.closed)
      <4>1. Cardinality(Lost(Day(todo.received))) <= 1
        BY <1>4, <1>7
      <4>2. Cardinality(Lost(Day(t))') <= Cardinality(Lost(Day(t))) + 1
        BY <1>2, <1>4, LostOneMore
      <4>3. Cardinality(Lost(Day(t))) \in Nat /\ Cardinality(Lost(Day(t))) <= 1
        <5>1. Day(t) = Day(todo.received)
          BY <1>2, <1>9, <3>2
        <5>2. Cardinality(Lost(Day(t))) <= 1
          BY <4>1, <5>1
        <5>. QED
          BY <5>2, LostFinite
      <4>4. IsFiniteSet(Lost(Day(t))')
        <5>1. IsFiniteSet(Plans) /\ Lost(Day(t))' \subseteq Plans
          BY PaperTradingAssumption DEF PaperTradingAssumption, Lost
        <5>. QED
          BY <5>1, FS_Subset
      <4>5. Cardinality(Lost(Day(t))') \in Nat
        BY <4>4, FS_CardinalityType
      <4>. QED
        BY <4>2, <4>3, <4>5
    <3>. QED
      BY <3>1, <3>2
  <2>. QED
    BY <1>5, <1>6, <2>1, <2>2 DEF DayInOrder
<1>. QED
  BY <1>8, <1>9

(* No day closes a third loss, across every order of plans and quotes. *)
LEMMA DayStep ==
  ASSUME LoopTypes, RunsInOrder, DayInOrder, [Next]_vars
  PROVE  DayInOrder'
PROOF
<1>1. ASSUME NEW p \in Plans, NEW guard \in GuardBudgets, Submit(p, guard) PROVE DayInOrder'
  BY <1>1, DaySubmit
<1>2. ASSUME NEW p \in Plans, Quote(p) PROVE DayInOrder'
  BY <1>2, DayQuote
<1>3. CASE ApplyIdle
  BY <1>3, DayIdle
<1>4. ASSUME NEW ack \in Acks, NEW signal \in Signals, Store(Observed(ack, signal)) PROVE DayInOrder'
  BY <1>4, DayUnchanged DEF Store, simulator
<1>5. CASE ApplyAgain \/ ApplyLate \/ MarkDone
  BY <1>5, DayUnchanged DEF ApplyAgain, ApplyLate, MarkDone, simulator
<1>6. CASE World
  BY <1>6, DayUnchanged DEF World, NewQuote, PlanReady, Tick, Crash, simulator
<1>7. CASE UNCHANGED vars
  BY <1>7, DayUnchanged DEF vars, simulator
<1>. QED
  BY <1>1, <1>2, <1>3, <1>4, <1>5, <1>6, <1>7 DEF Next, ProcessOne

LEMMA PaperInit ==
  ASSUME Init
  PROVE  PaperInv
PROOF
<1>1. LoopTypes /\ RowsAgree
  BY RowsInit
<1>2. NoRun \in RunTypes /\ NoRun.state = "none" /\ NoRun.pending = "none"
  <2>1. {} \in SUBSET Nat /\ <<0, 0>> \in Nat \X Int
    OBVIOUS
  <2>. QED
    BY <2>1 DEF NoRun, RunTypes, RunStates
<1>3. \A p \in Plans : runs[p] = NoRun
  BY DEF Init
<1>4. RunsInOrder
  BY <1>2, <1>3 DEF Init, RunsInOrder, RunOK
<1>5. ActivePlans = {} /\ \A d : Lost(d) = {}
  BY <1>2, <1>3 DEF ActivePlans, Active, Lost
<1>6. DayInOrder
  BY <1>2, <1>3, <1>5, FS_EmptySet DEF DayInOrder, Active
<1>. QED
  BY <1>1, <1>4, <1>6 DEF PaperInv

LEMMA PaperStep ==
  ASSUME PaperInv, [Next]_vars
  PROVE  PaperInv'
  BY RowsStep, RunsStep, DayStep DEF PaperInv

LEMMA PaperInvariant == Spec => []PaperInv
  BY PaperInit, PaperStep, PTL DEF Spec

(* Every variable of the loop and of the simulator keeps its type (process_one, *)
(* PaperLifecycle).                                                            *)
THEOREM PaperTypeCorrect == Spec => []TypeOK
PROOF
<1>1. PaperInv => TypeOK
  BY DEF PaperInv, RunsInOrder, LoopTypes, TypeOK
<1>. QED
  BY <1>1, PaperInvariant, PTL

(* The stored row makes the retry of a quote after any restart exact, and only  *)
(* what the simulator has applied is marked done (process_one, _event).         *)
THEOREM RetriesExact == Spec => []ReplayIsExact
PROOF
<1>1. PaperInv => ReplayIsExact
  <2>1. SUFFICES ASSUME PaperInv PROVE ReplayIsExact
    OBVIOUS
  <2>. QED
    BY <2>1, RowIds DEF PaperInv, RowsAgree, ReplayIsExact
<1>. QED
  BY <1>1, PaperInvariant, PTL

(* The bracket follows the position, and the position is what was entered less  *)
(* the partials taken, never nothing: for every plan and any number of partials *)
(* (_close, _settle).                                                           *)
THEOREM PositionsKept == Spec => []PositionKept
PROOF
<1>1. PaperInv => PositionKept
  BY DEF PaperInv, RunsInOrder, RunOK, OpenOK, PositionKept
<1>. QED
  BY <1>1, PaperInvariant, PTL

(* An open run never risks more than the budget it was sized to, for every     *)
(* price, slippage, fee and quantity (_risk, _settle).                          *)
THEOREM RiskAlwaysWithinBudget == Spec => []RiskWithinBudget
PROOF
<1>1. PaperInv => RiskWithinBudget
  BY DEF PaperInv, RunsInOrder, RunOK, OpenOK, RiskWithinBudget
<1>. QED
  BY <1>1, PaperInvariant, PTL

(* No New York day closes a third loss, whatever days the runs were entered on  *)
(* (losses_on_day, submit).                                                     *)
THEOREM TwoLossesAlways == Spec => []TwoLossesADay
PROOF
<1>1. PaperInv => TwoLossesADay
  BY DEF PaperInv, DayInOrder, Lost, TwoLossesADay
<1>. QED
  BY <1>1, PaperInvariant, PTL

-----------------------------------------------------------------------------
(* What a step may do *)

LEMMA TurnAt ==
  ASSUME RunsInOrder, NEW p \in Plans, NEW r, Turn(p, r)
  PROVE  runs'[p] = r /\ \A q \in Plans : q # p => runs'[q] = runs[q]
  BY DEF RunsInOrder, Turn

(* At its exit a run only exits. *)
LEMMA QuoteShape ==
  ASSUME NEW p \in Plans, Quote(p)
  PROVE  \/ ProtectionExit(p)
         \/ /\ ~AtExit(p)
            /\ Answers(p) \/ runs[p].pending = "none" \/ GuardCancels(p) \/ Turn(p, runs[p])
  BY DEF Quote, Settle, GuardCancels, WaitForLaterQuote, NqGuard,
         EntryExpires, RetraceMissed, RetraceWaits, AckHeld, AckRejected, StopMoves,
         PartialFills, EntryFills, Reaches, Answers, ProposeStop, ProposePartial, NoProposal,
         Proposing

(* What an exit costs at a quote no worse than the stop. *)
LEMMA ExitCost ==
  ASSUME LoopTypes, RunsInOrder, NEW p \in Plans, NewEvent, ProtectionExit(p)
  PROVE  /\ runs'[p].state = "CLOSED"
         /\ Plan[p].sign * (todo.price - runs[p].stop) >= 0
              => NetLoss(runs'[p]) <= runs[p].budget
PROOF
<1>. DEFINE r == runs[p]
            s == Plan[p].sign
            fill == IF Beyond(p, r.stop) THEN todo.price - s * Slippage ELSE Plan[p].target
            w == Reduced(p, r, r.qty, fill)
            e == Ended(w, "CLOSED")
            at == todo.received
            v == [e EXCEPT !.closed = at]
<1>1. /\ r \in RunTypes /\ r.qty \in Nat /\ at \in Nat /\ RunOK(p, r) /\ OpenOK(p, r)
      /\ r.state = "OPEN" /\ r.stop \in Int /\ r.budget \in Nat
  <2>1. r \in RunTypes /\ RunOK(p, r) /\ r.state = "OPEN"
    BY DEF RunsInOrder, ProtectionExit, AtExit
  <2>. QED
    BY <2>1, RunFields, TodoFields DEF RunOK
<1>2. fill \in Int /\ todo.price \in Int /\ s \in {1, -1} /\ Slippage \in Nat /\ Plan[p].target \in Int
  BY TodoFields, PlanFields, Costs
<1>3. Turn(p, v)
  BY DEF ProtectionExit
<1>4. runs'[p] = v
  BY <1>3, TurnAt
<1>5. ASSUME s * (todo.price - r.stop) >= 0 PROVE Risk(p, w) <= Risk(p, r)
  <2>1. CASE Beyond(p, r.stop)
    <3>1. fill = todo.price - s * Slippage
      BY <2>1
    <3>2. s * (fill - (todo.price - s * Slippage)) >= 0
      BY <1>2, <3>1
    <3>. HIDE DEF fill, r
    <3>. QED
      BY <1>1, <1>2, <1>5, <3>2, CloseRisk
  <2>2. CASE ~Beyond(p, r.stop)
    <3>1. fill = Plan[p].target
      BY <2>2
    <3>2. s * (fill - (Plan[p].target - s * Slippage)) >= 0
      BY <1>2, <3>1
    <3>3. s * (Plan[p].target - r.stop) >= 0
      <4>1. s * (Plan[p].target - r.stop) > 0
        BY <1>1 DEF RunOK
      <4>. HIDE DEF r
      <4>. QED
        BY <1>1, <1>2, <4>1
    <3>. HIDE DEF fill, r
    <3>. QED
      BY <1>1, <1>2, <3>2, <3>3, CloseRisk
  <2>. QED
    BY <2>1, <2>2
<1>. HIDE DEF r, fill, at
<1>6. w \in RunTypes /\ w.qty = r.qty - r.qty
  BY <1>1, <1>2, ReducedFields
<1>. HIDE DEF w
<1>7. e \in RunTypes /\ e.state = "CLOSED" /\ e.gross = w.gross /\ e.fees = w.fees
  BY <1>6, EndedFields DEF RunStates
<1>. HIDE DEF e
<1>8. v.state = "CLOSED" /\ v.gross = w.gross /\ v.fees = w.fees
  BY <1>1, <1>7 DEF RunTypes
<1>. HIDE DEF v
<1>9. NetLoss(v) <= Risk(p, w)
  <2>. DEFINE lot == LotRisk(p, w.price, w.stop)
  <2>1. w.gross \in Int /\ w.fees \in Nat /\ w.qty = 0 /\ lot \in Nat
    BY <1>1, <1>6, RunFields, LotRiskType
  <2>2. Risk(p, w) = Positive(- w.gross) + w.fees + lot * w.qty
    BY DEF Risk
  <2>3. - w.gross <= Positive(- w.gross) /\ Positive(- w.gross) \in Nat
    BY <2>1 DEF Positive
  <2>4. NetLoss(v) = w.fees - w.gross
    BY <1>8 DEF NetLoss
  <2>. HIDE DEF lot
  <2>5. lot * w.qty = 0
    BY <2>1
  <2>. QED
    BY <2>1, <2>2, <2>3, <2>4, <2>5
<1>10. NetLoss(v) \in Int /\ Risk(p, w) \in Int /\ Risk(p, r) \in Int /\ Risk(p, r) <= r.budget
  BY <1>1, <1>6, <1>8, RiskType, RunFields DEF NetLoss, OpenOK
<1>. QED
  BY <1>1, <1>4, <1>5, <1>8, <1>9, <1>10 DEF r

(* Everything but a quote leaves an open run as it is. *)
LEMMA OnlyQuotesMove ==
  ASSUME RunsInOrder, [Next]_vars, NEW p \in Plans, runs[p].state # "none",
         runs'[p] # runs[p] \/ (cursor' # cursor /\ pc = "apply" /\ Active(p))
  PROVE  \E q \in Plans : Quote(q)
PROOF
<1>1. ASSUME NEW q \in Plans, NEW guard \in GuardBudgets, Submit(q, guard) PROVE FALSE
  <2>1. q # p /\ pc = "idle"
    BY <1>1 DEF Submit, Consumed, Due
  <2>2. runs'[p] = runs[p]
    BY <1>1, <2>1 DEF Submit, RunsInOrder
  <2>. QED
    BY <2>1, <2>2
<1>2. ASSUME NEW ack \in Acks, NEW signal \in Signals, Store(Observed(ack, signal)) PROVE FALSE
  BY <1>2 DEF Store, simulator
<1>3. CASE ApplyIdle
  BY <1>3 DEF ApplyIdle, ActivePlans
<1>4. CASE ApplyAgain \/ ApplyLate \/ MarkDone
  BY <1>4 DEF ApplyAgain, ApplyLate, MarkDone, simulator
<1>5. CASE World
  BY <1>5 DEF World, NewQuote, PlanReady, Tick, Crash, simulator
<1>6. CASE UNCHANGED vars
  BY <1>6 DEF vars, simulator
<1>. QED
  BY <1>1, <1>2, <1>3, <1>4, <1>5, <1>6 DEF Next, ProcessOne

(* The run that a quote moves. *)
LEMMA QuoteMovesOne ==
  ASSUME LoopTypes, RunsInOrder, NEW p \in Plans, NEW q \in Plans, Quote(q), q # p
  PROVE  runs'[p] = runs[p]
PROOF
<1>1. Kept(q)
  BY QuoteKept DEF RunsInOrder
<1>. QED
  BY <1>1 DEF Kept, RunsInOrder

(* No other branch of a quote closes a run. *)
LEMMA OnlyExitsClose ==
  ASSUME LoopTypes, RunsInOrder, NEW p \in Plans, Quote(p), runs'[p].state = "CLOSED"
  PROVE  ProtectionExit(p)
PROOF
<1>1. Kept(p)
  BY QuoteKept DEF RunsInOrder
<1>. QED
  BY <1>1 DEF Kept, RunsInOrder

(* A fill comes from a quote observed after its request (quote, _settle).       *)
THEOREM NeverLooksAhead == Spec => NoLookahead
PROOF
<1>1. ASSUME PaperInv, [Next]_vars, NEW p \in Plans,
             runs[p].pending # "none", runs'[p].qty # runs[p].qty, runs'[p].state = "OPEN"
      PROVE  todo.at > runs[p].requested
  <2>1. LoopTypes /\ RunsInOrder
    BY <1>1 DEF PaperInv
  <2>2. runs[p].state # "none"
    BY <1>1, <2>1, RunFields DEF RunsInOrder, RunOK
  <2>3. PICK q \in Plans : Quote(q)
    BY <1>1, <2>1, <2>2, OnlyQuotesMove
  <2>4. Quote(p)
    BY <1>1, <2>1, <2>3, QuoteMovesOne
  <2>5. NewEvent
    BY <2>4 DEF Quote
  <2>6. ~ProtectionExit(p)
    BY <1>1, <2>1, <2>5, ExitCost
  <2>7. ~GuardCancels(p)
    <3>1. SUFFICES ASSUME GuardCancels(p) PROVE FALSE
      OBVIOUS
    <3>2. runs'[p] = Ended(runs[p], "CANCELLED")
      BY <2>1, <3>1, TurnAt DEF GuardCancels
    <3>3. Ended(runs[p], "CANCELLED").state = "CANCELLED"
      BY <2>1, EndedFields DEF RunsInOrder, RunStates
    <3>. QED
      BY <1>1, <3>2, <3>3
  <2>8. ~Turn(p, runs[p])
    BY <1>1, <2>1, TurnAt
  <2>9. Answers(p)
    BY <1>1, <2>4, <2>6, <2>7, <2>8, QuoteShape
  <2>. QED
    BY <2>9 DEF Answers
<1>2. PaperInv /\ [Next]_vars =>
        [\A p \in Plans : runs[p].pending # "none" /\ runs'[p].qty # runs[p].qty
                           /\ runs'[p].state = "OPEN"
                             => todo.at > runs[p].requested]_vars
  BY <1>1
<1>. QED
  BY <1>2, PaperInvariant, PTL DEF Spec, NoLookahead

(* A position never outlives a quote at or beyond its stop or target, whatever  *)
(* request is pending (quote).                                                  *)
THEOREM ProtectionAlwaysFirst == Spec => ProtectionFirst
PROOF
<1>1. ASSUME PaperInv, [Next]_vars, NEW p \in Plans,
             cursor' # cursor, pc = "apply", runs[p].state = "OPEN",
             \/ Plan[p].sign * (todo.price - runs[p].stop) <= 0
             \/ Plan[p].sign * (todo.price - Plan[p].target) >= 0
      PROVE  runs'[p].state = "CLOSED"
  <2>1. LoopTypes /\ RunsInOrder /\ DayInOrder /\ Active(p)
    BY <1>1 DEF PaperInv, Active
  <2>2. PICK q \in Plans : Quote(q)
    BY <1>1, <2>1, OnlyQuotesMove
  <2>3. q = p
    BY <2>1, <2>2, QuoteActive DEF DayInOrder
  <2>4. AtExit(p) /\ NewEvent
    BY <1>1, <2>2 DEF AtExit, Beyond, Attained, Quote
  <2>5. ProtectionExit(p)
    BY <2>2, <2>3, <2>4, QuoteShape
  <2>. QED
    BY <2>1, <2>4, <2>5, ExitCost
<1>2. PaperInv /\ [Next]_vars =>
        [\A p \in Plans :
           (/\ cursor' # cursor /\ pc = "apply" /\ runs[p].state = "OPEN"
            /\ \/ Plan[p].sign * (todo.price - runs[p].stop) <= 0
               \/ Plan[p].sign * (todo.price - Plan[p].target) >= 0)
           => runs'[p].state = "CLOSED"]_vars
  BY <1>1
<1>. QED
  BY <1>2, PaperInvariant, PTL DEF Spec, ProtectionFirst

(* Only a gap through the stop costs more than the budget (_close, _risk).      *)
THEOREM StopOutsWithinBudget == Spec => StopOutWithinBudget
PROOF
<1>1. ASSUME PaperInv, [Next]_vars, NEW p \in Plans,
             runs[p].state = "OPEN", runs'[p].state = "CLOSED",
             Plan[p].sign * (todo.price - runs[p].stop) >= 0
      PROVE  NetLoss(runs'[p]) <= runs[p].budget
  <2>1. LoopTypes /\ RunsInOrder
    BY <1>1 DEF PaperInv
  <2>2. PICK q \in Plans : Quote(q)
    BY <1>1, <2>1, OnlyQuotesMove
  <2>3. Quote(p) /\ NewEvent
    BY <1>1, <2>1, <2>2, QuoteMovesOne DEF Quote
  <2>4. ProtectionExit(p)
    BY <1>1, <2>1, <2>3, OnlyExitsClose
  <2>. QED
    BY <1>1, <2>1, <2>3, <2>4, ExitCost
<1>2. PaperInv /\ [Next]_vars =>
        [\A p \in Plans : runs[p].state = "OPEN" /\ runs'[p].state = "CLOSED"
                           /\ Plan[p].sign * (todo.price - runs[p].stop) >= 0
                             => NetLoss(runs'[p]) <= runs[p].budget]_vars
  BY <1>1
<1>. QED
  BY <1>2, PaperInvariant, PTL DEF Spec, StopOutWithinBudget
=============================================================================
