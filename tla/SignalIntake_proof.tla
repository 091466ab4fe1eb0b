------------------------- MODULE SignalIntake_proof -------------------------
(***************************************************************************)
(* A setup is ordered once, a catch-up setup never, and nothing is marked  *)
(* as dealt with that was not: for any number of setups, catalysts, bars,  *)
(* restarts and failed detections.                                         *)
(***************************************************************************)
EXTENDS SignalIntake, TLAPS, WellFoundedInduction

-----------------------------------------------------------------------------
(* What a batch of jobs becomes *)

LEMMA LeastOf ==
  ASSUME NEW n \in Nat, NEW S \in SUBSET (1 .. n), S # {}
  PROVE  \E i \in S : \A j \in S : i <= j
PROOF
<1>1. S \in SUBSET Nat
  OBVIOUS
<1>2. PICK d \in S : \A e \in S : ~(<<e, d>> \in OpToRel(<, Nat))
  BY <1>1, WFMin, NatLessThanWellFounded, Zenon
<1>3. OpToRel(<, Nat) = {q \in Nat \X Nat : q[1] < q[2]}
  BY DEF OpToRel
<1>4. ASSUME NEW e \in S PROVE d <= e
  <2>1. e \in Nat /\ d \in Nat
    BY <1>1
  <2>2. SUFFICES ASSUME e < d PROVE FALSE
    BY <2>1
  <2>3. <<e, d>> \in {q \in Nat \X Nat : q[1] < q[2]}
    BY <2>1, <2>2
  <2>. QED
    BY <1>2, <1>3, <2>3
<1>. QED
  BY <1>4

LEMMA FirstGapIn ==
  ASSUME NEW jobs \in Seq(Jobs), Gaps(jobs) # {}
  PROVE  \E i \in Gaps(jobs) : FirstGap(jobs) = jobs[i]
PROOF
<1>1. Gaps(jobs) \in SUBSET (1 .. Len(jobs)) /\ Len(jobs) \in Nat
  BY DEF Gaps
<1>2. \E i \in Gaps(jobs) : \A j \in Gaps(jobs) : i <= j
  BY <1>1, LeastOf
<1>. QED
  BY <1>2 DEF FirstGap

LEMMA LatestIn ==
  ASSUME NEW jobs \in Seq(Jobs), jobs # <<>>
  PROVE  Latest(jobs) \in Jobs /\ Latest(jobs).gap = FALSE
PROOF
<1>1. jobs[Len(jobs)] \in Jobs
  OBVIOUS
<1>2. jobs[Len(jobs)].now \in Times
  BY <1>1 DEF Jobs
<1>. QED
  BY <1>2 DEF Latest, Last, Jobs

(* A batch becomes one or two passes; those over a hole are jobs of the batch. *)
LEMMA PassesOf ==
  ASSUME NEW jobs \in Seq(Jobs), jobs # <<>>
  PROVE  /\ Passes(jobs) \in Seq(Jobs) /\ Passes(jobs) # <<>>
         /\ \A i \in DOMAIN Passes(jobs) :
              Passes(jobs)[i].gap => \E j \in DOMAIN jobs : jobs[j] = Passes(jobs)[i]
PROOF
<1>1. Latest(jobs) \in Jobs /\ Latest(jobs).gap = FALSE
  BY LatestIn
<1>2. CASE Gaps(jobs) = {}
  <2>1. Passes(jobs) = <<Latest(jobs)>>
    BY <1>2 DEF Passes
  <2>. QED
    BY <1>1, <2>1
<1>3. CASE Gaps(jobs) # {}
  <2>1. PICK i \in Gaps(jobs) : FirstGap(jobs) = jobs[i]
    BY <1>3, FirstGapIn
  <2>2. i \in DOMAIN jobs /\ FirstGap(jobs) \in Jobs
    BY <2>1 DEF Gaps
  <2>3. CASE Latest(jobs).now > FirstGap(jobs).now
    <3>1. Passes(jobs) = <<FirstGap(jobs), Latest(jobs)>>
      BY <1>3, <2>3 DEF Passes
    <3>. QED
      BY <1>1, <2>1, <2>2, <3>1
  <2>4. CASE ~(Latest(jobs).now > FirstGap(jobs).now)
    <3>1. Passes(jobs) = <<FirstGap(jobs)>>
      BY <1>3, <2>4 DEF Passes
    <3>. QED
      BY <2>1, <2>2, <3>1
  <2>. QED
    BY <2>3, <2>4
<1>. QED
  BY <1>2, <1>3

-----------------------------------------------------------------------------
(* Types *)

LEMMA TypeInit == Init => TypeOK
PROOF
<1>. SUFFICES ASSUME Init PROVE TypeOK
  OBVIOUS
<1>. USE IntakeAssumption
<1>1. 0 \in Times
  BY DEF Times
<1>2. primed \in BOOLEAN
  BY Zenon DEF Init
<1>3. bos \in [Trades -> Times] /\ orders \in [Trades -> Nat]
      /\ claim \in [Dol -> {"none", "PENDING", "ACCEPTED", "REJECTED", "UNKNOWN"}]
  BY <1>1 DEF Init
<1>4. group \in [trade : Trades \cup {"none"}, until : Int]
  BY DEF Init, NoGroup
<1>5. /\ lastBar = 0 /\ found = {} /\ out = {} /\ sent = {} /\ file \in {"missing", "torn", "whole"}
      /\ book = {} /\ logged = {} /\ pc = "off"
      /\ live = {} /\ marks = {} /\ cur = "none" /\ doubt = {} /\ cleared = {}
      /\ gapBar = 0 /\ crashes = 0 /\ fails = 0
  BY DEF Init
<1>6. running \in BOOLEAN /\ forgot \in BOOLEAN /\ queue \in Seq(Jobs) /\ passes \in Seq(Jobs)
  <2>1. running = FALSE /\ forgot = FALSE /\ queue = <<>> /\ passes = <<>>
    BY Zenon DEF Init
  <2>2. queue \in Seq(Jobs) /\ passes \in Seq(Jobs)
    BY <2>1
  <2>. QED
    BY <2>1, <2>2
<1>. QED
  BY <1>1, <1>2, <1>3, <1>4, <1>5, <1>6 DEF TypeOK, Steps

LEMMA TypeBars ==
  ASSUME TypeOK, NextBar
  PROVE  TypeOK'
PROOF
<1>. USE IntakeAssumption
<1>1. PICK b \in {lastBar + 1, lastBar + GapLimit + 1} \cap Times, new \in SUBSET (Keys \ found) :
        \E broke \in {b, lastBar} : Bars(b, new, broke)
  BY Zenon DEF NextBar
<1>2. PICK broke \in {b, lastBar} : Bars(b, new, broke)
  BY <1>1
<1>3. broke \in Times /\ b \in Times
  BY DEF TypeOK
<1>4. [now |-> b, gap |-> b - lastBar > GapLimit] \in Jobs
  BY <1>3 DEF Jobs, TypeOK, Times
<1>5. queue' \in Seq(Jobs)
  BY <1>2, <1>4 DEF Bars, Schedule, TypeOK
<1>6. bos' \in [Trades -> Times] /\ gapBar' \in Times /\ lastBar' \in Times
  BY <1>2, <1>3 DEF Bars, TypeOK
<1>7. found' \subseteq Keys /\ found \subseteq found'
  BY <1>2 DEF Bars, TypeOK
<1>8. /\ pc' \in Steps /\ running' \in BOOLEAN
      /\ pc' \notin {"off", "take"} => pc' = pc
      /\ pc' \in {"claim", "post", "note", "finish", "fail"} => pc' = pc
  BY <1>2 DEF Bars, Schedule, TypeOK, Steps
<1>. QED
  BY <1>2, <1>5, <1>6, <1>7, <1>8 DEF Bars, TypeOK, disk, memory, seen

LEMMA TypeWorker ==
  ASSUME TypeOK, Worker
  PROVE  TypeOK'
PROOF
<1>. USE IntakeAssumption DEF TypeOK, Steps
<1>1. CASE Retire
  BY <1>1 DEF Retire, world, disk, seen
<1>2. CASE TakeJobs
  BY <1>2, PassesOf DEF TakeJobs, world, disk, seen
<1>3. CASE Scan
  BY <1>3 DEF Scan, Scanned, Unseen, Stale, GapMarks, TradesOf, world, seen
<1>4. CASE ScanStale
  BY <1>4 DEF ScanStale, Scanned, Unseen, Stale, GapMarks, TradesOf, world, disk
<1>5. CASE ScanRaises
  BY <1>5 DEF ScanRaises, world, disk
<1>6. CASE Dispatch
  <2>1. ASSUME NEW t \in Trades, Suppress(t) \/ Block(t) PROVE TypeOK'
    BY <2>1 DEF Suppress, Block, Marked, Done, Members, world, seen
  <2>2. ASSUME NEW t \in Trades, Reserve(t) PROVE TypeOK'
    BY <2>2 DEF Reserve, world, seen, Times
  <2>3. CASE ClaimEntry
    BY <2>3 DEF ClaimEntry, world, seen
  <2>4. ASSUME NEW reply \in Replies, NEW stands \in BOOLEAN, Post(reply, stands) PROVE TypeOK'
    <3>1. Answer(reply) \in {"ACCEPTED", "REJECTED", "UNKNOWN"}
      BY DEF Answer
    <3>2. orders' \in [Trades -> Nat]
      BY <2>4 DEF Post
    <3>3. claim' \in [Dol -> {"none", "PENDING", "ACCEPTED", "REJECTED", "UNKNOWN"}]
      BY <2>4, <3>1 DEF Post
    <3>. QED
      BY <2>4, <3>2, <3>3 DEF Post, world
  <2>5. CASE Note
    BY <2>5 DEF Note, world, seen
  <2>6. CASE Finish \/ Fail
    BY <2>6 DEF Finish, Fail, Released, NoGroup, Marked, Done, Members, world, seen
  <2>. QED
    BY <1>6, <2>1, <2>2, <2>3, <2>4, <2>5, <2>6 DEF Dispatch
<1>7. CASE EndPass
  BY <1>7 DEF EndPass, world, disk, seen
<1>8. CASE Truncate
  BY <1>8 DEF Truncate, world, seen
<1>9. CASE WriteSent
  <2>1. passes # <<>> /\ passes \in Seq(Jobs)
    BY <1>9 DEF WriteSent
  <2>2. passes' \in Seq(Jobs) /\ (pc' \notin {"off", "take"} => passes' # <<>>) /\ pc' \in Steps
    BY <1>9, <2>1 DEF WriteSent
  <2>3. TradesOf(out) \subseteq Trades
    BY DEF TradesOf
  <2>4. cleared' \subseteq Trades
    <3>1. CASE cleared' = cleared
      BY <3>1
    <3>2. CASE cleared' = cleared \cup {t \in TradesOf(out) : bos[t] <= Now}
      BY <3>2, <2>3
    <3>. QED
      BY <1>9, <3>1, <3>2 DEF WriteSent
  <2>5. pc' \in {"take", "scan"}
    BY <1>9 DEF WriteSent
  <2>. QED
    BY <1>9, <2>2, <2>4, <2>5 DEF WriteSent, world
<1>. QED
  BY <1>1, <1>2, <1>3, <1>4, <1>5, <1>6, <1>7, <1>8, <1>9 DEF Worker

LEMMA TypeCrash ==
  ASSUME TypeOK, Crash
  PROVE  TypeOK'
PROOF
<1>1. primed' \in BOOLEAN /\ forgot' \in BOOLEAN
  BY Zenon DEF Crash
<1>2. running' \in BOOLEAN /\ queue' \in Seq(Jobs) /\ passes' \in Seq(Jobs) /\ crashes' \in Nat
  <2>1. running' = FALSE /\ queue' = <<>> /\ passes' = <<>> /\ crashes' = crashes + 1
    BY Zenon DEF Crash
  <2>2. queue' \in Seq(Jobs) /\ passes' \in Seq(Jobs)
    BY <2>1
  <2>3. crashes' \in Nat
    BY <2>1 DEF TypeOK
  <2>. QED
    BY <2>1, <2>2, <2>3, Zenon
<1>4. /\ pc' = "off" /\ live' = {} /\ marks' = {} /\ cur' = "none"
      /\ UNCHANGED <<world, disk, orders, cleared, gapBar, fails>>
  BY Zenon DEF Crash
<1>3. doubt' \subseteq Trades
  BY DEF Crash, TypeOK
<1>. QED
  BY <1>1, <1>2, <1>3, <1>4 DEF TypeOK, Steps, world, disk

LEMMA TypeNext == TypeOK /\ [Next]_vars => TypeOK'
PROOF
<1>1. ASSUME TypeOK, UNCHANGED vars PROVE TypeOK'
  BY <1>1 DEF TypeOK, vars, world, disk, memory, seen
<1>. QED
  BY <1>1, TypeBars, TypeWorker, TypeCrash DEF Next

(* The files, the worker's memory and the queue stay well formed; a pass at     *)
(* work always has its job and a dispatch its trade (agent.py's bars worker).   *)
THEOREM IntakeTypeCorrect == Spec => []TypeOK
PROOF
<1>. QED
  BY TypeInit, TypeNext, PTL DEF Spec

-----------------------------------------------------------------------------
(* The flag tells whether a worker runs, so there is never a second one. *)

OneWorker == running <=> pc # "off"

LEMMA WorkerInit == Init => OneWorker
  BY DEF Init, OneWorker

LEMMA WorkerNext == OneWorker /\ [Next]_vars => OneWorker'
PROOF
<1>. SUFFICES ASSUME OneWorker, [Next]_vars PROVE OneWorker'
  OBVIOUS
<1>1. CASE UNCHANGED vars
  BY <1>1, Zenon DEF vars, memory, OneWorker
<1>2. CASE NextBar
  BY <1>2, Zenon DEF NextBar, Bars, Schedule, OneWorker
<1>3. CASE Retire
  BY <1>3, Zenon DEF Retire, OneWorker
<1>4. CASE Crash
  BY <1>4, Zenon DEF Crash, OneWorker
<1>5. ASSUME running' = running, pc # "off", pc' # "off" PROVE OneWorker'
  BY <1>5, Zenon DEF OneWorker
<1>6. CASE Dispatch
  BY <1>6, <1>5 DEF Dispatch, Suppress, Block, Reserve, ClaimEntry, Post, Note, Finish, Fail
<1>7. CASE TakeJobs \/ Scan \/ ScanStale \/ ScanRaises \/ EndPass \/ Truncate \/ WriteSent
  BY <1>7, <1>5 DEF TakeJobs, Scan, ScanStale, Scanned, ScanRaises, EndPass, Truncate, WriteSent
<1>. QED
  BY <1>1, <1>2, <1>3, <1>4, <1>6, <1>7 DEF Next, Worker

-----------------------------------------------------------------------------
(* One order per setup *)

\* What stands between a trade already ordered and a second order: its row in
\* the book, or, for a DOL trade, its claim.
Accounted ==
  /\ \A t \in Trades :
       /\ orders[t] >= 1 => t \in book \cup doubt \/ (pc = "note" /\ cur = t)
       /\ orders[t] > 1 => t \in doubt \ Dol
  /\ \A t \in Dol : orders[t] >= 1 => claim[t] # "none"

\* A dispatch under way is of a trade without a row, a DOL one with its claim.
InHand ==
  /\ pc \in {"claim", "post"} => cur \notin book
  /\ pc = "claim" => cur \in Dol
  /\ pc = "post" /\ cur \in Dol => claim[cur] # "none" /\ orders[cur] = 0

OrderInv == TypeOK /\ OneWorker /\ Accounted /\ InHand

LEMMA OrderInit == Init => Accounted /\ InHand
  BY IntakeAssumption DEF Init, Accounted, InHand

\* Steps that touch neither orders, book, claims nor the dispatch.
LEMMA OrderIdle ==
  ASSUME OrderInv, UNCHANGED <<orders, book, claim, doubt, cur>>,
         pc' = pc \/ (pc # "note" /\ pc' \notin {"claim", "post"})
  PROVE  Accounted' /\ InHand'
  BY DEF OrderInv, Accounted, InHand

LEMMA OrderPost ==
  ASSUME OrderInv, NEW reply \in Replies, NEW stands \in BOOLEAN, Post(reply, stands)
  PROVE  Accounted' /\ InHand'
PROOF
<1>. USE IntakeAssumption
<1>1. PICK c \in Trades : c = cur
  BY DEF OrderInv, TypeOK, Post
<1>2. /\ reply \in {"accepted", "rejected", "lost"}
      /\ UNCHANGED <<book, cur>>
      /\ pc' = IF reply = "accepted" THEN "note" ELSE "fail"
      /\ doubt' = IF reply = "lost" THEN doubt \cup {c} ELSE doubt
      /\ claim' = [t \in Dol |-> IF t = c THEN Answer(reply) ELSE claim[t]]
  BY <1>1, Zenon DEF Post
<1>3. \A t \in Trades : t # c => orders'[t] = orders[t]
  BY <1>1 DEF Post, OrderInv, TypeOK
<1>4. /\ orders[c] \in Nat /\ orders'[c] \in Nat /\ orders'[c] <= orders[c] + 1
      /\ reply = "rejected" => orders'[c] = orders[c]
  BY <1>1 DEF Post, OrderInv, TypeOK
<1>5. /\ c \notin book /\ pc = "post"
      /\ c \in Dol => orders[c] = 0
      /\ orders[c] >= 1 => c \in doubt \ Dol
  BY <1>1, <1>4 DEF OrderInv, InHand, Accounted, Post
<1>6. \A t \in Dol : orders'[t] >= 1 => claim'[t] # "none"
  <2>1. Answer(reply) # "none"
    BY DEF Answer
  <2>2. \A t \in Dol : t # c => claim'[t] = claim[t]
    BY <1>2
  <2>. QED
    BY <1>2, <1>3, <2>1, <2>2 DEF OrderInv, Accounted
<1>7. \A t \in Trades :
        /\ orders'[t] >= 1 => t \in book \cup doubt' \/ (pc' = "note" /\ cur' = t)
        /\ orders'[t] > 1 => t \in doubt' \ Dol
  <2>1. ASSUME NEW t \in Trades, t # c
        PROVE  /\ orders'[t] >= 1 => t \in book \cup doubt'
               /\ orders'[t] > 1 => t \in doubt' \ Dol
    BY <1>1, <1>2, <1>3, <1>5, <2>1 DEF OrderInv, Accounted
  <2>2. /\ orders'[c] >= 1 => c \in doubt' \/ pc' = "note"
        /\ orders'[c] > 1 => c \in doubt' \ Dol
    BY <1>2, <1>4, <1>5
  <2>. QED
    BY <1>1, <1>2, <2>1, <2>2
<1>. QED
  BY <1>2, <1>6, <1>7 DEF Accounted, InHand

LEMMA OrderNext == OrderInv /\ [Next]_vars => Accounted' /\ InHand'
PROOF
<1>. SUFFICES ASSUME OrderInv, [Next]_vars PROVE Accounted' /\ InHand'
  OBVIOUS
<1>1. CASE UNCHANGED vars \/ NextBar
  <2>1. UNCHANGED <<orders, book, claim, doubt, cur>>
    BY <1>1 DEF vars, world, disk, memory, seen, NextBar, Bars
  <2>2. pc' = pc \/ (pc # "note" /\ pc' \notin {"claim", "post"})
    <3>1. CASE UNCHANGED vars
      BY <3>1 DEF vars, memory
    <3>2. CASE NextBar
      <4>1. pc' = IF running THEN pc ELSE "take"
        BY <3>2, Zenon DEF NextBar, Bars, Schedule
      <4>2. running \/ pc = "off"
        BY DEF OrderInv, OneWorker
      <4>. QED
        BY <4>1, <4>2
    <3>. QED
      BY <1>1, <3>1, <3>2
  <2>. QED
    BY <2>1, <2>2, OrderIdle
<1>2. CASE Crash
  BY <1>2 DEF Crash, disk, OrderInv, Accounted, InHand
<1>3. CASE Dispatch
  <2>1. ASSUME NEW t \in Trades, Suppress(t) \/ Block(t) PROVE Accounted' /\ InHand'
    <3>1. UNCHANGED <<orders, book, claim, doubt, cur, pc>>
      BY <2>1 DEF Suppress, Block, seen
    <3>. QED
      BY <3>1, OrderIdle
  <2>2. ASSUME NEW t \in Trades, Reserve(t) PROVE Accounted' /\ InHand'
    BY <2>2 DEF Reserve, IsDuplicate, seen, OrderInv, TypeOK, Accounted, InHand
  <2>3. CASE ClaimEntry
    BY <2>3 DEF ClaimEntry, Claimed, seen, OrderInv, TypeOK, Accounted, InHand
  <2>4. ASSUME NEW reply \in Replies, NEW stands \in BOOLEAN, Post(reply, stands)
        PROVE  Accounted' /\ InHand'
    BY <2>4, OrderPost
  <2>5. CASE Note
    BY <2>5 DEF Note, seen, OrderInv, Accounted, InHand
  <2>6. CASE Finish \/ Fail
    BY <2>6 DEF Finish, Fail, seen, OrderInv, Accounted, InHand
  <2>. QED
    BY <1>3, <2>1, <2>2, <2>3, <2>4, <2>5, <2>6 DEF Dispatch
<1>4. CASE Retire \/ TakeJobs \/ Scan \/ ScanStale \/ ScanRaises \/ EndPass \/ Truncate \/ WriteSent
  <2>1. UNCHANGED <<orders, book, claim, doubt, cur>>
    BY <1>4 DEF Retire, TakeJobs, Scan, ScanStale, ScanRaises, EndPass, Truncate, WriteSent, disk, seen
  <2>2. pc # "note" /\ pc' \notin {"claim", "post"}
    BY <1>4 DEF Retire, TakeJobs, Scan, ScanStale, Scanned, ScanRaises, EndPass, Truncate, WriteSent
  <2>. QED
    BY <2>1, <2>2, OrderIdle
<1>. QED
  BY <1>1, <1>2, <1>3, <1>4 DEF Next, Worker

LEMMA OrderInvariant == Spec => []OrderInv
PROOF
<1>1. Init => OrderInv
  BY TypeInit, WorkerInit, OrderInit DEF OrderInv
<1>2. OrderInv /\ [Next]_vars => OrderInv'
  BY TypeNext, WorkerNext, OrderNext DEF OrderInv
<1>. QED
  BY <1>1, <1>2, PTL DEF Spec

(* A setup is ordered once, whatever the bars, catalysts, retries and restarts, *)
(* unless its reply was lost or a restart came before note(); a DOL setup even   *)
(* then (is_duplicate, claim_entry, note).                                       *)
THEOREM OrderedOnce == Spec => []OneOrderPerSetup
PROOF
<1>1. OrderInv => OneOrderPerSetup
  BY DEF OrderInv, Accounted, OneOrderPerSetup
<1>. QED
  BY <1>1, OrderInvariant, PTL

-----------------------------------------------------------------------------
(* Nothing is swallowed *)

\* Every hole a job or a pass speaks of is in the past.
HolesPast(jobs) == \A i \in DOMAIN jobs : jobs[i].gap => jobs[i].now <= gapBar

\* A trade marked, on disk or in the pass, was found, and recorded or before a hole.
\* The trade being dispatched was found.
Dispatching == {"claim", "post", "note", "finish", "fail"}
Vouched ==
  /\ \A t \in Trades \cap (sent \cup marks) :
       t \in TradesOf(found) /\ (t \in logged \/ bos[t] <= gapBar)
  /\ pc \in Dispatching => cur \in TradesOf(found)

Holes == gapBar <= lastBar /\ HolesPast(queue) /\ HolesPast(passes)

MarkInv == TypeOK /\ Holes /\ Vouched

LEMMA MarkInit == Init => Holes /\ Vouched
PROOF
<1>. SUFFICES ASSUME Init PROVE Holes /\ Vouched
  OBVIOUS
<1>1. gapBar = 0 /\ lastBar = 0 /\ queue = <<>> /\ passes = <<>> /\ sent = {} /\ marks = {} /\ pc = "off"
  BY DEF Init
<1>. QED
  BY <1>1 DEF Holes, HolesPast, Vouched, Dispatching

(* A new bar moves neither what is known of a trade found before nor any hole.  *)
LEMMA BarKeeps ==
  ASSUME TypeOK, NextBar
  PROVE  /\ \A t \in TradesOf(found) : bos'[t] = bos[t]
         /\ TradesOf(found) \subseteq TradesOf(found')
         /\ lastBar < lastBar'
         /\ gapBar' = gapBar \/ gapBar' = lastBar'
         /\ \E g \in BOOLEAN : /\ queue' = Append(queue, [now |-> lastBar', gap |-> g])
                               /\ g => gapBar' = lastBar'
PROOF
<1>. USE IntakeAssumption
<1>1. PICK b \in {lastBar + 1, lastBar + GapLimit + 1} \cap Times, new \in SUBSET (Keys \ found) :
        \E broke \in {b, lastBar} : Bars(b, new, broke)
  BY Zenon DEF NextBar
<1>2. PICK broke \in {b, lastBar} : Bars(b, new, broke)
  BY <1>1
<1>3. lastBar' = b /\ lastBar < b
  BY <1>2 DEF Bars, TypeOK, Times
<1>4. \A t \in TradesOf(found) : t \in Trades
  BY DEF TradesOf, TypeOK
<1>5. \A t \in TradesOf(found) : bos'[t] = bos[t]
  BY <1>2, <1>4 DEF Bars
<1>. DEFINE g == b - lastBar > GapLimit
<1>6. g \in BOOLEAN
  OBVIOUS
<1>7. queue' = Append(queue, [now |-> b, gap |-> g])
  BY <1>2, Zenon DEF Bars, Schedule
<1>8. gapBar' = IF g THEN b ELSE gapBar
  BY <1>2, Zenon DEF Bars
<1>. HIDE DEF g
<1>9. found \subseteq found'
  BY <1>2 DEF Bars
<1>. QED
  <2>1. g => gapBar' = lastBar'
    BY <1>3, <1>8
  <2>2. gapBar' = gapBar \/ gapBar' = lastBar'
    BY <1>3, <1>8
  <2>3. queue' = Append(queue, [now |-> lastBar', gap |-> g])
    BY <1>3, <1>7, Zenon
  <2>4. TradesOf(found) \subseteq TradesOf(found')
    BY <1>9 DEF TradesOf
  <2>. QED
    BY <1>3, <1>5, <1>6, <2>1, <2>2, <2>3, <2>4, Zenon

LEMMA MarkBars ==
  ASSUME MarkInv, NextBar
  PROVE  Holes' /\ Vouched'
PROOF
<1>. USE IntakeAssumption DEF MarkInv
<1>1. UNCHANGED <<sent, marks, logged, passes, cur>> /\ (pc' \in Dispatching => pc' = pc)
  BY DEF NextBar, Bars, Schedule, Dispatching, disk
<1>2. gapBar \in Nat /\ gapBar' \in Nat /\ lastBar \in Nat /\ lastBar' \in Nat /\ gapBar <= gapBar'
  <2>1. TypeOK'
    BY TypeBars
  <2>2. gapBar \in Nat /\ gapBar' \in Nat /\ lastBar \in Nat /\ lastBar' \in Nat
    BY <2>1 DEF TypeOK, Times
  <2>3. gapBar <= lastBar
    BY DEF Holes
  <2>. QED
    BY <2>2, <2>3, BarKeeps
<1>3. Vouched'
  <2>1. ASSUME NEW t \in Trades \cap (sent \cup marks)
        PROVE  t \in TradesOf(found') /\ (t \in logged \/ bos'[t] <= gapBar')
    <3>1. bos[t] \in Nat /\ bos'[t] = bos[t] /\ t \in TradesOf(found')
      BY BarKeeps DEF TypeOK, Times, Vouched
    <3>. QED
      BY <1>2, <3>1 DEF Vouched
  <2>2. pc' \in Dispatching => cur' \in TradesOf(found')
    BY <1>1, BarKeeps DEF Vouched
  <2>. QED
    BY <1>1, <2>1, <2>2 DEF Vouched, TradesOf
<1>4. PICK g \in BOOLEAN : queue' = Append(queue, [now |-> lastBar', gap |-> g]) /\ (g => gapBar' = lastBar')
  BY BarKeeps
<1>5. ASSUME NEW jobs \in Seq(Jobs), HolesPast(jobs), NEW i \in DOMAIN jobs, jobs[i].gap
      PROVE  jobs[i].now <= gapBar'
  <2>1. jobs[i] \in Jobs
    BY <1>5
  <2>2. jobs[i].now \in Nat
    BY <2>1 DEF Jobs, Times
  <2>3. jobs[i].now <= gapBar
    BY <1>5 DEF HolesPast
  <2>. QED
    BY <1>2, <2>2, <2>3
<1>6. HolesPast(passes)'
  BY <1>1, <1>5 DEF HolesPast, TypeOK, Holes
<1>7. HolesPast(queue)'
  <2>1. ASSUME NEW i \in DOMAIN queue', queue'[i].gap PROVE queue'[i].now <= gapBar'
    <3>1. CASE i \in DOMAIN queue
      <4>1. queue'[i] = queue[i]
        BY <1>4, <3>1 DEF TypeOK
      <4>. QED
        BY <1>5, <2>1, <3>1, <4>1 DEF TypeOK, Holes
    <3>2. CASE i \notin DOMAIN queue
      <4>1. queue'[i] = [now |-> lastBar', gap |-> g]
        BY <1>4, <2>1, <3>2 DEF TypeOK
      <4>2. queue'[i].now = lastBar' /\ (queue'[i].gap <=> g)
        BY <4>1
      <4>. QED
        BY <1>2, <1>4, <2>1, <4>2
    <3>. QED
      BY <3>1, <3>2
  <2>. QED
    BY <2>1 DEF HolesPast
<1>8. gapBar' <= lastBar'
  BY <1>2, BarKeeps DEF Holes
<1>. QED
  BY <1>3, <1>6, <1>7, <1>8 DEF Holes

LEMMA MarkScan ==
  ASSUME MarkInv, pc = "scan", NEW conf \in SUBSET found, Scanned(conf),
         UNCHANGED <<world, sent, logged, queue, passes, gapBar>>
  PROVE  Holes' /\ Vouched'
PROOF
<1>. USE IntakeAssumption DEF MarkInv
<1>1. Holes'
  BY DEF Holes, HolesPast, world
<1>0. found' = found /\ bos' = bos /\ sent' = sent /\ logged' = logged /\ gapBar' = gapBar
      /\ pc' \notin Dispatching
  BY DEF world, Scanned, Dispatching
<1>2. CASE marks' \cap Trades \subseteq sent
  BY <1>0, <1>1, <1>2 DEF Vouched, TradesOf
<1>3. CASE Head(passes).gap /\ marks' = sent \cup GapMarks(conf)
  <2>1. 1 \in DOMAIN passes /\ Head(passes) = passes[1] /\ passes[1] \in Jobs
    BY DEF TypeOK
  <2>2. Now \in Nat /\ gapBar \in Nat /\ Now <= gapBar
    BY <1>3, <2>1 DEF Holes, HolesPast, Now, Jobs, Times, TypeOK
  <2>3. ASSUME NEW t \in Trades \cap GapMarks(conf)
        PROVE  t \in TradesOf(found) /\ bos[t] <= gapBar
    <3>1. PICK k \in conf : bos[TradeOf[k]] <= Now /\ t = TradeOf[k]
      BY <2>3 DEF GapMarks, TradesOf, TypeOK
    <3>2. bos[t] \in Nat
      BY DEF TypeOK, Times
    <3>. QED
      BY <2>2, <3>1, <3>2 DEF TradesOf
  <2>. QED
    BY <1>0, <1>1, <1>3, <2>3 DEF Vouched, TradesOf
<1>4. (marks' \cap Trades \subseteq sent) \/ (Head(passes).gap /\ marks' = sent \cup GapMarks(conf))
  BY DEF Scanned, Stale, Unseen, TypeOK
<1>. QED
  BY <1>1, <1>2, <1>3, <1>4

LEMMA MarkNext == MarkInv /\ [Next]_vars => Holes' /\ Vouched'
PROOF
<1>. SUFFICES ASSUME MarkInv, [Next]_vars PROVE Holes' /\ Vouched'
  OBVIOUS
<1>. USE DEF MarkInv
<1>1. CASE NextBar
  BY <1>1, MarkBars
\* A step that adds no mark and no job.
<1>2. ASSUME UNCHANGED <<world, gapBar>>, logged \subseteq logged',
             sent' \cup marks' \subseteq sent \cup marks, HolesPast(queue)', HolesPast(passes)',
             (pc' \in Dispatching /\ cur' = cur /\ pc \in Dispatching) \/ pc' \notin Dispatching
      PROVE  Holes' /\ Vouched'
  BY <1>2 DEF Holes, Vouched, world, TradesOf
<1>3. ASSUME UNCHANGED <<queue, passes, gapBar>> PROVE HolesPast(queue)' /\ HolesPast(passes)'
  BY <1>3 DEF Holes, HolesPast
<1>4. HolesPast(<<>>)
  BY DEF HolesPast
<1>5. CASE UNCHANGED vars
  <2>1. UNCHANGED <<world, gapBar, logged, sent, marks, queue, passes, pc, cur>>
    BY <1>5 DEF vars, disk, memory, seen
  <2>. QED
    BY <1>2, <1>3, <2>1
<1>6. CASE Crash
  <2>1. queue' = <<>> /\ passes' = <<>> /\ UNCHANGED <<world, gapBar, logged, sent>> /\ marks' = {}
       /\ pc' \notin Dispatching
    BY <1>6 DEF Crash, disk, Dispatching
  <2>2. HolesPast(queue)' /\ HolesPast(passes)'
    BY <2>1 DEF HolesPast
  <2>. QED
    BY <1>2, <2>1, <2>2
<1>7. CASE TakeJobs
  <2>1. passes' = Passes(queue) /\ queue' = <<>> /\ UNCHANGED <<world, gapBar, logged, sent, marks>>
       /\ pc' \notin Dispatching
    BY <1>7 DEF TakeJobs, disk, seen, Dispatching
  <2>2. HolesPast(queue)'
    BY <2>1 DEF HolesPast
  <2>3. HolesPast(passes)'
    BY <1>7, <2>1, PassesOf DEF HolesPast, Holes, TakeJobs, TypeOK
  <2>. QED
    BY <1>2, <2>1, <2>2, <2>3
<1>8. CASE Scan \/ ScanStale
  BY <1>8, MarkScan DEF Scan, ScanStale, disk, seen, TypeOK
<1>9. CASE ScanRaises
  <2>1. passes' = <<>> /\ UNCHANGED <<world, gapBar, logged, sent, marks, queue>>
       /\ pc' \notin Dispatching
    BY <1>9 DEF ScanRaises, disk, Dispatching
  <2>2. HolesPast(queue)' /\ HolesPast(passes)'
    BY <2>1 DEF HolesPast, Holes
  <2>. QED
    BY <1>2, <2>1, <2>2
<1>10. CASE WriteSent
  <2>1. passes' = Tail(passes) /\ UNCHANGED <<world, gapBar, logged, queue, marks>> /\ sent' = marks
       /\ pc' \notin Dispatching
    BY <1>10 DEF WriteSent, Dispatching
  <2>2. passes # <<>> /\ passes \in Seq(Jobs)
    BY <1>10 DEF WriteSent, TypeOK
  <2>3. \A i \in DOMAIN Tail(passes) : i + 1 \in DOMAIN passes /\ Tail(passes)[i] = passes[i + 1]
    BY <2>2
  <2>4. HolesPast(queue)' /\ HolesPast(passes)'
    BY <2>1, <2>3 DEF HolesPast, Holes
  <2>. QED
    BY <1>2, <2>1, <2>4
<1>11. CASE Dispatch
  <2>1. UNCHANGED <<world, gapBar, sent, queue, passes>>
    BY <1>11 DEF Dispatch, Suppress, Block, Reserve, ClaimEntry, Post, Note, Finish, Fail, seen
  <2>2. HolesPast(queue)' /\ HolesPast(passes)'
    BY <1>3, <2>1
  <2>3. ASSUME NEW t \in Trades, t \in TradesOf(found), logged' = logged \cup {t}, Marked(t),
               pc' \notin Dispatching
        PROVE  Holes' /\ Vouched'
    <3>1. Members(t) \cap Trades = {}
      BY IntakeAssumption DEF Members, TypeOK
    <3>. QED
      BY <2>1, <2>2, <2>3, <3>1 DEF Holes, Vouched, Marked, world, TradesOf
  <2>4. ASSUME NEW t \in Trades, Members(t) # {} PROVE t \in TradesOf(found)
    BY <2>4 DEF Members, TradesOf, TypeOK
  <2>5. ASSUME NEW t \in Trades, Suppress(t) PROVE Holes' /\ Vouched'
    BY <2>3, <2>4, <2>5 DEF Suppress, Dispatching
  <2>6. CASE Finish
    <3>1. cur \in Trades /\ cur \in TradesOf(found)
      BY <2>6 DEF Finish, TypeOK, Vouched, Dispatching
    <3>. QED
      BY <2>3, <2>6, <3>1 DEF Finish, Dispatching
  <2>7. ASSUME NEW t \in Trades, Block(t) PROVE Holes' /\ Vouched'
    BY <1>2, <2>1, <2>2, <2>7 DEF Block, Dispatching
  <2>8. ASSUME NEW t \in Trades, Reserve(t) PROVE Holes' /\ Vouched'
    <3>1. t \in TradesOf(found) /\ cur' = t /\ UNCHANGED <<marks, logged>>
      BY <2>4, <2>8 DEF Reserve
    <3>. QED
      BY <2>1, <2>2, <3>1 DEF Holes, Vouched, world, TradesOf
  <2>9. CASE Fail
    BY <1>2, <2>1, <2>2, <2>9 DEF Fail, Dispatching
  <2>10. ASSUME ClaimEntry \/ Note \/ \E reply \in Replies, stands \in BOOLEAN : Post(reply, stands)
         PROVE  Holes' /\ Vouched'
    <3>1. UNCHANGED <<marks, logged, cur>> /\ pc \in Dispatching
      BY <2>10 DEF ClaimEntry, Post, Note, Dispatching
    <3>. QED
      BY <1>2, <2>1, <2>2, <3>1
  <2>. QED
    BY <1>11, <2>5, <2>6, <2>7, <2>8, <2>9, <2>10 DEF Dispatch
<1>12. CASE Retire \/ EndPass \/ Truncate
  <2>1. UNCHANGED <<world, gapBar, queue, passes, marks, logged>> /\ sent' \subseteq sent
       /\ pc' \notin Dispatching
    BY <1>12 DEF Retire, EndPass, Truncate, Dispatching, disk, seen
  <2>. QED
    BY <1>2, <1>3, <2>1
<1>. QED
  BY <1>1, <1>5, <1>6, <1>7, <1>8, <1>9, <1>10, <1>11, <1>12 DEF Next, Worker

(* No trade is marked as dealt with that was neither recorded nor broke          *)
(* structure before a hole in the feed (_process_new).                           *)
THEOREM NoneSwallowed == Spec => []NothingSwallowed
PROOF
<1>1. Init => MarkInv
  BY TypeInit, MarkInit DEF MarkInv
<1>2. MarkInv /\ [Next]_vars => MarkInv'
  BY TypeNext, MarkNext DEF MarkInv
<1>3. MarkInv => NothingSwallowed
  BY DEF MarkInv, Vouched, NothingSwallowed
<1>. QED
  BY <1>1, <1>2, <1>3, PTL DEF Spec

-----------------------------------------------------------------------------
(* A catch-up setup is never ordered *)

Handling == {"pick", "claim", "post", "note", "finish", "fail"}

\* The file is torn only while it is written and, while it is whole, holds every
\* trade a finished gap pass has seen; so do the marks of a pass at work, and it
\* has none of them in hand.
FileHolds ==
  /\ cleared # {} => primed /\ file # "missing"
  /\ pc = "write" => file = "torn"
  /\ pc # "write" => file # "torn" /\ cleared \subseteq sent
SetAside ==
  /\ pc \in Handling \cup {"save", "write"} => cleared \subseteq marks
  /\ pc \in Handling => \A k \in live : TradeOf[k] \notin cleared
  /\ pc \in Handling \ {"pick"} => cur \notin cleared
\* A gap pass dispatches nothing, and saves what it has seen.
GapPass ==
  primed /\ Head(passes).gap =>
    /\ pc \notin Handling
    /\ pc \in {"save", "write"} => {t \in TradesOf(out) : bos[t] <= Now} \subseteq marks

Kept == FileHolds /\ SetAside /\ GapPass
CatchInv == TypeOK /\ OneWorker /\ (forgot \/ Kept)

LEMMA CatchInit == Init => Kept
PROOF
<1>. SUFFICES ASSUME Init PROVE Kept
  OBVIOUS
<1>1. pc = "off" /\ cleared = {} /\ file # "torn"
  BY DEF Init
<1>. QED
  BY <1>1 DEF Kept, FileHolds, SetAside, GapPass, Handling

LEMMA CatchBars ==
  ASSUME CatchInv, Kept, NextBar
  PROVE  Kept'
PROOF
<1>. USE DEF CatchInv
<1>1. UNCHANGED <<cleared, primed, file, sent, marks, live, cur, passes, out>>
  BY DEF NextBar, Bars, disk
<1>2. pc' = pc \/ (pc = "off" /\ pc' = "take")
  <2>1. pc' = IF running THEN pc ELSE "take"
    BY Zenon DEF NextBar, Bars, Schedule
  <2>2. running \/ pc = "off"
    BY DEF OneWorker
  <2>. QED
    BY <2>1, <2>2
<1>3. \A t \in TradesOf(out) : bos'[t] = bos[t]
  <2>1. TradesOf(out) \subseteq TradesOf(found)
    BY DEF TradesOf, TypeOK
  <2>. QED
    BY <2>1, BarKeeps
<1>4. {t \in TradesOf(out)' : bos'[t] <= Now'} = {t \in TradesOf(out) : bos[t] <= Now}
  BY <1>1, <1>3 DEF TradesOf, Now
<1>5. FileHolds' /\ SetAside'
  BY <1>1, <1>2 DEF Kept, FileHolds, SetAside, Handling
<1>6. GapPass'
  <2>1. CASE pc' = pc
    <3>1. pc' = pc /\ primed' = primed /\ passes' = passes /\ marks' = marks
      BY <1>1, <2>1
    <3>. QED
      BY <3>1, <1>4 DEF Kept, GapPass
  <2>2. CASE pc' = "take"
    BY <2>2 DEF GapPass, Handling
  <2>. QED
    BY <1>2, <2>1, <2>2
<1>. QED
  BY <1>5, <1>6 DEF Kept

LEMMA CatchScan ==
  ASSUME CatchInv, Kept, pc = "scan", NEW conf \in SUBSET found, Scanned(conf), out' = conf,
         UNCHANGED <<world, sent, file, primed, passes, cur, cleared>>
  PROVE  Kept'
PROOF
<1>. USE IntakeAssumption DEF CatchInv
<1>1. cleared \subseteq sent /\ file # "torn" /\ (cleared # {} => primed /\ file # "missing")
  BY DEF Kept, FileHolds
<1>2. pc' \in {"save", "pick"}
  BY DEF Scanned
<1>3. FileHolds'
  BY <1>1, <1>2 DEF FileHolds
<1>4. cleared \subseteq marks'
  <2>1. CASE ~primed
    BY <1>1, <2>1
  <2>2. CASE primed
    BY <1>1, <2>2 DEF Scanned
  <2>. QED
    BY <2>1, <2>2
<1>5. \A k \in live' : TradeOf[k] \notin cleared
  <2>1. live' = {} \/ live' \subseteq Unseen(conf)
    BY DEF Scanned
  <2>. QED
    BY <1>1, <2>1 DEF Unseen
<1>6. SetAside'
  BY <1>2, <1>4, <1>5 DEF SetAside, Handling
<1>7. GapPass'
  <2>1. SUFFICES ASSUME primed, Head(passes).gap
                 PROVE  pc' = "save" /\ {t \in TradesOf(conf) : bos[t] <= Now} \subseteq marks'
    <3>1. UNCHANGED <<primed, passes, bos>>
      BY DEF world
    <3>. QED
      BY <2>1, <3>1 DEF GapPass, Handling, TradesOf, Now
  <2>2. pc' = "save" /\ marks' = sent \cup GapMarks(conf)
    BY <2>1 DEF Scanned
  <2>3. {t \in TradesOf(conf) : bos[t] <= Now} \subseteq GapMarks(conf)
    BY DEF GapMarks, TradesOf
  <2>. QED
    BY <2>2, <2>3
<1>. QED
  BY <1>3, <1>6, <1>7 DEF Kept

LEMMA CatchWrite ==
  ASSUME CatchInv, Kept, WriteSent
  PROVE  Kept'
PROOF
<1>. USE DEF CatchInv
<1>1. sent' = marks /\ file' = "whole" /\ primed' = TRUE /\ pc = "write" /\ pc' \in {"take", "scan"}
  BY DEF WriteSent
<1>2. cleared \subseteq marks
  BY <1>1 DEF Kept, SetAside
<1>3. cleared' \subseteq marks
  <2>1. CASE primed /\ Head(passes).gap
    <3>1. {t \in TradesOf(out) : bos[t] <= Now} \subseteq marks
      BY <1>1, <2>1 DEF Kept, GapPass
    <3>2. cleared' = cleared \cup {t \in TradesOf(out) : bos[t] <= Now}
      BY <2>1 DEF WriteSent
    <3>. QED
      BY <1>2, <3>1, <3>2
  <2>2. CASE ~(primed /\ Head(passes).gap)
    <3>1. cleared' = cleared
      BY <2>2 DEF WriteSent
    <3>. QED
      BY <1>2, <3>1
  <2>. QED
    BY <2>1, <2>2
<1>4. pc' \notin Handling /\ pc' \notin {"save", "write"}
  BY <1>1 DEF Handling
<1>5. FileHolds'
  BY <1>1, <1>3 DEF FileHolds
<1>6. SetAside' /\ GapPass'
  BY <1>4 DEF SetAside, GapPass
<1>. QED
  BY <1>5, <1>6 DEF Kept

LEMMA CatchDispatch ==
  ASSUME CatchInv, Kept, Dispatch
  PROVE  Kept'
PROOF
<1>. USE DEF CatchInv
<1>1. /\ UNCHANGED <<world, out, sent, file, primed, passes, cleared>>
      /\ pc \in Handling /\ pc' \in Handling /\ pc # "write" /\ pc' # "write"
      /\ live' \subseteq live /\ marks \subseteq marks'
  BY DEF Dispatch, Suppress, Block, Reserve, ClaimEntry, Post, Note, Finish, Fail, Marked, Done,
         Handling, seen
<1>2. FileHolds'
  BY <1>1 DEF Kept, FileHolds
<1>3. GapPass'
  BY <1>1 DEF Kept, GapPass
<1>4. pc' \in Handling \ {"pick"} => cur' \notin cleared
  <2>1. ASSUME NEW t \in Trades, Reserve(t) PROVE cur' \notin cleared
    BY <1>1, <2>1 DEF Reserve, Members, Kept, SetAside
  <2>2. ASSUME NEW t \in Trades, Suppress(t) \/ Block(t) PROVE pc' = "pick"
    BY <2>2 DEF Suppress, Block
  <2>3. CASE ClaimEntry \/ Note \/ \E reply \in Replies, stands \in BOOLEAN : Post(reply, stands)
    BY <2>3 DEF ClaimEntry, Note, Post, Kept, SetAside, Handling
  <2>4. CASE Finish \/ Fail
    BY <2>4 DEF Finish, Fail
  <2>. QED
    BY <2>1, <2>2, <2>3, <2>4 DEF Dispatch
<1>5. SetAside'
  BY <1>1, <1>4 DEF Kept, SetAside
<1>. QED
  BY <1>2, <1>3, <1>5 DEF Kept

LEMMA CatchNext == CatchInv /\ [Next]_vars => (forgot \/ Kept)'
PROOF
<1>. SUFFICES ASSUME CatchInv, [Next]_vars PROVE (forgot \/ Kept)'
  OBVIOUS
<1>1. forgot => forgot'
  BY Zenon DEF vars, seen, Next, NextBar, Bars, Crash, Worker, Retire, TakeJobs, Scan, ScanStale,
     ScanRaises, Dispatch, Suppress, Block, Reserve, ClaimEntry, Post, Note, Finish, Fail,
     EndPass, Truncate, WriteSent
<1>2. SUFFICES ASSUME Kept, ~forgot' PROVE Kept'
  BY <1>1 DEF CatchInv
<1>3. CASE UNCHANGED vars
  BY <1>2, <1>3 DEF vars, world, disk, memory, seen, Kept, FileHolds, SetAside, GapPass, TradesOf, Now
<1>4. CASE NextBar
  BY <1>2, <1>4, CatchBars
<1>5. CASE Crash
  <2>1. file # "torn"
    BY <1>2, <1>5, Zenon DEF Crash
  <2>2. pc' = "off" /\ UNCHANGED <<file, sent, cleared>>
    BY <1>5 DEF Crash, disk
  <2>3. cleared \subseteq sent
    <3>1. pc # "write"
      BY <1>2, <2>1 DEF Kept, FileHolds
    <3>. QED
      BY <1>2, <3>1 DEF Kept, FileHolds
  <2>4. cleared # {} => primed'
    <3>1. cleared # {} => file # "missing"
      BY <1>2 DEF Kept, FileHolds
    <3>2. primed' = (file # "missing")
      BY <1>5, Zenon DEF Crash
    <3>. QED
      BY <3>1, <3>2, Zenon
  <2>5. FileHolds'
    BY <1>2, <2>1, <2>2, <2>3, <2>4 DEF Kept, FileHolds
  <2>6. SetAside' /\ GapPass'
    BY <2>2 DEF SetAside, GapPass, Handling
  <2>. QED
    BY <2>5, <2>6 DEF Kept
<1>6. CASE Dispatch
  BY <1>2, <1>6, CatchDispatch
<1>7. CASE Scan \/ ScanStale
  <2>1. UNCHANGED <<world, sent, file, primed, passes, cur, cleared>> /\ pc = "scan"
    BY <1>7 DEF Scan, ScanStale, disk, seen
  <2>2. CASE Scan
    BY <1>2, <2>1, <2>2, CatchScan DEF Scan
  <2>3. CASE ScanStale
    <3>1. out \in SUBSET found /\ out' = out /\ Scanned(out)
      BY <2>3 DEF ScanStale, disk, CatchInv, TypeOK
    <3>. QED
      BY <1>2, <2>1, <3>1, CatchScan
  <2>. QED
    BY <1>7, <2>2, <2>3
<1>8. CASE WriteSent
  BY <1>2, <1>8, CatchWrite
<1>9. CASE Retire \/ TakeJobs \/ ScanRaises
  <2>1. UNCHANGED <<file, sent, cleared, primed>> /\ pc # "write" /\ pc' \in {"off", "take", "scan"}
    BY <1>9 DEF Retire, TakeJobs, ScanRaises, disk, seen
  <2>. QED
    BY <1>2, <2>1 DEF Kept, FileHolds, SetAside, GapPass, Handling
<1>10. CASE EndPass
  <2>1. UNCHANGED <<world, file, sent, cleared, primed, marks, passes, out>> /\ pc = "pick" /\ pc' = "save"
    BY <1>10 DEF EndPass, disk, seen
  <2>2. ~(primed /\ Head(passes).gap)
    BY <1>2, <2>1 DEF Kept, GapPass, Handling
  <2>3. FileHolds' /\ SetAside'
    BY <1>2, <2>1 DEF Kept, FileHolds, SetAside, Handling
  <2>4. GapPass'
    BY <2>1, <2>2 DEF GapPass
  <2>. QED
    BY <2>3, <2>4 DEF Kept
<1>11. CASE Truncate
  <2>1. UNCHANGED <<world, cleared, primed, marks, passes, out>> /\ pc = "save" /\ pc' = "write" /\ file' = "torn"
    BY <1>11 DEF Truncate, seen
  <2>2. FileHolds' /\ SetAside'
    BY <1>2, <2>1 DEF Kept, FileHolds, SetAside, Handling
  <2>3. GapPass'
    BY <1>2, <2>1 DEF Kept, GapPass, Handling, TradesOf, Now, world
  <2>. QED
    BY <2>2, <2>3 DEF Kept
<1>. QED
  BY <1>3, <1>4, <1>5, <1>6, <1>7, <1>8, <1>9, <1>10, <1>11 DEF Next, Worker

LEMMA CatchInvariant == Spec => []CatchInv
PROOF
<1>1. Init => CatchInv
  BY TypeInit, WorkerInit, CatchInit DEF CatchInv
<1>2. CatchInv /\ [Next]_vars => CatchInv'
  BY TypeNext, WorkerNext, CatchNext DEF CatchInv
<1>. QED
  BY <1>1, <1>2, PTL DEF Spec

\* Orders change only when the trade in hand is posted.
LEMMA OrderedInHand ==
  ASSUME TypeOK, [Next]_vars, NEW t \in Trades, orders'[t] > orders[t]
  PROVE  pc = "post" /\ t = cur
PROOF
<1>1. CASE UNCHANGED orders
  BY <1>1 DEF TypeOK
<1>2. CASE \E reply \in Replies, stands \in BOOLEAN : Post(reply, stands)
  BY <1>2 DEF Post, TypeOK
<1>. QED
  BY <1>1, <1>2 DEF vars, seen, Next, NextBar, Bars, Crash, Worker, Retire, TakeJobs, Scan,
     ScanStale, ScanRaises, Dispatch, Suppress, Block, Reserve, ClaimEntry, Note, Finish, Fail,
     EndPass, Truncate, WriteSent

(* What a gap pass has set aside is never ordered, under another catalyst or     *)
(* after a restart, as long as no restart tore the file (_process_new).          *)
THEOREM NeverCaughtUp == Spec => NoCatchUp
PROOF
<1>1. CatchInv /\ [Next]_vars => [\A t \in cleared : orders'[t] > orders[t] => forgot]_vars
  <2>1. SUFFICES ASSUME CatchInv, [Next]_vars, NEW t \in cleared, orders'[t] > orders[t]
                 PROVE  forgot
    OBVIOUS
  <2>2. t \in Trades
    BY <2>1 DEF CatchInv, TypeOK
  <2>3. pc = "post" /\ t = cur
    BY <2>1, <2>2, OrderedInHand DEF CatchInv
  <2>. QED
    BY <2>1, <2>3 DEF CatchInv, Kept, SetAside, Handling
<1>. QED
  BY <1>1, CatchInvariant, PTL DEF Spec, NoCatchUp
=============================================================================
