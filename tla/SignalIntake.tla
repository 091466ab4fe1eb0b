---------------------------- MODULE SignalIntake ----------------------------
(***************************************************************************)
(* From a bar to at most one order: the intake queue of agent.py, its one  *)
(* daemon worker, the file of seen setups (agent_sent.json) and the        *)
(* dispatch of a setup through the guard's reservation, the DOL claim and  *)
(* the relay, across restarts, failed detections and lost replies.         *)
(*                                                                         *)
(* A trade is one entry, stop and break of structure; the detector may     *)
(* report it under several keys, one per catalyst, in different scans.     *)
(*                                                                         *)
(* Mode auto with EXEC_WEBHOOK and WEBHOOK_URL set and the A/B family live;*)
(* one item per setup (siblings are GuardState's); within one day, so the  *)
(* book of the day is never emptied.  The wall clock is the last bar's     *)
(* time.  A silence longer than GapLimit outlasts every batch at work.     *)
(***************************************************************************)
EXTENDS Integers, FiniteSets, SequencesExt

CONSTANTS
  Keys, Trades,
  TradeOf,      \* [Keys -> Trades]: _tkey, the key without its catalyst
  Dol,          \* the trades re-labelled DOL_DELIVERY_REVERSAL
  Fresh,        \* FRESH_MIN: a setup older than this is not alerted
  GapLimit,     \* GAP_REPRIME_MIN: a longer silence is a hole in the feed
  Hold,         \* a reservation's life: fill window and grace
  Replies,      \* what the relay's POST comes back with
  MaxTime,      \* bound: the last bar
  MaxCrashes,   \* bound: restarts
  MaxFails      \* bound: detections that time out or exit nonzero

ASSUME IntakeAssumption ==
  /\ TradeOf \in [Keys -> Trades] /\ Keys \cap Trades = {} /\ Dol \subseteq Trades
  /\ Fresh \in Nat /\ GapLimit \in Nat \ {0} /\ Hold \in Nat
  /\ Replies \subseteq {"accepted", "rejected", "lost"}
  /\ MaxTime \in Nat /\ MaxCrashes \in Nat /\ MaxFails \in Nat

VARIABLES
  \* the feed, and what a detection of the buffer would find
  lastBar, found, bos,
  \* files and databases
  out,          \* the detector's pickle: the last successful detection
  sent, file,   \* agent_sent.json, and whether it is missing, torn or whole
  group,        \* guard_state.json: pending_group
  book,         \* guard_log.json: the trades with a sent row of the day
  claim,        \* the DOL trades' entry rows
  logged,       \* journal.db: the signals recorded
  \* the process
  primed, running, queue, pc, passes, live, marks, cur,
  \* observers
  orders, doubt, cleared, gapBar, forgot, crashes, fails

world == <<lastBar, found, bos>>
disk == <<out, sent, file, group, book, claim, logged>>
memory == <<primed, running, queue, pc, passes, live, marks, cur>>
seen == <<orders, doubt, cleared, gapBar, forgot, crashes, fails>>
vars == <<world, disk, memory, seen>>

Times == 0 .. MaxTime
Jobs == [now : Times, gap : BOOLEAN]
NoGroup == [trade |-> "none", until |-> 0]
Steps == {"off", "take", "scan", "pick", "claim", "post", "note", "finish", "fail", "save", "write"}

TypeOK ==
  /\ lastBar \in Times /\ found \subseteq Keys /\ bos \in [Trades -> Times]
  /\ out \subseteq found /\ sent \subseteq Keys \cup Trades /\ file \in {"missing", "torn", "whole"}
  /\ group \in [trade : Trades \cup {"none"}, until : Int]
  /\ book \subseteq Trades /\ logged \subseteq Trades
  /\ claim \in [Dol -> {"none", "PENDING", "ACCEPTED", "REJECTED", "UNKNOWN"}]
  /\ primed \in BOOLEAN /\ running \in BOOLEAN /\ queue \in Seq(Jobs)
  /\ pc \in Steps /\ passes \in Seq(Jobs)
  /\ pc \notin {"off", "take"} => passes # <<>>
  /\ live \subseteq out /\ marks \subseteq Keys \cup Trades
  /\ cur \in Trades \cup {"none"}
  /\ pc \in {"claim", "post", "note", "finish", "fail"} => cur \in Trades
  /\ orders \in [Trades -> Nat] /\ doubt \subseteq Trades /\ cleared \subseteq Trades
  /\ gapBar \in Times /\ forgot \in BOOLEAN /\ crashes \in Nat /\ fails \in Nat

\* An empty journal; the buffer is seeded up to bar 0.
Init ==
  /\ lastBar = 0 /\ found = {} /\ bos = [t \in Trades |-> 0]
  /\ out = {} /\ sent = {} /\ file \in {"missing", "whole"}
  /\ group = NoGroup /\ book = {} /\ logged = {}
  /\ claim = [t \in Dol |-> "none"]
  /\ primed = (file = "whole") /\ running = FALSE /\ queue = <<>>
  /\ pc = "off" /\ passes = <<>> /\ live = {} /\ marks = {} /\ cur = "none"
  /\ orders = [t \in Trades |-> 0] /\ doubt = {} /\ cleared = {}
  /\ gapBar = 0 /\ forgot = FALSE /\ crashes = 0 /\ fails = 0

Now == Head(passes).now
Members(t) == {k \in live : TradeOf[k] = t}
TradesOf(ks) == {TradeOf[k] : k \in ks}

-----------------------------------------------------------------------------
(* Intake: a bar is appended, its gap read off the last two bars and its   *)
(* job queued, all under _lock.  New keys are found with it; a trade not   *)
(* seen before broke structure on this bar or, noticed late, the one       *)
(* before.                                                                 *)

\* _schedule_bar_work: a worker is started unless the flag says one runs.
Schedule(job) ==
  /\ queue' = Append(queue, job)
  /\ running' = TRUE
  /\ pc' = IF running THEN pc ELSE "take"

Bars(b, new, broke) ==
  LET gap == b - lastBar > GapLimit
  IN /\ gap => queue = <<>> /\ pc \in {"off", "take"}
     /\ lastBar' = b
     /\ found' = found \cup new
     /\ bos' = [t \in Trades |-> IF t \in TradesOf(new) \ TradesOf(found) THEN broke ELSE bos[t]]
     /\ gapBar' = IF gap THEN b ELSE gapBar
     /\ Schedule([now |-> b, gap |-> gap])
     /\ UNCHANGED <<disk, primed, passes, live, marks, cur, orders, doubt, cleared, forgot, crashes, fails>>

NextBar ==
  \E b \in {lastBar + 1, lastBar + GapLimit + 1} \cap Times, new \in SUBSET (Keys \ found) :
    \E broke \in {b, lastBar} : Bars(b, new, broke)

-----------------------------------------------------------------------------
(* The worker                                                              *)

Gaps(jobs) == {i \in DOMAIN jobs : jobs[i].gap}
FirstGap(jobs) == jobs[CHOOSE i \in Gaps(jobs) : \A j \in Gaps(jobs) : i <= j]
Latest(jobs) == [now |-> Last(jobs).now, gap |-> FALSE]

\* Mutant: a batch with a hole in it ends with the hole.
PassesUpToGap(jobs) == <<IF Gaps(jobs) = {} THEN Latest(jobs) ELSE FirstGap(jobs)>>

\* Mutant: the latest bar only when it is later than the first, gap or not.
PassesStrict(jobs) == IF Latest(jobs).now > Head(jobs).now THEN <<Latest(jobs)>> ELSE <<>>

\* _process_bar_jobs: the first gap of the batch, then its latest bar.
Passes(jobs) ==
  IF Gaps(jobs) = {} THEN <<Latest(jobs)>>
  ELSE IF Latest(jobs).now > FirstGap(jobs).now THEN <<FirstGap(jobs), Latest(jobs)>>
  ELSE <<FirstGap(jobs)>>

\* An empty queue ends the worker; the flag falls under the same lock.
Retire ==
  /\ pc = "take" /\ queue = <<>>
  /\ running' = FALSE /\ pc' = "off"
  /\ UNCHANGED <<world, disk, primed, queue, passes, live, marks, cur, seen>>

TakeJobs ==
  /\ pc = "take" /\ queue # <<>>
  /\ passes' = Passes(queue) /\ queue' = <<>> /\ pc' = "scan"
  /\ UNCHANGED <<world, disk, primed, running, live, marks, cur, seen>>

\* Mutant: setups known only by the key that was seen.
GapMarksKeys(conf) == {k \in conf : bos[TradeOf[k]] <= Now}

\* Mutant: setups of later bars, already in the buffer, swallowed too.
GapMarksAll(conf) == conf \cup TradesOf(conf)

\* A gap pass sets aside all it sees up to its bar, under the key and the trade.
GapMarks(conf) ==
  LET old == {k \in conf : bos[TradeOf[k]] <= Now} IN old \cup TradesOf(old)

Unseen(conf) == {k \in conf : k \notin sent /\ TradeOf[k] \notin sent}
Stale(ks) == {k \in ks : Now - bos[TradeOf[k]] > Fresh}

Scanned(conf) ==
  IF ~primed THEN marks' = conf /\ live' = {} /\ pc' = "save"
  ELSE IF Head(passes).gap
       THEN marks' = sent \cup GapMarks(conf) /\ live' = {} /\ pc' = "save"
       ELSE /\ marks' = sent \cup Stale(Unseen(conf))
            /\ live' = Unseen(conf) \ Stale(Unseen(conf))
            /\ pc' = "pick"

\* The detector ran over the buffer as it is now, later bars included.
Scan ==
  /\ pc = "scan"
  /\ out' = found
  /\ Scanned(found)
  /\ UNCHANGED <<world, sent, file, group, book, claim, logged, primed, running, queue, passes, cur, seen>>

\* The detector exits nonzero: the old pickle is read.
ScanStale ==
  /\ pc = "scan" /\ fails < MaxFails
  /\ fails' = fails + 1
  /\ Scanned(out)
  /\ UNCHANGED <<world, disk, primed, running, queue, passes, cur, orders, doubt, cleared, gapBar, forgot, crashes>>

\* It outlasts its 180 s: the batch is lost.
ScanRaises ==
  /\ pc = "scan" /\ fails < MaxFails
  /\ fails' = fails + 1 /\ passes' = <<>> /\ pc' = "take"
  /\ UNCHANGED <<world, disk, primed, running, queue, live, marks, cur, orders, doubt, cleared, gapBar, forgot, crashes>>

-----------------------------------------------------------------------------
(* One trade of the pass                                                   *)

Done(t) == live' = live \ Members(t)
Marked(t) == marks' = marks \cup Members(t) \cup {t}

\* A high-impact release or a choppy regime: recorded, marked, not sent.
Suppress(t) ==
  /\ pc = "pick" /\ Members(t) # {}
  /\ logged' = logged \cup {t} /\ Marked(t) /\ Done(t)
  /\ UNCHANGED <<world, out, sent, file, group, book, claim, primed, running, queue, pc, passes, cur, seen>>

\* guard_ok refuses, for whatever reason: recorded, and tried again next bar.
Block(t) ==
  /\ pc = "pick" /\ Members(t) # {}
  /\ logged' = logged \cup {t} /\ Done(t)
  /\ UNCHANGED <<world, out, sent, file, group, book, claim, primed, running, queue, pc, passes, marks, cur, seen>>

\* Mutant: a re-fire is not recognised.
NeverDuplicate(t) == FALSE

\* guard_ok's is_duplicate and _active_pending_group.
IsDuplicate(t) == t \in book
PendingGroup == group # NoGroup /\ group.until > lastBar

\* guard_ok passes and begin_sibling_batch reserves.
Reserve(t) ==
  /\ pc = "pick" /\ Members(t) # {}
  /\ ~IsDuplicate(t) /\ ~PendingGroup
  /\ group' = [trade |-> t, until |-> lastBar + Hold]
  /\ cur' = t
  /\ pc' = IF t \in Dol THEN "claim" ELSE "post"
  /\ UNCHANGED <<world, out, sent, file, book, claim, logged, primed, running, queue, passes, live, marks, seen>>

Claimed(t) == claim[t] # "none"

\* claim_entry: a row ever submitted is never submitted again.
ClaimEntry ==
  /\ pc = "claim"
  /\ IF Claimed(cur)
     THEN pc' = "fail" /\ UNCHANGED claim
     ELSE pc' = "post" /\ claim' = [claim EXCEPT ![cur] = "PENDING"]
  /\ UNCHANGED <<world, out, sent, file, group, book, logged, primed, running, queue, passes, live, marks, cur, seen>>

\* record_entry_response
Answer(reply) ==
  IF reply = "accepted" THEN "ACCEPTED" ELSE IF reply = "rejected" THEN "REJECTED" ELSE "UNKNOWN"

\* The POST of the order and its reply; a lost reply leaves the order in doubt.
Post(reply, stands) ==
  /\ pc = "post"
  /\ reply = "accepted" => stands
  /\ reply = "rejected" => ~stands
  /\ orders' = [orders EXCEPT ![cur] = IF stands THEN @ + 1 ELSE @]
  /\ doubt' = IF reply = "lost" THEN doubt \cup {cur} ELSE doubt
  /\ claim' = [t \in Dol |-> IF t = cur THEN Answer(reply) ELSE claim[t]]
  /\ pc' = IF reply = "accepted" THEN "note" ELSE "fail"
  /\ UNCHANGED <<world, out, sent, file, group, book, logged, primed, running, queue, passes, live, marks, cur,
                 cleared, gapBar, forgot, crashes, fails>>

\* note(item, 'sent'): the book's row, written whole.
Note ==
  /\ pc = "note"
  /\ book' = book \cup {cur} /\ pc' = "finish"
  /\ UNCHANGED <<world, out, sent, file, group, claim, logged, primed, running, queue, passes, live, marks, cur, seen>>

\* finish_sibling_batch releases the reservation, if it is this setup's.
Released == group' = IF group.trade = cur THEN NoGroup ELSE group

Finish ==
  /\ pc = "finish"
  /\ Released /\ logged' = logged \cup {cur} /\ Marked(cur) /\ Done(cur)
  /\ pc' = "pick" /\ cur' = "none"
  /\ UNCHANGED <<world, out, sent, file, book, claim, primed, running, queue, passes, seen>>

\* Nothing accepted: 'exec-failed', recorded, not marked, tried again next bar.
Fail ==
  /\ pc = "fail"
  /\ Released /\ logged' = logged \cup {cur} /\ Done(cur)
  /\ pc' = "pick" /\ cur' = "none"
  /\ UNCHANGED <<world, out, sent, file, book, claim, primed, running, queue, passes, marks, seen>>

EndPass ==
  /\ pc = "pick" /\ live = {}
  /\ pc' = "save"
  /\ UNCHANGED <<world, disk, primed, running, queue, passes, live, marks, cur, seen>>

-----------------------------------------------------------------------------
(* _save_sent opens the file for writing, which empties it, then writes.   *)

Truncate ==
  /\ pc = "save"
  /\ file' = "torn" /\ sent' = {} /\ pc' = "write"
  /\ UNCHANGED <<world, out, group, book, claim, logged, primed, running, queue, passes, live, marks, cur, seen>>

\* The trades a finished gap pass has seen are set aside for good.
WriteSent ==
  /\ pc = "write"
  /\ sent' = marks /\ file' = "whole" /\ primed' = TRUE
  /\ cleared' = IF primed /\ Head(passes).gap
                THEN cleared \cup {t \in TradesOf(out) : bos[t] <= Now} ELSE cleared
  /\ passes' = Tail(passes)
  /\ pc' = IF Tail(passes) = <<>> THEN "take" ELSE "scan"
  /\ UNCHANGED <<world, out, group, book, claim, logged, running, queue, live, marks, cur,
                 orders, doubt, gapBar, forgot, crashes, fails>>

-----------------------------------------------------------------------------
\* A restart: memory and queue are gone; primed says whether the file exists.
Crash ==
  /\ crashes < MaxCrashes
  /\ crashes' = crashes + 1
  /\ primed' = (file # "missing")
  /\ running' = FALSE /\ queue' = <<>> /\ pc' = "off" /\ passes' = <<>>
  /\ live' = {} /\ marks' = {} /\ cur' = "none"
  /\ forgot' = (forgot \/ file = "torn")
  /\ doubt' = IF pc = "note" THEN doubt \cup {cur} ELSE doubt
  /\ UNCHANGED <<world, disk, orders, cleared, gapBar, fails>>

Dispatch ==
  \/ \E t \in Trades : Suppress(t) \/ Block(t) \/ Reserve(t)
  \/ ClaimEntry
  \/ \E reply \in Replies, stands \in BOOLEAN : Post(reply, stands)
  \/ Note \/ Finish \/ Fail

Worker ==
  \/ Retire \/ TakeJobs
  \/ Scan \/ ScanStale \/ ScanRaises
  \/ Dispatch \/ EndPass
  \/ Truncate \/ WriteSent

Next == NextBar \/ Worker \/ Crash

Spec == Init /\ [][Next]_vars
\* The worker is a daemon thread whose every call has a timeout.
FairSpec == Spec /\ WF_vars(Worker)

-----------------------------------------------------------------------------
(* Properties                                                              *)

\* "one setup = one order": whatever the catalysts, retries, restarts and
\* replies, a setup is ordered once, unless its relay reply was lost or the
\* process died between the reply and note().  A DOL setup is ordered once
\* even then.
OneOrderPerSetup ==
  \A t \in Trades : orders[t] > 1 => t \in doubt \ Dol

\* A setup seen by a finished gap pass, its levels computed across the hole,
\* is never ordered later, under whatever catalyst or after whatever restart,
\* unless a restart tore the file of seen setups.
NoCatchUp ==
  [][\A t \in cleared : orders'[t] > orders[t] => forgot]_vars

\* What is marked as a trade, and so never looked at again, was recorded in
\* the journal or broke structure no later than the last hole in the feed.
NothingSwallowed ==
  \A t \in Trades \cap sent : t \in logged \/ bos[t] <= gapBar

\* Coalescing loses no bar: without failed detections and restarts each key
\* the detector can find is in the end marked or its trade recorded.
EverySetupHandled ==
  \A k \in Keys :
    k \in found ~> (k \in sent \/ TradeOf[k] \in logged \cup sent \/ fails > 0 \/ crashes > 0)

=============================================================================
