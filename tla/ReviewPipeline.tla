---------------------------- MODULE ReviewPipeline ----------------------------
(***************************************************************************)
(* From closed bars to an entry plan in services/tanja: one SQLite file    *)
(* and the threads that share it, each statement block a transaction.      *)
(*                                                                         *)
(*   - feed requests (app.py /feed, store.ingest) store bars and queue a   *)
(*     job when every series has the minute;                               *)
(*   - the worker (worker.run_worker) turns a job into a context packet;   *)
(*   - the reviewers (ai_review.AIReview.process_one) pay for one review   *)
(*     of a packet: "service" is the service's own thread, "manual" the    *)
(*     operator's process (manual_ai_review.py) on the same file;          *)
(*   - the plan observer records what each ended review is worth;          *)
(*   - the selection observer decides, once per cutoff, whether the latest *)
(*     review carries a plan.                                              *)
(*                                                                         *)
(* A bar is named by the minute it ends at.  The clock counts minutes; two *)
(* events of one minute may come in either order.                          *)
(***************************************************************************)
EXTENDS Integers, FiniteSets, FiniteSetsExt

CONSTANTS
  Series,     \* the series a job needs
  Watched,    \* those whose price can end a thesis: analysis and execution
  Reviewers,  \* subset of {"service", "manual"}
  LateLimit,  \* age at which intake refuses a bar
  Fresh,      \* age at which a packet is too old to review
  Contig,     \* closed bars a review must find without a gap
  WindowEnd,  \* end of the review window, which "manual" waives
  Interval,   \* TANJA_AI_MIN_INTERVAL_MINUTES
  Daily,      \* TANJA_AI_MAX_CALLS_PER_DAY
  Lifetime,   \* how long a review's context stays valid
  MaxBar,     \* bound: bars of minutes 1..MaxBar
  MaxTime,    \* bound: the clock
  MaxGaps,    \* bound: bars of past minutes not stored at a time
  MaxRequests,\* bound: validated bars waiting at a time
  MaxFaults   \* bound: restarts, kills of the manual process, failed jobs and
              \* final writes of a review that time out

ASSUME ReviewPipelineAssumption ==
  /\ Watched \subseteq Series
  /\ Reviewers \subseteq {"service", "manual"}
  /\ {LateLimit, Fresh, Contig, WindowEnd, Interval, Daily, Lifetime} \subseteq Nat
  /\ {MaxBar, MaxTime, MaxGaps, MaxRequests, MaxFaults} \subseteq Nat
  /\ Lifetime <= Interval  \* at most 900 s, at least 900 s

Minutes  == 1..MaxBar
Clock    == 0..MaxTime
NoMinute == 0

VARIABLES
  now, faults,
  revision,  \* TANJA_AI_REVISION
  request,   \* validated bars on their way to store.ingest
  bars,      \* tables bars and collection_bars
  jobs,      \* table nq_jobs, with the packet's bars
  runs,      \* table ai_runs: at most one per packet, a packet per cutoff
  observed,  \* table plan_observations
  picks,     \* table auto_selections
  worker, review, \* what the threads carry
  posts,     \* history: requests sent to the model, by cutoff
  overtaken  \* history: jobs whose history gained a bar after they were queued

env     == <<now, faults, revision>>
history == <<posts, overtaken>>
vars == <<env, request, bars, jobs, runs, observed, picks, worker, review, history>>

-----------------------------------------------------------------------------
(* Bars and jobs *)

NoBar == [received |-> -1, touch |-> FALSE]
NoJob == [status |-> "none", frozen |-> 0, packet |-> {}]
NoRun == [status |-> "none", config |-> 0, started |-> 0, finished |-> 0, arms |-> FALSE]
NoPick == [state |-> "none", run |-> NoMinute, frozen |-> 0]

Stored(s, m) == bars[s][m] # NoBar

(* store.history: what a snapshot taken at `frozen` knows of a series. *)
Known(s, m, frozen) == Stored(s, m) /\ bars[s][m].received <= frozen

LatestJob == Max({NoMinute} \cup {m \in Minutes : jobs[m].status # "none"})

IdleWorker   == [at |-> "idle", cutoff |-> NoMinute]
IdleReviewer == [at |-> "idle", cutoff |-> NoMinute, started |-> 0, config |-> 0, answer |-> "none"]

Init ==
  /\ now = 0 /\ faults = 0 /\ revision = 1
  /\ request = {}
  /\ bars = [s \in Series |-> [m \in Minutes |-> NoBar]]
  /\ jobs = [m \in Minutes |-> NoJob]
  /\ runs = [m \in Minutes |-> NoRun]
  /\ observed = [m \in Minutes |-> "none"]
  /\ picks = [m \in Minutes |-> NoPick]
  /\ worker = IdleWorker
  /\ review = [r \in Reviewers |-> IdleReviewer]
  /\ posts = [m \in Minutes |-> 0] /\ overtaken = {}

Touched == {p \in Series \X Minutes : bars[p[1]][p[2]].touch}

(* Something goes wrong: MaxFaults times at most. *)
Fault == faults < MaxFaults /\ faults' = faults + 1

(* What validate_bar lets through; a request reads the clock before the file. *)
Arriving ==
  {q \in [series : Series, minute : Minutes, received : {now}, touch : BOOLEAN] :
     /\ q.minute <= now /\ now - q.minute <= LateLimit
     /\ q.touch => q.series \in Watched /\ Touched \subseteq {<<q.series, q.minute>>}}

(* A validated bar waits for the file. *)
Hold(q) ==
  /\ q \in Arriving /\ Cardinality(request) < MaxRequests
  /\ request' = request \cup {q}
  /\ UNCHANGED <<env, bars, jobs, runs, observed, picks, worker, review, history>>

(* store.ingest: a duplicate changes nothing, a conflicting one neither. *)
Ingest(q) ==
  /\ q \in request \cup Arriving
  /\ request' = request \ {q}
  /\ IF Stored(q.series, q.minute)
       THEN UNCHANGED <<bars, jobs, overtaken>>
       ELSE /\ bars' = [bars EXCEPT ![q.series][q.minute] = [received |-> q.received, touch |-> q.touch]]
            /\ jobs' = IF /\ \A s \in Series \ {q.series} : Stored(s, q.minute)
                          /\ q.minute > LatestJob
                         THEN [jobs EXCEPT ![q.minute] = [NoJob EXCEPT !.status = "queued", !.frozen = q.received]]
                         ELSE jobs
            /\ overtaken' = overtaken \cup
                 {m \in Minutes : jobs[m].status # "none" /\ q.minute <= m /\ q.received <= jobs[m].frozen}
  /\ UNCHANGED <<env, runs, observed, picks, worker, review, posts>>

-----------------------------------------------------------------------------
(* The worker *)

(* Mutant: jobs cut off by a restart stay in processing. *)
WorkerRecoverNothing ==
  /\ worker.at = "recover"
  /\ worker' = IdleWorker
  /\ UNCHANGED <<env, request, bars, jobs, runs, observed, picks, review, history>>

WorkerRecover ==
  /\ worker.at = "recover"
  /\ jobs' = [m \in Minutes |-> IF jobs[m].status = "processing"
                                  THEN [jobs[m] EXCEPT !.status = "queued"] ELSE jobs[m]]
  /\ worker' = IdleWorker
  /\ UNCHANGED <<env, request, bars, runs, observed, picks, review, history>>

Queued == {m \in Minutes : jobs[m].status = "queued"}

ClaimJob ==
  /\ worker.at = "idle" /\ Queued # {}
  /\ LET m == Min(Queued) IN
       /\ jobs' = [jobs EXCEPT ![m].status = "processing"]
       /\ worker' = [at |-> "process", cutoff |-> m]
  /\ UNCHANGED <<env, request, bars, runs, observed, picks, review, history>>

(* The packet is built from what the snapshot knows.  Nobody sees it before the  *)
(* job is finished, so reading and finishing are one step.  An exception on the   *)
(* way fails the job for good.                                                    *)
FinishJob ==
  /\ worker.at = "process"
  /\ LET m == worker.cutoff
         packet == {p \in Series \X (1..m) : Known(p[1], p[2], jobs[m].frozen)}
     IN \/ jobs' = [jobs EXCEPT ![m] = [@ EXCEPT !.status = "done", !.packet = packet]] /\ UNCHANGED faults
        \/ jobs' = [jobs EXCEPT ![m].status = "failed"] /\ Fault
  /\ worker' = IdleWorker
  /\ UNCHANGED <<now, revision, request, bars, runs, observed, picks, review, history>>

-----------------------------------------------------------------------------
(* A review *)

(* Mutant: the gap check is left to the packet. *)
GateAnyHistory(r, m) ==
  /\ jobs[m].status = "done"
  /\ now - m <= Fresh /\ jobs[m].frozen <= now
  /\ r = "manual" \/ now <= WindowEnd

(* AIReview.gate: it reads the bars again, as of the packet's snapshot. *)
Gate(r, m) ==
  /\ jobs[m].status = "done"
  /\ now - m <= Fresh /\ jobs[m].frozen <= now
  /\ \A s \in Series, k \in Minutes : k \in (m - Contig + 1)..m => Known(s, k, jobs[m].frozen)
  /\ r = "manual" \/ now <= WindowEnd

Done == {m \in Minutes : jobs[m].status = "done"}
Paid == {m \in Minutes : runs[m].status # "none"}
Running == {m \in Minutes : runs[m].status = "running"}
Ended == {"validated", "failed", "interrupted"}

(* Mutant: an interrupted review does not pause the next. *)
LimitsForgiving(m, config, started) ==
  /\ Running = {}
  /\ Cardinality(Paid) < Daily
  /\ \A k \in Paid : started - runs[k].started >= Interval

(* Mutant: no spacing between reviews. *)
LimitsUnspaced(m, config, started) ==
  /\ Running = {}
  /\ \A k \in Paid : ~(runs[k].config = config /\ runs[k].status \in {"failed", "interrupted"})
  /\ Cardinality(Paid) < Daily
  /\ m \notin Paid

(* AIReview.limits, within one day. *)
Limits(m, config, started) ==
  /\ Running = {}
  /\ \A k \in Paid : ~(runs[k].config = config /\ runs[k].status \in {"failed", "interrupted"})
  /\ Cardinality(Paid) < Daily
  /\ \A k \in Paid : started - runs[k].started >= Interval
  /\ m \notin Paid

(* Mutant: interrupted calls are tried again. *)
ReviewRecoverRetries ==
  /\ "service" \in Reviewers /\ review["service"].at = "recover"
  /\ runs' = [m \in Minutes |-> IF runs[m].status = "running" THEN NoRun ELSE runs[m]]
  /\ review' = [review EXCEPT !["service"] = IdleReviewer]
  /\ UNCHANGED <<env, request, bars, jobs, observed, picks, worker, history>>

(* AIReview.recover: every running row, the manual process's too. *)
ReviewRecover ==
  /\ "service" \in Reviewers /\ review["service"].at = "recover"
  /\ runs' = [m \in Minutes |-> IF runs[m].status = "running"
                                  THEN [runs[m] EXCEPT !.status = "interrupted"] ELSE runs[m]]
  /\ review' = [review EXCEPT !["service"] = IdleReviewer]
  /\ UNCHANGED <<env, request, bars, jobs, observed, picks, worker, history>>

StartReview(r) ==
  /\ review[r].at = "idle" /\ Done # {}
  /\ Gate(r, Max(Done))
  /\ review' = [review EXCEPT ![r] = [@ EXCEPT !.at = "dispatch", !.cutoff = Max(Done), !.config = revision]]
  /\ UNCHANGED <<env, request, bars, jobs, runs, observed, picks, worker, history>>

(* The gate once more, on a second reading of the clock. *)
Dispatch(r) ==
  /\ review[r].at = "dispatch"
  /\ review' = [review EXCEPT ![r] = IF Gate(r, review[r].cutoff)
                                       THEN [@ EXCEPT !.at = "reserve", !.started = now]
                                       ELSE IdleReviewer]
  /\ UNCHANGED <<env, request, bars, jobs, runs, observed, picks, worker, history>>

Reserve(r) ==
  /\ review[r].at = "reserve"
  /\ IF Limits(review[r].cutoff, review[r].config, review[r].started)
       THEN /\ runs' = [runs EXCEPT ![review[r].cutoff] =
                          [status |-> "running", config |-> review[r].config,
                           started |-> review[r].started, finished |-> 0, arms |-> FALSE]]
            /\ review' = [review EXCEPT ![r].at = "call"]
       ELSE review' = [review EXCEPT ![r] = IdleReviewer] /\ UNCHANGED runs
  /\ UNCHANGED <<env, request, bars, jobs, observed, picks, worker, history>>

(* call_openai, and the answer's validation: a context to watch, one to wait on,   *)
(* or no usable answer, which includes an outcome nobody knows.                    *)
Call(r) ==
  /\ review[r].at = "call"
  /\ posts' = [posts EXCEPT ![review[r].cutoff] = @ + 1]
  /\ \E answer \in {"armed", "wait", "failed"} :
       review' = [review EXCEPT ![r] = [@ EXCEPT !.at = "save", !.answer = answer]]
  /\ UNCHANGED <<env, request, bars, jobs, runs, observed, picks, worker, overtaken>>

SaveReview(r) ==
  /\ review[r].at = "save"
  /\ runs' = [runs EXCEPT ![review[r].cutoff] =
                [@ EXCEPT !.finished = now, !.arms = review[r].answer = "armed",
                          !.status = IF review[r].answer = "failed" THEN "failed" ELSE "validated"]]
  /\ review' = [review EXCEPT ![r] = IdleReviewer]
  /\ UNCHANGED <<env, request, bars, jobs, observed, picks, worker, history>>

(* The final write times out on the locked file: the row stays running. *)
LoseReview(r) ==
  /\ review[r].at = "save" /\ Fault
  /\ review' = [review EXCEPT ![r] = IdleReviewer]
  /\ UNCHANGED <<now, revision, request, bars, jobs, runs, observed, picks, worker, history>>

-----------------------------------------------------------------------------
(* The observers *)

Causal(m) ==
  m <= jobs[m].frozen /\ jobs[m].frozen <= runs[m].started /\ runs[m].started <= runs[m].finished

Available(m) == IF runs[m].finished > 0 THEN runs[m].finished ELSE runs[m].started

(* Mutant: a review without an end is left out. *)
UnobservedFinished == {m \in Minutes : runs[m].status \in Ended /\ observed[m] = "none" /\ runs[m].finished \in 1..now}

Unobserved == {m \in Minutes : runs[m].status \in Ended /\ observed[m] = "none" /\ Available(m) <= now}

(* Mutant: the status of the review is recorded as it stands. *)
ObserveStatus ==
  /\ \E m \in Unobserved : observed' = [observed EXCEPT ![m] = runs[m].status]
  /\ UNCHANGED <<env, request, bars, jobs, runs, picks, worker, review, history>>

(* PlanObserver.process_one: the oldest ended review without an observation. *)
Observe ==
  /\ \E m \in Unobserved :
       /\ \A k \in Unobserved : Available(m) <= Available(k)
       /\ observed' = [observed EXCEPT ![m] =
                         IF runs[m].status # "validated" THEN "not validated"
                         ELSE IF Causal(m) THEN "assessed" ELSE "rejected"]
  /\ UNCHANGED <<env, request, bars, jobs, runs, picks, worker, review, history>>

LatestKnown(s, frozen) == Max({NoMinute} \cup {m \in Minutes : Known(s, m, frozen)})

(* Mutant: the bar of the cutoff itself is not looked at. *)
MonitoredBefore(source, cutoff, frozen) ==
  \A s \in Watched, k \in Minutes :
    k \in (source + 1)..(cutoff - 1) => Known(s, k, frozen) /\ ~bars[s][k].touch

(* Every bar since the review's cutoff is there, and none ends the thesis. *)
Monitored(source, cutoff, frozen) ==
  \A s \in Watched, k \in Minutes :
    k \in (source + 1)..cutoff => Known(s, k, frozen) /\ ~bars[s][k].touch

(* Mutant: the context does not expire. *)
PermitsForever(m, cutoff, frozen) ==
  /\ runs[m].status = "validated" /\ runs[m].arms
  /\ m <= cutoff /\ cutoff <= frozen /\ runs[m].finished <= frozen
  /\ Causal(m)
  /\ Monitored(m, cutoff, frozen)

(* context_watch.gate and ai_entry_gate.evaluate *)
Permits(m, cutoff, frozen) ==
  /\ runs[m].status = "validated" /\ runs[m].arms
  /\ m <= cutoff /\ cutoff <= frozen /\ runs[m].finished <= frozen
  /\ frozen < m + Lifetime
  /\ Causal(m)
  /\ Monitored(m, cutoff, frozen)

(* SelectionObserver.process_one: the second it freezes at is the clock's, cut   *)
(* short; candles and the latest review are read in one transaction.  What is     *)
(* computed from them is recorded in another; only this thread writes the table,  *)
(* and a restart in between is one before both.                                   *)
Select(frozen) ==
  /\ frozen \in {now - 1, now}
  /\ LET cutoff == Min({LatestKnown(s, frozen) : s \in Series})
         seen   == {m \in Paid : runs[m].started <= frozen}
     IN /\ cutoff # NoMinute /\ picks[cutoff] = NoPick
        /\ \/ picks' = [picks EXCEPT ![cutoff].state = "blocked"]
           \/ \E m \in seen :
                /\ \A k \in seen : runs[k].started <= runs[m].started
                /\ Permits(m, cutoff, frozen)
                /\ picks' = [picks EXCEPT ![cutoff] = [state |-> "plan", run |-> m, frozen |-> frozen]]
  /\ UNCHANGED <<env, request, bars, jobs, runs, observed, worker, review, history>>

-----------------------------------------------------------------------------
Gaps == {p \in Series \X Minutes : p[2] <= now /\ ~Stored(p[1], p[2])}

(* The threads poll every few seconds: a minute only passes when they have done   *)
(* what was waiting for them.  A call lasts up to a minute, a restart any time.   *)
Settled ==
  /\ Queued = {} /\ worker.at # "process" /\ Unobserved = {}
  /\ \A r \in Reviewers : review[r].at \notin {"dispatch", "reserve"}

Tick ==
  /\ now < MaxTime /\ Settled /\ Cardinality(Gaps) <= MaxGaps
  /\ now' = now + 1
  /\ UNCHANGED <<faults, revision, request, bars, jobs, runs, observed, picks,
                 worker, review, history>>

(* The service restarts, with a new TANJA_AI_REVISION or the same. *)
Crash ==
  /\ Fault
  /\ revision' \in {revision, revision + 1}
  /\ request' = {}
  /\ worker' = [IdleWorker EXCEPT !.at = "recover"]
  /\ review' = [r \in Reviewers |-> IF r = "service" THEN [IdleReviewer EXCEPT !.at = "recover"] ELSE review[r]]
  /\ UNCHANGED <<now, bars, jobs, runs, observed, picks, history>>

(* The operator stops the manual process. *)
KillManual ==
  /\ Fault
  /\ "manual" \in Reviewers /\ review["manual"].at # "idle"
  /\ review' = [review EXCEPT !["manual"] = IdleReviewer]
  /\ UNCHANGED <<now, revision, request, bars, jobs, runs, observed, picks, worker, history>>

Work == WorkerRecover \/ ClaimJob \/ FinishJob
Review(r) == StartReview(r) \/ Dispatch(r) \/ Reserve(r) \/ Call(r) \/ SaveReview(r) \/ LoseReview(r)

Next ==
  \/ \E q \in Arriving : Hold(q)
  \/ \E q \in request \cup Arriving : Ingest(q)
  \/ Work
  \/ ReviewRecover \/ \E r \in Reviewers : Review(r)
  \/ Observe \/ \E frozen \in Clock : Select(frozen)
  \/ Tick \/ Crash \/ KillManual

Spec == Init /\ [][Next]_vars

(* The service's threads poll for ever, and a call has a timeout: a thread that  *)
(* can take a step takes one.  Nothing is assumed of the feed, the clock, the    *)
(* operator or restarts.                                                         *)
ServiceReview == ReviewRecover \/ Dispatch("service") \/ Reserve("service")
                 \/ Call("service") \/ SaveReview("service")
FairSpec == Spec /\ WF_vars(Work) /\ WF_vars(ServiceReview) /\ WF_vars(Observe)

-----------------------------------------------------------------------------
(* Properties *)

Bars == [received : Clock \cup {-1}, touch : BOOLEAN]
Jobs == [status : {"none", "queued", "processing", "done", "failed"},
         frozen : Clock, packet : SUBSET (Series \X Minutes)]
Runs == [status : {"none", "running"} \cup Ended, config : Nat,
         started : Clock, finished : Clock, arms : BOOLEAN]
Picks == [state : {"none", "blocked", "plan"}, run : 0..MaxBar, frozen : Int]
WorkerStates == [at : {"idle", "recover", "process"}, cutoff : 0..MaxBar]
ReviewStates == [at : {"idle", "recover", "dispatch", "reserve", "call", "save"},
                 cutoff : 0..MaxBar, started : Clock, config : Nat,
                 answer : {"none", "armed", "wait", "failed"}]

TypeOK ==
  /\ now \in Clock /\ faults \in 0..MaxFaults /\ revision \in Nat
  /\ request \subseteq [series : Series, minute : Minutes, received : Clock, touch : BOOLEAN]
  /\ bars \in [Series -> [Minutes -> Bars]]
  /\ jobs \in [Minutes -> Jobs]
  /\ runs \in [Minutes -> Runs]
  /\ observed \in [Minutes -> {"none", "not validated", "assessed", "rejected"}]
  /\ picks \in [Minutes -> Picks]
  /\ worker \in WorkerStates
  /\ review \in [Reviewers -> ReviewStates]
  /\ posts \in [Minutes -> Nat] /\ overtaken \subseteq Minutes

(* A packet is paid for at most once, whatever restarts and whoever reviews: an   *)
(* ambiguous call is never tried again (AIReview.recover, packet_id UNIQUE).      *)
PaidOnce == \A m \in Minutes : posts[m] <= 1

(* The calls of a day and the time between two reviews are bounded, by the        *)
(* service and the manual process together and across restarts (AIReview.limits). *)
SpendingBounded ==
  /\ Cardinality({m \in Minutes : posts[m] > 0}) <= Daily
  /\ \A m, k \in Paid : runs[m].started < runs[k].started => runs[k].started - runs[m].started >= Interval

(* After a failed or interrupted review no other call is made under the same      *)
(* revision, until the operator changes it.                                       *)
FailurePauses ==
  [][\A m, k \in Minutes :
       posts'[m] > posts[m] /\ k # m /\ runs[k].status \in {"failed", "interrupted"}
         => runs[k].config # runs[m].config]_vars

(* A review is only paid for a packet that holds the last closed bars of every    *)
(* series, unless a bar was still on its way when the packet was built.           *)
FullPacket ==
  \A m \in Minutes \ overtaken :
    posts[m] > 0 => \A s \in Series, k \in Minutes :
                      k \in (m - Contig + 1)..m => <<s, k>> \in jobs[m].packet

(* A plan rests on the latest review started by then, also when that review's row *)
(* was only committed after the plan was decided.                                 *)
LatestReviewDecides ==
  \A c \in Minutes :
    picks[c].state = "plan" =>
      /\ runs[picks[c].run].status = "validated"
      /\ \A k \in Paid : runs[k].started <= picks[c].frozen => runs[k].started <= runs[picks[c].run].started

(* No price that ends the thesis lies between a plan's review and its cutoff, not *)
(* even in a bar that arrived after the decision.                                 *)
PlanUntouched ==
  \A c \in Minutes :
    picks[c].state = "plan" =>
      \A s \in Watched, k \in Minutes : k \in (picks[c].run + 1)..c => Stored(s, k) /\ ~bars[s][k].touch

(* A queued minute is analysed or failed, across restarts of the worker.          *)
JobEnds == \A m \in Minutes : jobs[m].status = "queued" ~> jobs[m].status \in {"done", "failed"}

(* What a review ended as is recorded, an interrupted one included.               *)
EndedIsObserved == \A m \in Minutes : runs[m].status \in Ended ~> observed[m] # "none"
=============================================================================
