------------------------- MODULE ReviewPipeline_proof -------------------------
(***************************************************************************)
(* Type correctness of the review pipeline, and what its spending rules    *)
(* and its plans guarantee for any number of minutes, series, restarts and *)
(* failed writes.                                                          *)
(***************************************************************************)
EXTENDS ReviewPipeline, TLAPS, FiniteSetTheorems, WellFoundedInduction

(* The smallest and the largest element of a set of minutes exist. *)
LEMMA SmallestMinute ==
  ASSUME NEW S \in SUBSET Nat, S # {}
  PROVE  \E d \in S : \A e \in S : d <= e
<1>1. PICK d \in S : \A e \in S : ~(<<e, d>> \in OpToRel(<, Nat))
  BY WFMin, NatLessThanWellFounded, Zenon
<1>2. SUFFICES ASSUME NEW e \in S, ~(d <= e) PROVE FALSE
  OBVIOUS
<1>3. d \in Nat /\ e \in Nat /\ e < d
  BY <1>2
<1>4. <<e, d>> \in {p \in Nat \X Nat : p[1] < p[2]}
  BY <1>3
<1>5. OpToRel(<, Nat) = {p \in Nat \X Nat : p[1] < p[2]}
  BY DEF OpToRel
<1>. QED
  BY <1>1, <1>4, <1>5, Zenon

LEMMA MaxBarType == MaxBar \in Nat /\ MaxTime \in Nat /\ MaxFaults \in Nat
BY ReviewPipelineAssumption DEF ReviewPipelineAssumption

LEMMA MinMinute ==
  ASSUME NEW S \in SUBSET Minutes, S # {}
  PROVE  Min(S) \in S
<1>1. S \in SUBSET Nat
  BY MaxBarType DEF Minutes
<1>2. \E d \in S : \A e \in S : d <= e
  BY <1>1, SmallestMinute
<1>. QED
  BY <1>2 DEF Min

LEMMA MaxMinute ==
  ASSUME NEW S \in SUBSET Minutes, S # {}
  PROVE  Max(S) \in S
<1>. DEFINE D == {MaxBar - m : m \in S}
<1>1. D \in SUBSET Nat /\ D # {}
  <2>1. \A m \in S : MaxBar - m \in Nat
    BY MaxBarType DEF Minutes
  <2>. QED
    BY <2>1
<1>2. PICK d \in D : \A e \in D : d <= e
  <2>. HIDE DEF D
  <2>. QED
    BY <1>1, SmallestMinute
<1>3. PICK x \in S : d = MaxBar - x
  OBVIOUS
<1>4. ASSUME NEW y \in S PROVE x >= y
  <2>1. MaxBar - y \in D
    OBVIOUS
  <2>2. d <= MaxBar - y
    <3>. HIDE DEF D
    <3>. QED
      BY <1>2, <2>1
  <2>. QED
    BY <1>3, <2>2, MaxBarType DEF Minutes
<1>. QED
  BY <1>4 DEF Max

-----------------------------------------------------------------------------
(* Type correctness *)

LEMMA FaultType ==
  ASSUME faults \in 0..MaxFaults, Fault
  PROVE  faults' \in 0..MaxFaults
BY MaxBarType DEF Fault

(* Writing one field keeps a row a row. *)
LEMMA JobRow ==
  ASSUME NEW j \in Jobs, NEW st \in {"queued", "processing", "done", "failed"}
  PROVE  /\ [j EXCEPT !.status = st] \in Jobs
         /\ \A packet \in SUBSET (Series \X Minutes) : [j EXCEPT !.status = st, !.packet = packet] \in Jobs
BY DEF Jobs

LEMMA RunRow ==
  ASSUME NEW u \in Runs, NEW st \in Ended
  PROVE  /\ [u EXCEPT !.status = st] \in Runs
         /\ \A finished \in Clock, arms \in BOOLEAN :
              [u EXCEPT !.finished = finished, !.arms = arms, !.status = st] \in Runs
BY DEF Runs

LEMMA ReviewRow ==
  ASSUME NEW v \in ReviewStates, NEW p \in {"dispatch", "reserve", "call", "save", "recover"}
  PROVE  /\ [v EXCEPT !.at = p] \in ReviewStates
         /\ \A answer \in {"armed", "wait", "failed"} : [v EXCEPT !.at = p, !.answer = answer] \in ReviewStates
BY DEF ReviewStates

LEMMA ReviewStart == Init => TypeOK
<1>. SUFFICES ASSUME Init PROVE TypeOK
  OBVIOUS
<1>1. 0 \in Clock /\ 0 \in 0..MaxFaults /\ 0 \in 0..MaxBar
  BY MaxBarType DEF Clock
<1>2. NoBar \in Bars /\ NoJob \in Jobs /\ NoRun \in Runs /\ NoPick \in Picks
  BY <1>1 DEF NoBar, NoJob, NoRun, NoPick, Bars, Jobs, Runs, Picks, NoMinute
<1>3. IdleWorker \in WorkerStates /\ IdleReviewer \in ReviewStates
  BY <1>1 DEF IdleWorker, IdleReviewer, WorkerStates, ReviewStates, NoMinute
<1>4. jobs \in [Minutes -> Jobs] /\ runs \in [Minutes -> Runs] /\ picks \in [Minutes -> Picks]
  BY <1>2 DEF Init
<1>5. bars \in [Series -> [Minutes -> Bars]]
  BY <1>2 DEF Init
<1>. QED
  BY <1>1, <1>3, <1>4, <1>5 DEF Init, TypeOK

LEMMA TypeIngest ==
  ASSUME TypeOK, NEW q, Hold(q) \/ Ingest(q)
  PROVE  TypeOK'
<1>1. q \in [series : Series, minute : Minutes, received : Clock, touch : BOOLEAN]
  BY DEF TypeOK, Hold, Ingest, Arriving
<1>2. CASE Hold(q)
  BY <1>1, <1>2 DEF TypeOK, Hold, env, history
<1>3. CASE Ingest(q)
  <2>1. CASE Stored(q.series, q.minute)
    BY <1>3, <2>1 DEF TypeOK, Ingest, env, history
  <2>2. CASE ~Stored(q.series, q.minute)
    <3>1. bars' \in [Series -> [Minutes -> Bars]]
      <4>1. [received |-> q.received, touch |-> q.touch] \in Bars
        BY <1>1 DEF Bars
      <4>2. bars \in [Series -> [Minutes -> Bars]]
        BY DEF TypeOK
      <4>3. bars' = [bars EXCEPT ![q.series][q.minute] = [received |-> q.received, touch |-> q.touch]]
        BY <1>3, <2>2 DEF Ingest
      <4>4. q.series \in Series /\ q.minute \in Minutes
        BY <1>1
      <4>. DEFINE bar == [received |-> q.received, touch |-> q.touch]
                  s == q.series
                  m == q.minute
      <4>. HIDE DEF bar, s, m
      <4>5. bar \in Bars /\ s \in Series /\ m \in Minutes /\ bars' = [bars EXCEPT ![s][m] = bar]
        BY <4>1, <4>3, <4>4, Zenon DEF bar, s, m
      <4>. QED
        BY <4>2, <4>5
    <3>2. jobs' \in [Minutes -> Jobs]
      <4>1. [NoJob EXCEPT !.status = "queued", !.frozen = q.received] \in Jobs
        BY <1>1 DEF Jobs, NoJob
      <4>. DEFINE job == [NoJob EXCEPT !.status = "queued", !.frozen = q.received]
                  m == q.minute
      <4>2. jobs' = [jobs EXCEPT ![m] = job] \/ jobs' = jobs
        BY <1>3, <2>2 DEF Ingest
      <4>. HIDE DEF job, m
      <4>3. job \in Jobs /\ jobs \in [Minutes -> Jobs]
        BY <4>1 DEF job, TypeOK
      <4>. QED
        BY <4>2, <4>3
    <3>3. overtaken' \subseteq Minutes
      BY <1>3, <2>2 DEF TypeOK, Ingest
    <3>. QED
      BY <1>3, <3>1, <3>2, <3>3 DEF TypeOK, Ingest, env
  <2>. QED
    BY <2>1, <2>2
<1>. QED
  BY <1>2, <1>3

LEMMA TypeWork ==
  ASSUME TypeOK, Work
  PROVE  TypeOK'
<1>1. IdleWorker \in WorkerStates
  BY MaxBarType DEF IdleWorker, WorkerStates, NoMinute
<1>2. CASE WorkerRecover
  <2>1. jobs' \in [Minutes -> Jobs]
    <3>1. \A m \in Minutes : jobs[m] \in Jobs /\ [jobs[m] EXCEPT !.status = "queued"] \in Jobs
      BY JobRow DEF TypeOK
    <3>. QED
      BY <1>2, <3>1 DEF WorkerRecover
  <2>. QED
    BY <1>1, <1>2, <2>1 DEF TypeOK, WorkerRecover, env, history
<1>3. CASE ClaimJob
  <2>1. Min(Queued) \in Minutes
    BY <1>3, MinMinute DEF ClaimJob, Queued
  <2>2. jobs' \in [Minutes -> Jobs]
    <3>. DEFINE m == Min(Queued)
    <3>1. jobs' = [jobs EXCEPT ![m] = [jobs[m] EXCEPT !.status = "processing"]]
      BY <1>3 DEF ClaimJob
    <3>2. [jobs[m] EXCEPT !.status = "processing"] \in Jobs /\ jobs \in [Minutes -> Jobs]
      BY <2>1, JobRow DEF TypeOK
    <3>. HIDE DEF m
    <3>. QED
      BY <3>1, <3>2
  <2>3. worker' \in WorkerStates
    BY <1>3, <2>1, MaxBarType DEF ClaimJob, WorkerStates, Minutes
  <2>. QED
    BY <1>3, <2>2, <2>3 DEF TypeOK, ClaimJob, env, history
<1>4. CASE FinishJob
  <2>1. jobs' \in [Minutes -> Jobs] /\ faults' \in 0..MaxFaults
    <3>. DEFINE m == worker.cutoff
                packet == {p \in Series \X (1..m) : Known(p[1], p[2], jobs[m].frozen)}
    <3>1. m \in Minutes => packet \in SUBSET (Series \X Minutes)
      BY MaxBarType DEF Minutes
    <3>2. CASE jobs' = [jobs EXCEPT ![m] = [@ EXCEPT !.status = "done", !.packet = packet]] /\ UNCHANGED faults
      <4>. HIDE DEF packet, m
      <4>1. m \in Minutes => [jobs[m] EXCEPT !.status = "done", !.packet = packet] \in Jobs
        BY <3>1, JobRow DEF TypeOK
      <4>2. jobs \in [Minutes -> Jobs] /\ faults \in 0..MaxFaults
        BY DEF TypeOK
      <4>. QED
        BY <3>2, <4>1, <4>2
    <3>3. CASE jobs' = [jobs EXCEPT ![m].status = "failed"] /\ Fault
      <4>1. jobs' \in [Minutes -> Jobs]
        <5>1. m \in Minutes => [jobs[m] EXCEPT !.status = "failed"] \in Jobs
          BY JobRow DEF TypeOK
        <5>2. jobs' = [jobs EXCEPT ![m] = [jobs[m] EXCEPT !.status = "failed"]] /\ jobs \in [Minutes -> Jobs]
          BY <3>3 DEF TypeOK
        <5>. HIDE DEF m
        <5>. QED
          BY <5>1, <5>2
      <4>2. faults' \in 0..MaxFaults
        BY <3>3, FaultType DEF TypeOK
      <4>. QED
        BY <4>1, <4>2
    <3>. QED
      BY <1>4, <3>2, <3>3 DEF FinishJob
  <2>. QED
    BY <1>1, <1>4, <2>1 DEF TypeOK, FinishJob, history
<1>. QED
  BY <1>2, <1>3, <1>4 DEF Work

LEMMA TypeReview ==
  ASSUME TypeOK, NEW r \in Reviewers, Review(r)
  PROVE  TypeOK'
<1>0. review[r] \in ReviewStates /\ now \in Clock /\ revision \in Nat
  BY DEF TypeOK
<1>1. IdleReviewer \in ReviewStates
  BY MaxBarType DEF IdleReviewer, ReviewStates, NoMinute, Clock
<1>2. CASE StartReview(r)
  <2>1. Max(Done) \in 0..MaxBar
    BY <1>2, MaxMinute, MaxBarType DEF StartReview, Done, Minutes
  <2>2. review' \in [Reviewers -> ReviewStates]
    BY <1>0, <1>2, <2>1 DEF TypeOK, StartReview, ReviewStates
  <2>. QED
    BY <1>2, <2>2 DEF TypeOK, StartReview, env, history
<1>3. CASE Dispatch(r)
  <2>1. review' \in [Reviewers -> ReviewStates]
    BY <1>0, <1>1, <1>3 DEF TypeOK, Dispatch, ReviewStates
  <2>. QED
    BY <1>3, <2>1 DEF TypeOK, Dispatch, env, history
<1>4. CASE Reserve(r)
  <2>1. review' \in [Reviewers -> ReviewStates]
    <3>1. [review[r] EXCEPT !.at = "call"] \in ReviewStates
      BY <1>0, ReviewRow
    <3>2. review' = [review EXCEPT ![r] = [review[r] EXCEPT !.at = "call"]]
          \/ review' = [review EXCEPT ![r] = IdleReviewer]
      BY <1>4 DEF Reserve
    <3>. QED
      BY <1>1, <3>1, <3>2 DEF TypeOK
  <2>2. runs' \in [Minutes -> Runs]
    <3>1. [status |-> "running", config |-> review[r].config, started |-> review[r].started,
           finished |-> 0, arms |-> FALSE] \in Runs
      BY <1>0, MaxBarType DEF ReviewStates, Runs, Clock
    <3>. QED
      BY <1>4, <3>1 DEF TypeOK, Reserve
  <2>. QED
    BY <1>4, <2>1, <2>2 DEF TypeOK, Reserve, env, history
<1>5. CASE Call(r)
  <2>1. review' \in [Reviewers -> ReviewStates]
    <3>1. PICK answer \in {"armed", "wait", "failed"} :
            review' = [review EXCEPT ![r] = [review[r] EXCEPT !.at = "save", !.answer = answer]]
      BY <1>5 DEF Call
    <3>2. [review[r] EXCEPT !.at = "save", !.answer = answer] \in ReviewStates
      BY <1>0, ReviewRow
    <3>. QED
      BY <3>1, <3>2 DEF TypeOK
  <2>2. posts' \in [Minutes -> Nat]
    <3>1. posts \in [Minutes -> Nat]
      BY DEF TypeOK
    <3>. DEFINE m == review[r].cutoff
                n == posts[m] + 1
    <3>2. posts' = [posts EXCEPT ![m] = n]
      BY <1>5 DEF Call
    <3>3. m \in Minutes => n \in Nat
      BY <3>1
    <3>. HIDE DEF m, n
    <3>. QED
      BY <3>1, <3>2, <3>3
  <2>. QED
    BY <1>5, <2>1, <2>2 DEF TypeOK, Call, env
<1>6. CASE SaveReview(r)
  <2>1. review' \in [Reviewers -> ReviewStates]
    BY <1>1, <1>6 DEF TypeOK, SaveReview
  <2>2. runs' \in [Minutes -> Runs]
    <3>. DEFINE m == review[r].cutoff
                st == IF review[r].answer = "failed" THEN "failed" ELSE "validated"
                arms == review[r].answer = "armed"
    <3>1. runs' = [runs EXCEPT ![m] = [runs[m] EXCEPT !.finished = now, !.arms = arms, !.status = st]]
      BY <1>6 DEF SaveReview
    <3>2. m \in Minutes => [runs[m] EXCEPT !.finished = now, !.arms = arms, !.status = st] \in Runs
      <4>1. st \in Ended /\ arms \in BOOLEAN
        BY DEF Ended
      <4>. HIDE DEF m, st, arms
      <4>. QED
        BY <1>0, <4>1, RunRow DEF TypeOK
    <3>3. runs \in [Minutes -> Runs]
      BY DEF TypeOK
    <3>. HIDE DEF m, st, arms
    <3>. QED
      BY <3>1, <3>2, <3>3
  <2>. QED
    BY <1>6, <2>1, <2>2 DEF TypeOK, SaveReview, env, history
<1>7. CASE LoseReview(r)
  <2>1. review' \in [Reviewers -> ReviewStates] /\ faults' \in 0..MaxFaults
    BY <1>1, <1>7, FaultType DEF TypeOK, LoseReview
  <2>. QED
    BY <1>7, <2>1 DEF TypeOK, LoseReview, history
<1>. QED
  BY <1>2, <1>3, <1>4, <1>5, <1>6, <1>7 DEF Review

LEMMA TypeReviewRecover ==
  ASSUME TypeOK, ReviewRecover
  PROVE  TypeOK'
<1>1. runs' \in [Minutes -> Runs]
  <2>1. \A m \in Minutes : runs[m] \in Runs /\ [runs[m] EXCEPT !.status = "interrupted"] \in Runs
    BY RunRow DEF TypeOK, Ended
  <2>. QED
    BY <2>1 DEF ReviewRecover
<1>2. review' \in [Reviewers -> ReviewStates]
  <2>1. IdleReviewer \in ReviewStates
    BY MaxBarType DEF IdleReviewer, ReviewStates, NoMinute, Clock
  <2>. QED
    BY <2>1 DEF TypeOK, ReviewRecover
<1>. QED
  BY <1>1, <1>2 DEF TypeOK, ReviewRecover, env, history

LEMMA TypeObservers ==
  ASSUME TypeOK, Observe \/ \E frozen \in Clock : Select(frozen)
  PROVE  TypeOK'
<1>1. CASE Observe
  BY <1>1 DEF TypeOK, Observe, Unobserved, env, history
<1>2. ASSUME NEW frozen \in Clock, Select(frozen)
      PROVE  TypeOK'
  <2>1. picks' \in [Minutes -> Picks]
    <3>. DEFINE cutoff == Min({LatestKnown(s, frozen) : s \in Series})
    <3>1. CASE picks' = [picks EXCEPT ![cutoff].state = "blocked"]
      <4>. HIDE DEF cutoff
      <4>. QED
        BY <3>1 DEF TypeOK, Picks
    <3>2. CASE \E m \in Minutes : picks' = [picks EXCEPT ![cutoff] = [state |-> "plan", run |-> m, frozen |-> frozen]]
      <4>. HIDE DEF cutoff
      <4>1. PICK m \in Minutes : picks' = [picks EXCEPT ![cutoff] = [state |-> "plan", run |-> m, frozen |-> frozen]]
        BY <3>2
      <4>2. [state |-> "plan", run |-> m, frozen |-> frozen] \in Picks
        BY MaxBarType DEF Picks, Minutes, Clock
      <4>. QED
        BY <4>1, <4>2 DEF TypeOK
    <3>. QED
      BY <1>2, <3>1, <3>2 DEF Select, Paid
  <2>. QED
    BY <1>2, <2>1 DEF TypeOK, Select, env, history
<1>. QED
  BY <1>1, <1>2

LEMMA TypeWorld ==
  ASSUME TypeOK, Tick \/ Crash \/ KillManual
  PROVE  TypeOK'
<1>1. IdleReviewer \in ReviewStates /\ [IdleReviewer EXCEPT !.at = "recover"] \in ReviewStates
  BY MaxBarType DEF IdleReviewer, ReviewStates, NoMinute, Clock
<1>2. CASE Tick
  <2>1. now' \in Clock
    <3>1. now \in 0..MaxTime /\ now < MaxTime /\ now' = now + 1
      BY <1>2 DEF TypeOK, Tick, Clock
    <3>. QED
      BY <3>1, MaxBarType DEF Clock
  <2>. QED
    BY <1>2, <2>1 DEF TypeOK, Tick, history
<1>3. CASE Crash
  <2>1. review' \in [Reviewers -> ReviewStates]
    BY <1>1, <1>3 DEF TypeOK, Crash
  <2>2. worker' \in WorkerStates
    BY <1>3, MaxBarType DEF Crash, IdleWorker, WorkerStates, NoMinute
  <2>3. faults' \in 0..MaxFaults /\ revision' \in Nat /\ request' = {}
    <3>1. faults \in 0..MaxFaults /\ revision \in Nat
      BY DEF TypeOK
    <3>2. Fault /\ revision' \in {revision, revision + 1} /\ request' = {}
      BY <1>3 DEF Crash
    <3>. QED
      BY <3>1, <3>2, FaultType
  <2>. QED
    BY <1>3, <2>1, <2>2, <2>3 DEF TypeOK, Crash, history
<1>4. CASE KillManual
  <2>1. review' \in [Reviewers -> ReviewStates] /\ faults' \in 0..MaxFaults
    BY <1>1, <1>4, FaultType DEF TypeOK, KillManual
  <2>. QED
    BY <1>4, <2>1 DEF TypeOK, KillManual, history
<1>. QED
  BY <1>2, <1>3, <1>4

LEMMA ReviewStep == TypeOK /\ [Next]_vars => TypeOK'
<1>1. ASSUME TypeOK, Next PROVE TypeOK'
  BY <1>1, TypeIngest, TypeWork, TypeReview, TypeReviewRecover, TypeObservers, TypeWorld DEF Next
<1>2. ASSUME TypeOK, UNCHANGED vars PROVE TypeOK'
  BY <1>2 DEF TypeOK, vars, env, history
<1>. QED
  BY <1>1, <1>2

(* Every table, every packet and what each thread carries stay well formed, for  *)
(* any number of series, minutes, restarts and failed writes.                     *)
THEOREM ReviewTypeCorrect == Spec => []TypeOK
BY ReviewStart, ReviewStep, PTL DEF Spec
-----------------------------------------------------------------------------
(* The inductive invariant *)

(* A reviewer between its reservation and its last write. *)
Calling(r) == review[r].at \in {"call", "save"}

(* A reviewer at work carries the cutoff of a packet. *)
Carries == \A r \in Reviewers : review[r].at \notin {"idle", "recover"} => review[r].cutoff \in Minutes

(* The row a reviewer works on: only its own last write or a restart of the      *)
(* service touches it.                                                            *)
RowHeld ==
  /\ \A r \in Reviewers : Calling(r) => runs[review[r].cutoff].status \in {"running", "interrupted"}
  /\ \A r, q \in Reviewers : r # q /\ Calling(r) /\ Calling(q) => review[r].cutoff # review[q].cutoff

(* What was paid has a row, and a reviewer about to pay has not paid yet. *)
PaidInv ==
  /\ \A m \in Minutes : posts[m] <= 1 /\ (posts[m] > 0 => m \in Paid)
  /\ \A r \in Reviewers : review[r].at = "call" => posts[review[r].cutoff] = 0

(* Whatever a reviewer about to pay may see fail had another revision. *)
PauseInv ==
  \A r \in Reviewers, k \in Minutes :
    /\ review[r].at = "call" /\ k # review[r].cutoff
    /\ runs[k].status \in {"running", "failed", "interrupted"}
    => runs[k].config # runs[review[r].cutoff].config

(* The limits hold of the rows themselves. *)
RowLimits ==
  /\ Cardinality(Paid) <= Daily
  /\ \A m, k \in Paid : runs[m].started < runs[k].started => runs[k].started - runs[m].started >= Interval

(* A plan's review is validated for good, and no review to come starts before it expires. *)
PlanInv ==
  \A c \in Minutes : picks[c].state = "plan" =>
    LET m == picks[c].run IN
      /\ m \in Minutes /\ runs[m].status = "validated"
      /\ m <= runs[m].started /\ picks[c].frozen < m + Lifetime
      /\ \A k \in Paid : runs[k].started <= picks[c].frozen => runs[k].started <= runs[m].started

ReviewInv == TypeOK /\ Carries /\ RowHeld /\ PaidInv /\ PauseInv /\ RowLimits /\ PlanInv

LEMMA LimitsType == Interval \in Nat /\ Daily \in Nat /\ Lifetime \in Nat /\ Lifetime <= Interval
BY ReviewPipelineAssumption DEF ReviewPipelineAssumption

LEMMA FinitePaid == IsFiniteSet(Paid) /\ Cardinality(Paid) \in Nat
<1>1. IsFiniteSet(Minutes)
  BY MaxBarType, FS_Interval DEF Minutes
<1>2. Paid \in SUBSET Minutes
  BY DEF Paid
<1>. QED
  BY <1>1, <1>2, FS_Subset, FS_CardinalityType

LEMMA InvStart == Init => ReviewInv
<1>. SUFFICES ASSUME Init PROVE ReviewInv
  OBVIOUS
<1>1. TypeOK
  BY ReviewStart
<1>2. \A m \in Minutes : runs[m].status = "none" /\ posts[m] = 0 /\ picks[m].state = "none"
  BY DEF Init, NoRun, NoPick
<1>3. \A r \in Reviewers : review[r].at = "idle"
  BY DEF Init, IdleReviewer
<1>4. Paid = {}
  BY <1>2 DEF Paid
<1>5. Cardinality(Paid) <= Daily
  BY <1>4, LimitsType, FS_EmptySet
<1>6. Carries /\ RowHeld /\ PauseInv
  BY <1>3 DEF Carries, RowHeld, PauseInv, Calling
<1>7. PaidInv
  BY <1>2, <1>3 DEF PaidInv
<1>8. RowLimits
  BY <1>4, <1>5 DEF RowLimits
<1>9. PlanInv
  BY <1>2 DEF PlanInv
<1>. QED
  BY <1>1, <1>6, <1>7, <1>8, <1>9 DEF ReviewInv

(* A step that starts no call and writes no row, no request and no plan. *)
LEMMA QuietStep ==
  ASSUME ReviewInv, TypeOK', Carries', UNCHANGED <<runs, posts, picks>>,
         \A r \in Reviewers : Calling(r)' => review'[r] = review[r]
  PROVE  ReviewInv'
<1>1. \A r \in Reviewers : Calling(r)' => Calling(r) /\ review'[r] = review[r]
  BY DEF Calling
<1>2. Paid' = Paid
  BY DEF Paid
<1>3. RowHeld'
  BY <1>1 DEF ReviewInv, RowHeld
<1>4. PaidInv'
  BY <1>1, <1>2 DEF ReviewInv, PaidInv, Calling
<1>5. PauseInv'
  BY <1>1 DEF ReviewInv, PauseInv, Calling
<1>6. RowLimits'
  BY <1>2 DEF ReviewInv, RowLimits
<1>7. PlanInv'
  BY <1>2 DEF ReviewInv, PlanInv
<1>. QED
  BY <1>3, <1>4, <1>5, <1>6, <1>7 DEF ReviewInv

LEMMA ReserveStep ==
  ASSUME ReviewInv, TypeOK', NEW r \in Reviewers, Reserve(r)
  PROVE  ReviewInv'
<1>. DEFINE m == review[r].cutoff
            row == [status |-> "running", config |-> review[r].config,
                    started |-> review[r].started, finished |-> 0, arms |-> FALSE]
<1>0. /\ TypeOK /\ Carries
      /\ review \in [Reviewers -> ReviewStates] /\ runs \in [Minutes -> Runs]
      /\ review[r] \in ReviewStates /\ review[r].at = "reserve"
      /\ m \in Minutes
  BY DEF ReviewInv, TypeOK, Carries, Reserve
<1>1. CASE ~Limits(m, review[r].config, review[r].started)
  <2>1. review' = [review EXCEPT ![r] = IdleReviewer] /\ UNCHANGED <<runs, posts, picks>>
    BY <1>1 DEF Reserve, history
  <2>2. \A q \in Reviewers : Calling(q)' => review'[q] = review[q]
    BY <1>0, <2>1 DEF Calling, IdleReviewer
  <2>3. Carries'
    BY <1>0, <2>1 DEF Carries, IdleReviewer
  <2>. QED
    BY <2>1, <2>2, <2>3, QuietStep
<1>2. CASE Limits(m, review[r].config, review[r].started)
  <2>1. /\ review' = [review EXCEPT ![r] = [review[r] EXCEPT !.at = "call"]]
        /\ runs' = [runs EXCEPT ![m] = row] /\ UNCHANGED <<posts, picks>>
    BY <1>2 DEF Reserve, history
  <2>. HIDE DEF row
  <2>2. row.status = "running" /\ row.config = review[r].config /\ row.started = review[r].started
    BY DEF row
  <2>. DEFINE v == [review[r] EXCEPT !.at = "call"]
  <2>3. v.at = "call" /\ v.cutoff = m /\ v.config = review[r].config
    BY <1>0 DEF ReviewStates
  <2>. HIDE DEF v
  <2>4. /\ review'[r] = v /\ \A q \in Reviewers \ {r} : review'[q] = review[q]
        /\ runs'[m] = row /\ \A k \in Minutes \ {m} : runs'[k] = runs[k]
    BY <1>0, <2>1 DEF v
  <2>5. /\ m \notin Paid /\ Cardinality(Paid) < Daily
        /\ \A k \in Minutes : runs[k].status # "running"
        /\ \A k \in Paid : review[r].started - runs[k].started >= Interval
        /\ \A k \in Paid : runs[k].config = review[r].config => runs[k].status \notin {"failed", "interrupted"}
    BY <1>2 DEF Limits, Running
  <2>6. Paid' = Paid \cup {m}
    BY <1>0, <2>2, <2>4 DEF Paid
  <2>7. Carries'
    BY <1>0, <2>3, <2>4 DEF Carries
  <2>8. RowHeld'
    <3>1. \A q \in Reviewers \ {r} : Calling(q) => review[q].cutoff # m
      BY <2>5, <1>0 DEF ReviewInv, RowHeld, Paid
    <3>. QED
      BY <1>0, <2>2, <2>3, <2>4, <3>1 DEF ReviewInv, RowHeld, Calling, Carries
  <2>9. PaidInv'
    <3>1. posts[m] = 0
      <4>1. posts[m] \in Nat
        BY <1>0 DEF TypeOK
      <4>2. ~(posts[m] > 0)
        BY <1>0, <2>5 DEF ReviewInv, PaidInv
      <4>. QED
        BY <4>1, <4>2
    <3>. QED
      BY <1>0, <2>1, <2>3, <2>4, <2>6, <3>1 DEF ReviewInv, PaidInv
  <2>10. PauseInv'
    <3>. SUFFICES ASSUME NEW q \in Reviewers, NEW k \in Minutes,
                         review'[q].at = "call", k # review'[q].cutoff,
                         runs'[k].status \in {"running", "failed", "interrupted"}
                  PROVE  runs'[k].config # runs'[review'[q].cutoff].config
      BY DEF PauseInv
    <3>1. CASE q = r
      <4>1. k # m /\ runs'[k] = runs[k] /\ runs[k].status \in {"failed", "interrupted"}
        BY <3>1, <2>3, <2>4, <2>5
      <4>2. k \in Paid
        BY <4>1 DEF Paid
      <4>. QED
        BY <3>1, <4>1, <4>2, <2>2, <2>3, <2>4, <2>5
    <3>2. CASE q # r
      <4>1. Calling(q) /\ review'[q] = review[q] /\ review[q].cutoff \in Minutes
        BY <3>2, <1>0, <2>4 DEF Calling, Carries
      <4>2. runs[review[q].cutoff].status = "interrupted"
        BY <4>1, <2>5 DEF ReviewInv, RowHeld
      <4>3. review[q].cutoff \in Paid /\ review[q].cutoff # m
        BY <4>1, <4>2, <2>5 DEF Paid
      <4>4. CASE k = m
        BY <4>1, <4>2, <4>3, <4>4, <2>2, <2>4, <2>5
      <4>5. CASE k # m
        BY <3>2, <4>1, <4>3, <4>5, <2>4 DEF ReviewInv, PauseInv
      <4>. QED
        BY <4>4, <4>5
    <3>. QED
      BY <3>1, <3>2
  <2>11. RowLimits'
    <3>1. Cardinality(Paid') <= Daily
      <4>1. Cardinality(Paid \cup {m}) = Cardinality(Paid) + 1
        BY <2>5, FinitePaid, FS_AddElement
      <4>2. Cardinality(Paid) + 1 <= Daily
        BY <2>5, FinitePaid, LimitsType
      <4>. QED
        BY <4>1, <4>2, <2>6
    <3>2. ASSUME NEW i \in Paid', NEW k \in Paid', runs'[i].started < runs'[k].started
          PROVE  runs'[k].started - runs'[i].started >= Interval
      <4>0. /\ review[r].started \in Int /\ \A j \in Minutes : runs[j].started \in Int
            /\ Paid \subseteq Minutes
        BY <1>0 DEF ReviewStates, Runs, Clock, Paid
      <4>1. CASE i = m
        BY <4>0, <4>1, <3>2, <2>2, <2>4, <2>5, <2>6, LimitsType
      <4>2. CASE i # m /\ k = m
        BY <4>0, <4>2, <2>2, <2>4, <2>5, <2>6
      <4>3. CASE i # m /\ k # m
        BY <4>0, <4>3, <3>2, <2>4, <2>6 DEF ReviewInv, RowLimits
      <4>. QED
        BY <4>1, <4>2, <4>3
    <3>. QED
      BY <3>1, <3>2 DEF RowLimits
  <2>12. PlanInv'
    <3>. SUFFICES ASSUME NEW c \in Minutes, picks[c].state = "plan",
                         NEW p, p = picks[c].run
                  PROVE  /\ p \in Minutes /\ runs'[p].status = "validated"
                         /\ p <= runs'[p].started /\ picks[c].frozen < p + Lifetime
                         /\ \A k \in Paid' : runs'[k].started <= picks[c].frozen
                                               => runs'[k].started <= runs'[p].started
      BY <2>1 DEF PlanInv
    <3>1. /\ p \in Minutes /\ runs[p].status = "validated"
          /\ p <= runs[p].started /\ picks[c].frozen < p + Lifetime
          /\ \A k \in Paid : runs[k].started <= picks[c].frozen => runs[k].started <= runs[p].started
      BY DEF ReviewInv, PlanInv
    <3>0. picks[c].frozen \in Int
      <4>1. picks \in [Minutes -> Picks]
        BY <1>0 DEF TypeOK
      <4>. QED
        BY <4>1 DEF Picks
    <3>2. p \in Paid /\ p # m /\ runs'[p] = runs[p]
      BY <3>1, <2>4, <2>5 DEF Paid
    <3>3. review[r].started > picks[c].frozen
      <4>1. /\ review[r].started \in Int /\ runs[p].started \in Int /\ p \in Int
        BY <1>0, <3>1 DEF ReviewStates, Runs, Clock, Minutes
      <4>2. review[r].started - runs[p].started >= Interval
        BY <2>5, <3>2
      <4>. QED
        BY <3>0, <3>1, <4>1, <4>2, LimitsType
    <3>4. \A k \in Paid' : runs'[k].started <= picks[c].frozen => runs'[k].started <= runs'[p].started
      <4>. SUFFICES ASSUME NEW k \in Paid', runs'[k].started <= picks[c].frozen
                    PROVE  runs'[k].started <= runs'[p].started
        OBVIOUS
      <4>0. review[r].started \in Int
        BY <1>0 DEF ReviewStates, Clock
      <4>1. k # m
        BY <4>0, <3>0, <3>3, <2>2, <2>4
      <4>. QED
        BY <4>1, <3>1, <3>2, <2>4, <2>6 DEF Paid
    <3>. QED
      BY <3>1, <3>2, <3>4
  <2>. QED
    BY <2>7, <2>8, <2>9, <2>10, <2>11, <2>12 DEF ReviewInv
<1>. QED
  BY <1>1, <1>2
LEMMA CallStep ==
  ASSUME ReviewInv, TypeOK', NEW r \in Reviewers, Call(r)
  PROVE  ReviewInv'
<1>. DEFINE m == review[r].cutoff
<1>0. /\ TypeOK /\ Carries /\ review \in [Reviewers -> ReviewStates]
      /\ review[r] \in ReviewStates /\ review[r].at = "call" /\ m \in Minutes
  BY DEF ReviewInv, TypeOK, Carries, Call
<1>1. PICK answer \in {"armed", "wait", "failed"} :
        review' = [review EXCEPT ![r] = [review[r] EXCEPT !.at = "save", !.answer = answer]]
  BY DEF Call
<1>2. /\ review'[r].at = "save" /\ review'[r].cutoff = m
      /\ \A q \in Reviewers \ {r} : review'[q] = review[q]
  BY <1>0, <1>1 DEF ReviewStates
<1>3. UNCHANGED <<runs, picks>> /\ Paid' = Paid
  BY DEF Call, Paid
<1>4. posts'[m] = 1 /\ \A k \in Minutes \ {m} : posts'[k] = posts[k]
  <2>1. posts \in [Minutes -> Nat] /\ posts[m] = 0
    BY <1>0 DEF TypeOK, ReviewInv, PaidInv
  <2>. DEFINE n == posts[m] + 1
  <2>2. n = 1 /\ posts' = [posts EXCEPT ![m] = n]
    BY <2>1 DEF Call
  <2>. HIDE DEF n, m
  <2>. QED
    BY <1>0, <2>1, <2>2
<1>5. Carries' /\ RowHeld'
  BY <1>0, <1>2, <1>3 DEF ReviewInv, Carries, RowHeld, Calling
<1>6. PaidInv'
  <2>1. m \in Paid
    BY <1>0 DEF ReviewInv, RowHeld, Calling, Paid
  <2>2. \A q \in Reviewers \ {r} : review[q].at = "call" => review[q].cutoff \in Minutes \ {m}
    BY <1>0 DEF ReviewInv, RowHeld, Calling, Carries
  <2>3. \A k \in Minutes : posts'[k] <= 1 /\ (posts'[k] > 0 => k \in Paid)
    <3>1. \A k \in Minutes \ {m} : posts'[k] <= 1 /\ (posts'[k] > 0 => k \in Paid)
      BY <1>4 DEF ReviewInv, PaidInv
    <3>. QED
      BY <1>4, <2>1, <3>1
  <2>4. \A q \in Reviewers : review'[q].at = "call" => posts'[review'[q].cutoff] = 0
    BY <1>2, <1>4, <2>2 DEF ReviewInv, PaidInv
  <2>. QED
    BY <1>3, <2>3, <2>4 DEF PaidInv
<1>7. PauseInv'
  BY <1>2, <1>3 DEF ReviewInv, PauseInv
<1>8. RowLimits' /\ PlanInv'
  BY <1>3 DEF ReviewInv, RowLimits, PlanInv
<1>. QED
  BY <1>5, <1>6, <1>7, <1>8 DEF ReviewInv

(* Rows change their status only, and never back to "running" or "none" or away   *)
(* from "validated".                                                               *)
LEMMA RowsEnd ==
  ASSUME ReviewInv, TypeOK', Carries', RowHeld', UNCHANGED <<posts, picks>>,
         \A q \in Reviewers : Calling(q)' => review'[q] = review[q],
         \A k \in Minutes :
           /\ runs'[k].config = runs[k].config /\ runs'[k].started = runs[k].started
           /\ \/ runs'[k].status = runs[k].status
              \/ runs[k].status \in {"running", "interrupted"} /\ runs'[k].status \in Ended
  PROVE  ReviewInv'
<1>0. Paid \subseteq Minutes
  BY DEF Paid
<1>1. Paid' = Paid
  BY DEF Paid, Ended
<1>2. \A q \in Reviewers : review'[q].at = "call" => review'[q] = review[q] /\ review[q].at = "call"
  BY DEF Calling
<1>3. PaidInv'
  BY <1>1, <1>2 DEF ReviewInv, PaidInv
<1>4. PauseInv'
  BY <1>2 DEF ReviewInv, PauseInv, Ended, Carries
<1>5. RowLimits'
  BY <1>0, <1>1 DEF ReviewInv, RowLimits
<1>6. PlanInv'
  BY <1>0, <1>1 DEF ReviewInv, PlanInv
<1>. QED
  BY <1>3, <1>4, <1>5, <1>6 DEF ReviewInv

LEMMA SaveStep ==
  ASSUME ReviewInv, TypeOK', NEW r \in Reviewers, SaveReview(r)
  PROVE  ReviewInv'
<1>. DEFINE m == review[r].cutoff
            st == IF review[r].answer = "failed" THEN "failed" ELSE "validated"
            arms == review[r].answer = "armed"
<1>0. /\ TypeOK /\ Carries /\ RowHeld /\ review \in [Reviewers -> ReviewStates] /\ runs \in [Minutes -> Runs]
      /\ m \in Minutes /\ Calling(r) /\ runs[m].status \in {"running", "interrupted"}
  BY DEF ReviewInv, TypeOK, Carries, SaveReview, Calling, RowHeld
<1>1. /\ runs' = [runs EXCEPT ![m] = [runs[m] EXCEPT !.finished = now, !.arms = arms, !.status = st]]
      /\ review' = [review EXCEPT ![r] = IdleReviewer] /\ UNCHANGED <<posts, picks>>
  BY DEF SaveReview, history
<1>2. st \in Ended
  BY DEF Ended
<1>. HIDE DEF st, arms, m
<1>3. /\ runs'[m].config = runs[m].config /\ runs'[m].started = runs[m].started /\ runs'[m].status = st
      /\ \A k \in Minutes \ {m} : runs'[k] = runs[k]
  BY <1>0, <1>1 DEF Runs
<1>4. review'[r].at = "idle" /\ \A q \in Reviewers \ {r} : review'[q] = review[q]
  BY <1>0, <1>1 DEF IdleReviewer
<1>5. Carries'
  BY <1>0, <1>4 DEF Carries
<1>6. \A q \in Reviewers : Calling(q)' => q # r /\ review'[q] = review[q] /\ Calling(q)
  BY <1>4 DEF Calling
<1>7. RowHeld'
  <2>1. \A q \in Reviewers : Calling(q)' => review[q].cutoff \in Minutes \ {m}
    BY <1>0, <1>6 DEF RowHeld, Calling, Carries, m
  <2>. QED
    BY <1>0, <1>3, <1>6, <2>1 DEF RowHeld
<1>8. \A k \in Minutes :
        /\ runs'[k].config = runs[k].config /\ runs'[k].started = runs[k].started
        /\ \/ runs'[k].status = runs[k].status
           \/ runs[k].status \in {"running", "interrupted"} /\ runs'[k].status \in Ended
  BY <1>0, <1>2, <1>3
<1>. QED
  BY <1>1, <1>5, <1>6, <1>7, <1>8, RowsEnd

LEMMA RecoverStep ==
  ASSUME ReviewInv, TypeOK', ReviewRecover
  PROVE  ReviewInv'
<1>0. /\ TypeOK /\ Carries /\ RowHeld /\ review \in [Reviewers -> ReviewStates] /\ runs \in [Minutes -> Runs]
  BY DEF ReviewInv, TypeOK
<1>1. /\ review' = [review EXCEPT !["service"] = IdleReviewer] /\ UNCHANGED <<posts, picks>>
      /\ "service" \in Reviewers
      /\ \A k \in Minutes : runs'[k] = IF runs[k].status = "running"
                                         THEN [runs[k] EXCEPT !.status = "interrupted"] ELSE runs[k]
  BY DEF ReviewRecover, history
<1>2. \A k \in Minutes :
        /\ runs'[k].config = runs[k].config /\ runs'[k].started = runs[k].started
        /\ runs'[k].status = IF runs[k].status = "running" THEN "interrupted" ELSE runs[k].status
  BY <1>0, <1>1 DEF Runs
<1>3. review'["service"].at = "idle" /\ \A q \in Reviewers \ {"service"} : review'[q] = review[q]
  BY <1>0, <1>1 DEF IdleReviewer
<1>4. Carries'
  BY <1>0, <1>3 DEF Carries
<1>5. \A q \in Reviewers : Calling(q)' => review'[q] = review[q] /\ Calling(q)
  BY <1>3 DEF Calling
<1>6. RowHeld'
  <2>1. \A q \in Reviewers : Calling(q)' => review[q].cutoff \in Minutes
    BY <1>0, <1>5 DEF Carries, Calling
  <2>. QED
    BY <1>0, <1>2, <1>5, <2>1 DEF RowHeld
<1>. QED
  BY <1>1, <1>2, <1>4, <1>5, <1>6, RowsEnd DEF Ended

LEMMA SelectStep ==
  ASSUME ReviewInv, TypeOK', NEW frozen \in Clock, Select(frozen)
  PROVE  ReviewInv'
<1>0. TypeOK /\ UNCHANGED <<runs, review, posts>> /\ Paid' = Paid
  BY DEF ReviewInv, Select, history, Paid
<1>1. Carries' /\ RowHeld' /\ PaidInv' /\ PauseInv' /\ RowLimits'
  BY <1>0 DEF ReviewInv, Carries, RowHeld, PaidInv, PauseInv, RowLimits, Calling
<1>2. PlanInv'
  <2>. DEFINE cutoff == Min({LatestKnown(s, frozen) : s \in Series})
  <2>0. picks \in [Minutes -> Picks]
    BY <1>0 DEF TypeOK
  <2>1. CASE picks' = [picks EXCEPT ![cutoff].state = "blocked"]
    <3>. HIDE DEF cutoff
    <3>1. \A c \in Minutes : picks'[c].state = "plan" => picks'[c] = picks[c]
      BY <2>0, <2>1 DEF Picks
    <3>. QED
      BY <1>0, <3>1 DEF ReviewInv, PlanInv
  <2>2. ASSUME NEW m \in Paid, runs[m].started <= frozen,
               \A k \in Paid : runs[k].started <= frozen => runs[k].started <= runs[m].started,
               Permits(m, cutoff, frozen),
               picks' = [picks EXCEPT ![cutoff] = [state |-> "plan", run |-> m, frozen |-> frozen]]
        PROVE  PlanInv'
    <3>1. runs[m].status = "validated" /\ frozen < m + Lifetime /\ Causal(m)
      BY <2>2 DEF Permits
    <3>2. m \in Minutes /\ m <= runs[m].started
      <4>1. m \in Minutes
        BY DEF Paid
      <4>2. m \in Int /\ jobs[m].frozen \in Int /\ runs[m].started \in Int
        <5>1. jobs \in [Minutes -> Jobs] /\ runs \in [Minutes -> Runs]
          BY <1>0 DEF TypeOK
        <5>. QED
          BY <4>1, <5>1 DEF Jobs, Runs, Minutes, Clock
      <4>. QED
        BY <3>1, <4>1, <4>2 DEF Causal
    <3>. DEFINE pick == [state |-> "plan", run |-> m, frozen |-> frozen]
    <3>3. pick.run = m /\ pick.frozen = frozen
      OBVIOUS
    <3>. HIDE DEF cutoff, pick
    <3>4. \A c \in Minutes : picks'[c] = pick \/ picks'[c] = picks[c]
      BY <2>0, <2>2 DEF pick
    <3>. QED
      BY <1>0, <2>2, <3>1, <3>2, <3>3, <3>4 DEF ReviewInv, PlanInv
  <2>. QED
    BY <2>1, <2>2 DEF Select
<1>. QED
  BY <1>1, <1>2 DEF ReviewInv
LEMMA InvStep == ReviewInv /\ [Next]_vars => ReviewInv'
<1>. SUFFICES ASSUME ReviewInv, [Next]_vars PROVE ReviewInv'
  OBVIOUS
<1>0. TypeOK /\ TypeOK' /\ Carries /\ review \in [Reviewers -> ReviewStates]
  BY ReviewStep DEF ReviewInv, TypeOK
<1>1. CASE (\E q \in Arriving : Hold(q)) \/ (\E q \in request \cup Arriving : Ingest(q)) \/ Work
           \/ Observe \/ Tick \/ UNCHANGED vars
  <2>1. UNCHANGED <<runs, review, posts, picks>>
    BY <1>1 DEF Hold, Ingest, Work, WorkerRecover, ClaimJob, FinishJob, Observe, Tick, vars, history
  <2>2. Carries'
    BY <1>0, <2>1 DEF Carries
  <2>. QED
    BY <1>0, <2>1, <2>2, QuietStep
<1>2. ASSUME NEW r \in Reviewers, StartReview(r) \/ Dispatch(r) \/ LoseReview(r)
      PROVE  ReviewInv'
  <2>1. UNCHANGED <<runs, posts, picks>>
    BY <1>2 DEF StartReview, Dispatch, LoseReview, history
  <2>2. /\ \A q \in Reviewers \ {r} : review'[q] = review[q]
        /\ review'[r].at \notin {"call", "save"}
        /\ review'[r].at \notin {"idle", "recover"} => review'[r].cutoff \in Minutes
    <3>0. review[r] \in ReviewStates
      BY <1>0
    <3>1. CASE StartReview(r)
      <4>1. Max(Done) \in Minutes
        BY <3>1, MaxMinute DEF StartReview, Done
      <4>. DEFINE c == Max(Done)
                  v == [review[r] EXCEPT !.at = "dispatch", !.cutoff = c, !.config = revision]
      <4>2. review' = [review EXCEPT ![r] = v]
        BY <3>1 DEF StartReview
      <4>. HIDE DEF c
      <4>3. v.at = "dispatch" /\ v.cutoff = c
        BY <3>0 DEF ReviewStates
      <4>. HIDE DEF v
      <4>. QED
        <5>1. c \in Minutes
          BY <4>1 DEF c
        <5>2. review'[r] = v /\ \A q \in Reviewers \ {r} : review'[q] = review[q]
          BY <1>0, <4>2
        <5>. QED
          BY <4>3, <5>1, <5>2
    <3>2. CASE Dispatch(r)
      <4>1. review[r].cutoff \in Minutes
        BY <1>0, <3>2 DEF Carries, Dispatch
      <4>2. \/ review' = [review EXCEPT ![r] = [review[r] EXCEPT !.at = "reserve", !.started = now]]
            \/ review' = [review EXCEPT ![r] = IdleReviewer]
        BY <3>2 DEF Dispatch
      <4>. DEFINE v == [review[r] EXCEPT !.at = "reserve", !.started = now]
      <4>3. v.at = "reserve" /\ v.cutoff \in Minutes /\ IdleReviewer.at = "idle"
        BY <3>0, <4>1 DEF ReviewStates, IdleReviewer
      <4>. HIDE DEF v
      <4>4. /\ review'[r] = v \/ review'[r] = IdleReviewer
            /\ \A q \in Reviewers \ {r} : review'[q] = review[q]
        BY <1>0, <4>2 DEF v
      <4>. QED
        BY <4>3, <4>4
    <3>3. CASE LoseReview(r)
      BY <1>0, <3>3 DEF LoseReview, IdleReviewer
    <3>. QED
      BY <1>2, <3>1, <3>2, <3>3
  <2>3. Carries' /\ \A q \in Reviewers : Calling(q)' => review'[q] = review[q]
    BY <1>0, <2>2 DEF Carries, Calling
  <2>. QED
    BY <1>0, <2>1, <2>3, QuietStep
<1>3. CASE Crash \/ KillManual
  <2>1. UNCHANGED <<runs, posts, picks>>
    BY <1>3 DEF Crash, KillManual, history
  <2>2. \A q \in Reviewers : review'[q] = review[q] \/ review'[q].at \in {"idle", "recover"}
    BY <1>0, <1>3 DEF Crash, KillManual, IdleReviewer
  <2>3. Carries' /\ \A q \in Reviewers : Calling(q)' => review'[q] = review[q]
    BY <1>0, <2>2 DEF Carries, Calling
  <2>. QED
    BY <1>0, <2>1, <2>3, QuietStep
<1>. QED
  BY <1>0, <1>1, <1>2, <1>3, ReserveStep, CallStep, SaveStep, RecoverStep, SelectStep DEF Next, Review

(* No packet is paid for twice, whatever restarts and whoever reviews. *)
THEOREM PaidOnceAlways == Spec => []PaidOnce
<1>1. ReviewInv => PaidOnce
  BY DEF ReviewInv, PaidInv, PaidOnce
<1>. QED
  BY InvStart, InvStep, <1>1, PTL DEF Spec

(* The daily number of calls and the time between two reviews are kept by both   *)
(* reviewers together.                                                            *)
THEOREM SpendingAlwaysBounded == Spec => []SpendingBounded
<1>1. ASSUME ReviewInv PROVE SpendingBounded
  <2>1. {m \in Minutes : posts[m] > 0} \in SUBSET Paid
    BY <1>1 DEF ReviewInv, PaidInv
  <2>2. /\ IsFiniteSet({m \in Minutes : posts[m] > 0})
        /\ Cardinality({m \in Minutes : posts[m] > 0}) <= Cardinality(Paid)
    BY <2>1, FinitePaid, FS_Subset
  <2>3. Cardinality({m \in Minutes : posts[m] > 0}) \in Nat
    BY <2>2, FS_CardinalityType
  <2>4. Cardinality(Paid) <= Daily
    BY <1>1 DEF ReviewInv, RowLimits
  <2>5. Cardinality({m \in Minutes : posts[m] > 0}) <= Daily
    BY <2>2, <2>3, <2>4, FinitePaid, LimitsType
  <2>. QED
    BY <1>1, <2>5 DEF ReviewInv, RowLimits, SpendingBounded
<1>. QED
  BY InvStart, InvStep, <1>1, PTL DEF Spec

(* After a failed or interrupted review no call is made under the same revision. *)
THEOREM FailuresAlwaysPause == Spec => FailurePauses
<1>1. ASSUME ReviewInv, Next,
             NEW m \in Minutes, NEW k \in Minutes,
             posts'[m] > posts[m], k # m, runs[k].status \in {"failed", "interrupted"}
      PROVE  runs[k].config # runs[m].config
  <2>0. posts \in [Minutes -> Nat]
    BY <1>1 DEF ReviewInv, TypeOK
  <2>1. posts' # posts
    BY <1>1, <2>0
  <2>2. PICK r \in Reviewers : Call(r)
    BY <1>1, <2>1 DEF Next, Hold, Ingest, Work, WorkerRecover, ClaimJob, FinishJob, ReviewRecover, Review,
                      StartReview, Dispatch, Reserve, SaveReview, LoseReview, Observe, Select, Tick, Crash,
                      KillManual, history
  <2>3. m = review[r].cutoff /\ review[r].at = "call"
    BY <1>1, <2>0, <2>2 DEF Call
  <2>. QED
    BY <1>1, <2>3 DEF ReviewInv, PauseInv
<1>2. ASSUME ReviewInv, [Next]_vars
      PROVE  [\A m, k \in Minutes :
                posts'[m] > posts[m] /\ k # m /\ runs[k].status \in {"failed", "interrupted"}
                  => runs[k].config # runs[m].config]_vars
  BY <1>1, <1>2
<1>. QED
  BY InvStart, InvStep, <1>2, PTL DEF Spec, FailurePauses

(* A plan always rests on the latest review started by then: the next review     *)
(* starts after the plan's context has expired, because Lifetime <= Interval.     *)
THEOREM LatestReviewAlwaysDecides == Spec => []LatestReviewDecides
<1>1. ReviewInv => LatestReviewDecides
  BY DEF ReviewInv, PlanInv, LatestReviewDecides
<1>. QED
  BY InvStart, InvStep, <1>1, PTL DEF Spec

-----------------------------------------------------------------------------
(* Plans and prices *)

LEMMA UntouchedStep ==
  ASSUME TypeOK, PlanUntouched, [Next]_vars
  PROVE  PlanUntouched'
<1>0. /\ bars \in [Series -> [Minutes -> Bars]] /\ picks \in [Minutes -> Picks]
      /\ Watched \subseteq Series
  BY ReviewPipelineAssumption DEF TypeOK, ReviewPipelineAssumption
<1>1. CASE UNCHANGED <<bars, picks>>
  BY <1>1 DEF PlanUntouched, Stored
<1>2. ASSUME NEW q, Ingest(q), bars' # bars
      PROVE  PlanUntouched'
  <2>1. /\ UNCHANGED picks /\ ~Stored(q.series, q.minute)
        /\ bars' = [bars EXCEPT ![q.series][q.minute] = [received |-> q.received, touch |-> q.touch]]
    BY <1>2 DEF Ingest
  <2>2. \A s \in Series, k \in Minutes : Stored(s, k) => bars'[s][k] = bars[s][k]
    BY <1>0, <2>1 DEF Stored
  <2>. QED
    BY <1>0, <2>1, <2>2 DEF PlanUntouched, Stored
<1>3. ASSUME NEW frozen \in Clock, Select(frozen)
      PROVE  PlanUntouched'
  <2>. DEFINE cutoff == Min({LatestKnown(s, frozen) : s \in Series})
  <2>0. UNCHANGED bars
    BY <1>3 DEF Select
  <2>1. CASE picks' = [picks EXCEPT ![cutoff].state = "blocked"]
    <3>. HIDE DEF cutoff
    <3>1. \A c \in Minutes : picks'[c].state = "plan" => picks'[c] = picks[c]
      BY <1>0, <2>1 DEF Picks
    <3>. QED
      BY <2>0, <3>1 DEF PlanUntouched, Stored
  <2>2. ASSUME NEW m \in Paid, Permits(m, cutoff, frozen),
               picks' = [picks EXCEPT ![cutoff] = [state |-> "plan", run |-> m, frozen |-> frozen]]
        PROVE  PlanUntouched'
    <3>1. Monitored(m, cutoff, frozen)
      BY <2>2 DEF Permits
    <3>. DEFINE pick == [state |-> "plan", run |-> m, frozen |-> frozen]
    <3>2. pick.run = m /\ picks' = [picks EXCEPT ![cutoff] = pick]
      BY <2>2
    <3>. HIDE DEF cutoff, pick
    <3>3. \A c \in Minutes : picks'[c] = picks[c] \/ (c = cutoff /\ picks'[c] = pick)
      <4>1. \A c \in Minutes : c # cutoff => picks'[c] = picks[c]
        BY <1>0, <3>2
      <4>2. cutoff \in Minutes => picks'[cutoff] = pick
        BY <1>0, <3>2
      <4>. QED
        BY <4>1, <4>2
    <3>4. \A s \in Watched, k \in Minutes : k \in (m + 1)..cutoff => Stored(s, k) /\ ~bars[s][k].touch
      BY <3>1 DEF Monitored, Known
    <3>. QED
      BY <2>0, <3>2, <3>3, <3>4 DEF PlanUntouched, Stored
  <2>. QED
    BY <1>3, <2>1, <2>2 DEF Select
<1>4. CASE Next
  BY <1>1, <1>2, <1>3, <1>4 DEF Next, Hold, Ingest, Work, WorkerRecover, ClaimJob, FinishJob, ReviewRecover, Review,
       StartReview, Dispatch, Reserve, Call, SaveReview, LoseReview, Observe, Tick, Crash, KillManual
<1>5. CASE UNCHANGED vars
  BY <1>1, <1>5 DEF vars
<1>. QED
  BY <1>4, <1>5

(* No price that ends the thesis lies between a plan's review and its cutoff, in *)
(* whatever order bars arrive, before or after the decision.                      *)
THEOREM PlansAlwaysUntouched == Spec => []PlanUntouched
<1>1. Init => PlanUntouched
  BY DEF Init, PlanUntouched, NoPick
<1>. QED
  BY ReviewStart, ReviewStep, UntouchedStep, <1>1, PTL DEF Spec

-----------------------------------------------------------------------------
(* Packets and bars *)

(* No job is queued for a minute after the latest job's. *)
LEMMA AfterLatest ==
  ASSUME NEW S \in SUBSET Minutes, NEW m \in S
  PROVE  m <= Max({NoMinute} \cup S) /\ Max({NoMinute} \cup S) \in Nat
<1>. DEFINE T == {NoMinute} \cup S
            D == {MaxBar - k : k \in T}
<1>1. T \subseteq 0..MaxBar /\ m \in T
  BY MaxBarType DEF Minutes, NoMinute
<1>2. D \in SUBSET Nat /\ D # {}
  <2>1. \A k \in T : MaxBar - k \in Nat
    BY <1>1, MaxBarType
  <2>. QED
    BY <1>1, <2>1
<1>3. PICK d \in D : \A e \in D : d <= e
  <2>. HIDE DEF D
  <2>. QED
    BY <1>2, SmallestMinute
<1>4. PICK x \in T : d = MaxBar - x
  OBVIOUS
<1>5. ASSUME NEW y \in T PROVE x >= y
  <2>1. MaxBar - y \in D
    OBVIOUS
  <2>2. d <= MaxBar - y
    <3>. HIDE DEF D
    <3>. QED
      BY <1>3, <2>1
  <2>. QED
    BY <1>1, <1>4, <2>2, MaxBarType
<1>6. Max(T) \in T /\ \A y \in T : Max(T) >= y
  <2>. HIDE DEF T
  <2>. QED
    BY <1>5 DEF Max
<1>. QED
  BY <1>1, <1>6, MaxBarType

(* What the gate found of a packet's history when the review passed it. *)
Ready(m) ==
  /\ m \in Minutes /\ jobs[m].status = "done"
  /\ \A s \in Series, k \in Minutes : k \in (m - Contig + 1)..m => Known(s, k, jobs[m].frozen)

(* A packet holds every bar its snapshot knows, unless one came later than the job. *)
Complete(m) ==
  jobs[m].status = "done" /\ m \notin overtaken =>
    \A s \in Series, k \in Minutes : k <= m /\ Known(s, k, jobs[m].frozen) => <<s, k>> \in jobs[m].packet

PacketInv ==
  /\ worker.at = "process" => worker.cutoff \in Minutes /\ jobs[worker.cutoff].status = "processing"
  /\ \A m \in Minutes : Complete(m)
  /\ \A r \in Reviewers : review[r].at \in {"reserve", "call", "save"} => Ready(review[r].cutoff)
  /\ \A m \in Minutes : posts[m] > 0 => Ready(m)

(* A done job and a stored bar stay as they are. *)
LEMMA ReadyStays ==
  ASSUME TypeOK, NEW m, Ready(m), [Next]_vars,
         worker.at = "process" => worker.cutoff \in Minutes /\ jobs[worker.cutoff].status = "processing"
  PROVE  Ready(m)' /\ jobs'[m] = jobs[m]
<1>0. /\ m \in Minutes /\ jobs[m].status = "done"
      /\ jobs \in [Minutes -> Jobs] /\ bars \in [Series -> [Minutes -> Bars]]
  BY DEF Ready, TypeOK
<1>1. jobs'[m] = jobs[m]
  <2>1. ASSUME NEW q, Ingest(q) PROVE jobs'[m] = jobs[m]
    <3>1. CASE UNCHANGED jobs
      BY <3>1
    <3>2. CASE q.minute > LatestJob /\ \E v : jobs' = [jobs EXCEPT ![q.minute] = v]
      <4>. DEFINE S == {k \in Minutes : jobs[k].status # "none"}
      <4>1. m <= Max({NoMinute} \cup S) /\ Max({NoMinute} \cup S) \in Nat
        <5>1. S \in SUBSET Minutes /\ m \in S
          BY <1>0
        <5>. HIDE DEF S
        <5>. QED
          BY <5>1, AfterLatest
      <4>2. q.minute \in Minutes
        BY <2>1 DEF Ingest, Arriving, TypeOK
      <4>3. m # q.minute
        <5>1. LatestJob = Max({NoMinute} \cup S)
          BY DEF LatestJob
        <5>2. q.minute \in Int /\ m \in Int
          BY <1>0, <4>2 DEF Minutes
        <5>. HIDE DEF S
        <5>. QED
          BY <3>2, <4>1, <5>1, <5>2
      <4>. QED
        BY <1>0, <3>2, <4>3
    <3>. QED
      BY <2>1, <3>1, <3>2 DEF Ingest
  <2>2. CASE WorkerRecover
    BY <1>0, <2>2 DEF WorkerRecover
  <2>3. CASE ClaimJob
    <3>. DEFINE c == Min(Queued)
    <3>1. c \in Queued
      BY <2>3, MinMinute DEF ClaimJob, Queued
    <3>2. jobs' = [jobs EXCEPT ![c] = [jobs[c] EXCEPT !.status = "processing"]]
      BY <2>3 DEF ClaimJob
    <3>3. c # m
      BY <1>0, <3>1 DEF Queued
    <3>. HIDE DEF c
    <3>. QED
      BY <1>0, <3>2, <3>3
  <2>4. CASE FinishJob
    <3>1. worker.cutoff # m
      BY <1>0, <2>4 DEF FinishJob
    <3>2. \E v : jobs' = [jobs EXCEPT ![worker.cutoff] = v]
      BY <2>4 DEF FinishJob
    <3>. QED
      BY <1>0, <3>1, <3>2
  <2>5. CASE UNCHANGED jobs
    BY <2>5
  <2>. QED
    BY <2>1, <2>2, <2>3, <2>4, <2>5
    DEF Next, vars, Hold, Work, ReviewRecover, Review, StartReview, Dispatch, Reserve, Call, SaveReview,
        LoseReview, Observe, Select, Tick, Crash, KillManual
<1>2. \A s \in Series, k \in Minutes : Stored(s, k) => bars'[s][k] = bars[s][k]
  <2>1. ASSUME NEW q, Ingest(q)
        PROVE  \A s \in Series, k \in Minutes : Stored(s, k) => bars'[s][k] = bars[s][k]
    <3>1. CASE UNCHANGED bars
      BY <3>1
    <3>2. CASE ~Stored(q.series, q.minute) /\ \E v : bars' = [bars EXCEPT ![q.series][q.minute] = v]
      BY <1>0, <3>2 DEF Stored
    <3>. QED
      BY <2>1, <3>1, <3>2 DEF Ingest
  <2>2. CASE UNCHANGED bars
    BY <2>2
  <2>. QED
    BY <2>1, <2>2
    DEF Next, vars, Hold, Work, WorkerRecover, ClaimJob, FinishJob, ReviewRecover, Review, StartReview,
        Dispatch, Reserve, Call, SaveReview, LoseReview, Observe, Select, Tick, Crash, KillManual
<1>. QED
  BY <1>0, <1>1, <1>2 DEF Ready, Known, Stored

LEMMA PacketStep ==
  ASSUME TypeOK, TypeOK', Carries, PacketInv, [Next]_vars
  PROVE  PacketInv'
<1>0. /\ jobs \in [Minutes -> Jobs] /\ bars \in [Series -> [Minutes -> Bars]]
      /\ worker \in WorkerStates /\ review \in [Reviewers -> ReviewStates]
  BY DEF TypeOK
<1>1. \A m : Ready(m) => Ready(m)' /\ jobs'[m] = jobs[m]
  BY ReadyStays DEF PacketInv
<1>2. worker'.at = "process" => worker'.cutoff \in Minutes /\ jobs'[worker'.cutoff].status = "processing"
  <2>1. ASSUME NEW q, Ingest(q), worker.at = "process"
        PROVE  jobs'[worker.cutoff].status = "processing" /\ worker' = worker
    <3>. DEFINE m == worker.cutoff
                S == {k \in Minutes : jobs[k].status # "none"}
    <3>1. m \in Minutes /\ jobs[m].status = "processing" /\ worker' = worker
      BY <2>1 DEF PacketInv, Ingest
    <3>2. CASE UNCHANGED jobs
      BY <3>1, <3>2
    <3>3. CASE q.minute > LatestJob /\ \E v : jobs' = [jobs EXCEPT ![q.minute] = v]
      <4>1. S \in SUBSET Minutes /\ m \in S /\ LatestJob = Max({NoMinute} \cup S)
        BY <3>1 DEF LatestJob
      <4>2. q.minute \in Int /\ m \in Int
        <5>1. q \in [series : Series, minute : Minutes, received : Clock, touch : BOOLEAN]
          BY <2>1 DEF Ingest, Arriving, TypeOK
        <5>2. q.minute \in Minutes
          BY <5>1
        <5>. QED
          BY <3>1, <5>2 DEF Minutes
      <4>. HIDE DEF S, m
      <4>3. m # q.minute
        BY <3>3, <4>1, <4>2, AfterLatest
      <4>4. jobs'[m] = jobs[m]
        BY <1>0, <3>1, <3>3, <4>3
      <4>. QED
        BY <3>1, <4>4 DEF m
    <3>. QED
      BY <2>1, <3>2, <3>3 DEF Ingest
  <2>2. CASE WorkerRecover \/ FinishJob \/ Crash
    BY <2>2 DEF WorkerRecover, FinishJob, Crash, IdleWorker
  <2>3. CASE ClaimJob
    <3>. DEFINE c == Min(Queued)
    <3>1. c \in Minutes
      BY <2>3, MinMinute DEF ClaimJob, Queued
    <3>2. /\ jobs' = [jobs EXCEPT ![c] = [jobs[c] EXCEPT !.status = "processing"]]
          /\ worker'.cutoff = c
      BY <2>3 DEF ClaimJob
    <3>3. [jobs[c] EXCEPT !.status = "processing"].status = "processing"
      BY <1>0, <3>1 DEF Jobs
    <3>. HIDE DEF c
    <3>. QED
      BY <1>0, <3>1, <3>2, <3>3
  <2>4. CASE UNCHANGED <<jobs, worker>>
    BY <2>4 DEF PacketInv
  <2>. QED
    BY <2>1, <2>2, <2>3, <2>4
    DEF Next, vars, Hold, Work, ReviewRecover, Review, StartReview, Dispatch, Reserve, Call, SaveReview,
        LoseReview, Observe, Select, Tick, Crash, KillManual, Ingest, PacketInv
<1>3. ASSUME NEW m \in Minutes PROVE Complete(m)'
  <2>1. ASSUME NEW q, Ingest(q) PROVE Complete(m)'
    <3>. SUFFICES ASSUME jobs'[m].status = "done", m \notin overtaken',
                         NEW s \in Series, NEW k \in Minutes, k <= m, Known(s, k, jobs[m].frozen)'
                  PROVE  <<s, k>> \in jobs'[m].packet
      <4>1. CASE jobs'[m] = jobs[m]
        BY <4>1 DEF Complete, Known, Stored
      <4>2. CASE jobs'[m] # jobs[m]
        <5>. DEFINE new == [NoJob EXCEPT !.status = "queued", !.frozen = q.received]
        <5>0. jobs' = jobs \/ jobs' = [jobs EXCEPT ![q.minute] = new]
          BY <2>1 DEF Ingest
        <5>1. new.status = "queued" /\ (jobs'[m] = new => jobs'[m].status = "queued")
          BY DEF NoJob
        <5>. HIDE DEF new
        <5>2. jobs'[m] = new
          BY <1>0, <4>2, <5>0
        <5>. QED
          BY <5>1, <5>2 DEF Complete
      <4>. QED
        BY <4>1, <4>2
    <3>1. jobs'[m] = jobs[m]
      <4>. DEFINE new == [NoJob EXCEPT !.status = "queued", !.frozen = q.received]
      <4>1. jobs' = jobs \/ jobs' = [jobs EXCEPT ![q.minute] = new]
        BY <2>1 DEF Ingest
      <4>2. new.status = "queued"
        BY DEF NoJob
      <4>. HIDE DEF new
      <4>. QED
        BY <1>0, <4>1, <4>2
    <3>2. CASE bars'[s][k] = bars[s][k]
      BY <2>1, <3>1, <3>2 DEF PacketInv, Complete, Known, Stored, Ingest
    <3>3. CASE bars'[s][k] # bars[s][k]
      <4>1. q.series = s /\ q.minute = k /\ ~Stored(s, k) /\ bars'[s][k].received = q.received
        BY <1>0, <2>1, <3>3 DEF Ingest
      <4>2. q.received <= jobs[m].frozen
        BY <3>1, <4>1 DEF Known
      <4>3. m \in overtaken'
        BY <2>1, <3>1, <4>1, <4>2 DEF Ingest
      <4>. QED
        BY <4>3
    <3>. QED
      BY <3>2, <3>3
  <2>2. CASE FinishJob
    <3>. DEFINE c == worker.cutoff
                packet == {p \in Series \X (1..c) : Known(p[1], p[2], jobs[c].frozen)}
    <3>0. c \in Minutes /\ UNCHANGED <<bars, overtaken>>
      BY <2>2 DEF FinishJob, PacketInv, history
    <3>1. CASE m # c
      <4>1. jobs'[m] = jobs[m]
        BY <1>0, <2>2, <3>1 DEF FinishJob
      <4>. QED
        BY <3>0, <4>1 DEF PacketInv, Complete, Known, Stored
    <3>2. CASE m = c /\ jobs' = [jobs EXCEPT ![c] = [jobs[c] EXCEPT !.status = "done", !.packet = packet]]
      <4>1. jobs'[m].packet = packet /\ jobs'[m].frozen = jobs[m].frozen
        <5>. HIDE DEF packet, c
        <5>. QED
          BY <1>0, <3>0, <3>2 DEF Jobs
      <4>2. \A s \in Series, k \in Minutes : k <= m /\ Known(s, k, jobs[m].frozen) => <<s, k>> \in packet
        BY <3>2, <3>0, MaxBarType DEF Minutes
      <4>. QED
        BY <3>0, <4>1, <4>2 DEF Complete, Known, Stored
    <3>3. CASE m = c /\ jobs' = [jobs EXCEPT ![c] = [jobs[c] EXCEPT !.status = "failed"]]
      <4>1. jobs'[m].status = "failed"
        <5>. HIDE DEF c
        <5>. QED
          BY <1>0, <3>0, <3>3 DEF Jobs
      <4>. QED
        BY <4>1 DEF Complete
    <3>. QED
      BY <2>2, <3>1, <3>2, <3>3 DEF FinishJob
  <2>3. CASE WorkerRecover \/ ClaimJob
    <3>1. jobs'[m] = jobs[m] \/ jobs'[m].status \in {"queued", "processing"}
      <4>1. CASE WorkerRecover
        BY <1>0, <4>1 DEF WorkerRecover, Jobs
      <4>2. CASE ClaimJob
        <5>. DEFINE c == Min(Queued)
        <5>1. jobs' = [jobs EXCEPT ![c] = [jobs[c] EXCEPT !.status = "processing"]]
          BY <4>2 DEF ClaimJob
        <5>. HIDE DEF c
        <5>. QED
          BY <1>0, <5>1 DEF Jobs
      <4>. QED
        BY <2>3, <4>1, <4>2
    <3>2. UNCHANGED <<bars, overtaken>>
      BY <2>3 DEF WorkerRecover, ClaimJob, history
    <3>. QED
      BY <3>1, <3>2 DEF PacketInv, Complete, Known, Stored
  <2>4. CASE UNCHANGED <<jobs, bars, overtaken>>
    BY <2>4 DEF PacketInv, Complete, Known, Stored
  <2>. QED
    BY <2>1, <2>2, <2>3, <2>4
    DEF Next, vars, history, Hold, Work, ReviewRecover, Review, StartReview, Dispatch, Reserve, Call, SaveReview,
        LoseReview, Observe, Select, Tick, Crash, KillManual
<1>4. ASSUME NEW r \in Reviewers, review'[r].at \in {"reserve", "call", "save"}
      PROVE  Ready(review[r].cutoff)' /\ review'[r].cutoff = review[r].cutoff
  <2>1. CASE review'[r] = review[r]
    BY <1>1, <1>4, <2>1 DEF PacketInv
  <2>2. ASSUME NEW p \in Reviewers, Dispatch(p), review'[r] # review[r]
        PROVE  Ready(review[r].cutoff)' /\ review'[r].cutoff = review[r].cutoff
    <3>1. p = r /\ Gate(r, review[r].cutoff) /\ review[r].at = "dispatch"
          /\ review'[r] = [review[r] EXCEPT !.at = "reserve", !.started = now]
      BY <1>0, <1>4, <2>2 DEF Dispatch, IdleReviewer
    <3>2. review[r].cutoff \in Minutes
      BY <3>1 DEF Carries
    <3>3. Ready(review[r].cutoff)
      BY <3>1, <3>2 DEF Gate, Ready
    <3>4. review'[r].cutoff = review[r].cutoff
      BY <1>0, <3>1 DEF ReviewStates
    <3>. QED
      BY <1>1, <3>3, <3>4
  <2>3. ASSUME NEW p \in Reviewers, Reserve(p) \/ Call(p), review'[r] # review[r]
        PROVE  Ready(review[r].cutoff)' /\ review'[r].cutoff = review[r].cutoff
    <3>1. p = r /\ review[r].at \in {"reserve", "call"}
      BY <1>0, <2>3 DEF Reserve, Call
    <3>2. review'[r].cutoff = review[r].cutoff
      <4>1. CASE Reserve(r)
        <5>1. review'[r] = [review[r] EXCEPT !.at = "call"]
          BY <1>0, <1>4, <4>1 DEF Reserve, IdleReviewer
        <5>. QED
          BY <1>0, <5>1 DEF ReviewStates
      <4>2. CASE Call(r)
        <5>1. \E answer : review'[r] = [review[r] EXCEPT !.at = "save", !.answer = answer]
          BY <1>0, <4>2 DEF Call
        <5>. QED
          BY <1>0, <5>1 DEF ReviewStates
      <4>. QED
        BY <2>3, <3>1, <4>1, <4>2
    <3>. QED
      BY <1>1, <3>1, <3>2 DEF PacketInv
  <2>4. ASSUME NEW p \in Reviewers, StartReview(p) \/ SaveReview(p) \/ LoseReview(p), review'[r] # review[r]
        PROVE  FALSE
    <3>1. review'[r].at \in {"dispatch", "idle"}
      <4>1. p = r
        BY <1>0, <2>4 DEF StartReview, SaveReview, LoseReview
      <4>2. CASE StartReview(r)
        <5>1. \E c, f : review'[r] = [review[r] EXCEPT !.at = "dispatch", !.cutoff = c, !.config = f]
          BY <1>0, <4>2 DEF StartReview
        <5>. QED
          BY <1>0, <5>1 DEF ReviewStates
      <4>3. CASE SaveReview(r) \/ LoseReview(r)
        BY <1>0, <4>3 DEF SaveReview, LoseReview, IdleReviewer
      <4>. QED
        BY <2>4, <4>1, <4>2, <4>3
    <3>. QED
      BY <1>4, <3>1
  <2>5. CASE ReviewRecover \/ Crash \/ KillManual
    <3>1. review'[r] = review[r] \/ review'[r].at \in {"idle", "recover"}
      BY <1>0, <2>5 DEF ReviewRecover, Crash, KillManual, IdleReviewer
    <3>. QED
      BY <1>4, <2>1, <3>1
  <2>6. CASE UNCHANGED review
    BY <2>1, <2>6
  <2>. QED
    BY <2>1, <2>2, <2>3, <2>4, <2>5, <2>6
    DEF Next, vars, Hold, Ingest, Work, WorkerRecover, ClaimJob, FinishJob, Review, Observe, Select, Tick
<1>5. ASSUME NEW m \in Minutes, posts'[m] > 0 PROVE Ready(m)'
  <2>1. CASE posts'[m] = posts[m]
    BY <1>1, <1>5, <2>1 DEF PacketInv
  <2>2. CASE posts'[m] # posts[m]
    <3>1. PICK r \in Reviewers : Call(r)
      BY <2>2 DEF Next, vars, Hold, Ingest, Work, WorkerRecover, ClaimJob, FinishJob, ReviewRecover, Review,
                  StartReview, Dispatch, Reserve, SaveReview, LoseReview, Observe, Select, Tick, Crash,
                  KillManual, history
    <3>2. m = review[r].cutoff /\ review[r].at = "call"
      BY <2>2, <3>1 DEF Call, TypeOK
    <3>. QED
      BY <1>1, <3>2 DEF PacketInv
  <2>. QED
    BY <2>1, <2>2
<1>. QED
  BY <1>2, <1>3, <1>4, <1>5 DEF PacketInv

(* A review is only paid for a packet that holds the last closed bars of every   *)
(* series, however late bars come, jobs are retried and reviewers overlap.        *)
THEOREM PacketsAlwaysFull == Spec => []FullPacket
<1>1. Init => PacketInv
  BY DEF Init, PacketInv, Complete, IdleWorker, IdleReviewer, NoJob
<1>2. ReviewInv /\ PacketInv /\ [Next]_vars => PacketInv'
  <2>1. ReviewInv /\ [Next]_vars => TypeOK /\ TypeOK' /\ Carries
    BY ReviewStep DEF ReviewInv
  <2>. QED
    BY <2>1, PacketStep
<1>3. TypeOK /\ PacketInv => FullPacket
  <2>. SUFFICES ASSUME TypeOK, PacketInv, NEW m \in Minutes, m \notin overtaken, posts[m] > 0,
                       NEW s \in Series, NEW k \in Minutes, k \in (m - Contig + 1)..m
                PROVE  <<s, k>> \in jobs[m].packet
    BY DEF FullPacket
  <2>1. Ready(m) /\ Complete(m)
    BY DEF PacketInv
  <2>2. Known(s, k, jobs[m].frozen) /\ k <= m
    BY <2>1 DEF Ready
  <2>. QED
    BY <2>1, <2>2 DEF Ready, Complete
<1>4. ReviewInv => TypeOK
  BY DEF ReviewInv
<1>. QED
  BY InvStart, InvStep, <1>1, <1>2, <1>3, <1>4, PTL DEF Spec
===============================================================================
