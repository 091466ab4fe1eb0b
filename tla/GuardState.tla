---------------------------- MODULE GuardState ----------------------------
(***************************************************************************)
(* guard_state.json and guard_log.json of guardrails.py, and the threads   *)
(* that share them.  Both files are loaded, changed in memory and written  *)
(* back whole; every write is atomic (_save), the update is not.  Only the *)
(* sibling-batch functions serialise their update with _BATCH_LOCK.        *)
(*                                                                         *)
(*   - the dispatchers: "AB" (the bars-worker, agent._process_new) and     *)
(*     "CO" (the continuation-shadow worker, _dispatch_continuation_live)  *)
(*     take a setup through ramp_qty, guard_ok, begin_sibling_batch, the   *)
(*     relay, note and finish_sibling_batch;                               *)
(*   - "hb", the heartbeat: beat and eod_flatten_check;                    *)
(*   - "op", a request thread: /guard/kill?on=1 (HALT) and on=0 (ARM).     *)
(*                                                                         *)
(* The relay is external (the TradersPost webhook): it acknowledges a      *)
(* signal, refuses it, or the reply is lost and the order may stand.       *)
(***************************************************************************)
EXTENDS Integers, FiniteSets

CONSTANTS
  Setups,      \* setup groups the detectors produce
  Dispatchers, \* which dispatchers run: subset of {"AB", "CO"}
  Chores,      \* what the heartbeat does: subset of {"beat", "eod"}
  Requests,    \* what the operator asks: subset of {"halt", "arm"}
  Replies,     \* how the relay may answer
  Ramp,        \* RAMP_TRADES
  DayLossN,    \* DAY_LOSS_N
  Carry,       \* TRUE: a position may be carried over the end of the trading day
  MaxDay,      \* bound: trading days 0..MaxDay
  MaxCrashes   \* bound: restarts of the process

ASSUME GuardStateAssumption ==
  /\ Dispatchers \subseteq {"AB", "CO"} /\ Dispatchers # {}
  /\ Chores \subseteq {"beat", "eod"}
  /\ Requests \subseteq {"halt", "arm"}
  /\ Replies \subseteq {"accepted", "rejected", "lost", "partial"}
  /\ Ramp \in Nat /\ DayLossN \in Nat
  /\ Carry \in BOOLEAN
  /\ MaxDay \in Nat /\ MaxCrashes \in Nat

Threads == Dispatchers \cup {"hb", "op"}
Days == 0..MaxDay
NoDay == MaxDay + 1
NoSetup == "no setup"
Free == "free"
ASSUME NoSetupAssumption == NoSetup \notin Setups

VARIABLES
  file,      \* guard_state.json
  book,      \* guard_log.json: the sent rows, each a setup and its date
  lock,      \* holder of _BATCH_LOCK
  at,        \* what a thread is doing
  loaded,    \* it has loaded the file it is about to write
  copy,      \* the state it loaded
  rows,      \* the book it loaded
  cur,       \* the setup a dispatcher carries
  size,      \* its size: "one" contract during the ramp, else "full"
  decision,  \* what note() will record of it
  left,      \* sibling orders of it still to be noted
  offered,   \* setups the detectors have produced
  trade,     \* the setup at the broker
  expired,   \* reservations past expires_ms
  day, crashes,
  counted,   \* history: note() calls that recorded a sent order
  flattened, \* history: days on which the end-of-day flatten was sent
  cut,       \* history: days on which a restart cut it off
  raced,     \* history: a whole-file save has undone another thread's
  letGo      \* history: setups the account let go while they were at the broker

localVars == <<at, loaded, copy, rows, cur, size, decision, left>>
worldVars == <<offered, trade, expired, day, crashes>>
history   == <<counted, flattened, cut, raced, letGo>>
vars == <<file, book, lock, localVars, worldVars, history>>

-----------------------------------------------------------------------------
TradeStates == {"none", "live", "flat", "win", "loss", "no_fill"}
States == [kill : {"off", "day", "hard"}, killDay : Days, group : Setups \cup {NoSetup},
           sent : Nat, eod : Days \cup {NoDay}]
Rows == Setups \X Days

(* Updates of guard_state.json: a load, then a save. *)
Locked  == {"begin", "touch", "finish"}
LatchOp == [day |-> "latch day", hard |-> "latch hard"]
Updates == Locked \cup {"beat", "latch day", "latch hard", "uncertain", "count",
                        "halt", "arm", "eod"}
Places  == Updates \cup {"idle", "ramp", "check", "group", "stats", "send", "rollback",
                         "note", "flatten"}

(* An A/B setup is sent as two sibling orders (A/B and A/B-shallow). *)
Siblings(a) == IF a = "AB" THEN 2 ELSE 1

KillActive(s) == s.kill = "hard" \/ (s.kill = "day" /\ s.killDay = day)
GroupPending(s) == s.group # NoSetup /\ s.group \notin expired

Today(B)     == {r \in B : r[2] = day}
OpenPos(B)   == \E r \in Today(B) : trade[r[1]] = "live"
DayLosses(B) == Cardinality({r \in Today(B) : trade[r[1]] = "loss"})

Live == {g \in Setups : trade[g] = "live"}

Fresh == [kill |-> "off", killDay |-> 0, group |-> NoSetup, sent |-> 0, eod |-> NoDay]

Init ==
  /\ file = Fresh
  /\ book = {} /\ lock = Free
  /\ at = [t \in Threads |-> "idle"] /\ loaded = [t \in Threads |-> FALSE]
  /\ copy = [t \in Threads |-> Fresh] /\ rows = [t \in Threads |-> {}]
  /\ cur = [t \in Threads |-> NoSetup] /\ size = [t \in Threads |-> "one"]
  /\ decision = [t \in Threads |-> "blocked"] /\ left = [t \in Threads |-> 0]
  /\ offered = {} /\ trade = [g \in Setups |-> "none"] /\ expired = {}
  /\ day = 0 /\ crashes = 0
  /\ counted = 0 /\ flattened = {} /\ cut = {} /\ raced = FALSE /\ letGo = {}

-----------------------------------------------------------------------------
(* Steps shared by the updates *)

GoTo(t, place) == at' = [at EXCEPT ![t] = place]

Refuse(a) ==
  /\ decision' = [decision EXCEPT ![a] = "blocked"]
  /\ left' = [left EXCEPT ![a] = 1]
  /\ GoTo(a, "note")

(* _state() at the head of an update, under _BATCH_LOCK where the code takes it. *)
Load(t) ==
  /\ at[t] \in Updates /\ ~loaded[t]
  /\ IF at[t] \in Locked THEN lock = Free /\ lock' = t ELSE UNCHANGED lock
  /\ copy' = [copy EXCEPT ![t] = file]
  /\ loaded' = [loaded EXCEPT ![t] = TRUE]
  /\ UNCHANGED <<file, book, at, rows, cur, size, decision, left, worldVars, history>>

(* What the write of `new` over the file undoes: a save by another thread since   *)
(* t loaded its copy, a hard halt that kept entries off what may be live.         *)
Undoes(t, new) ==
  /\ raced' = IF new # file /\ copy[t] # file THEN TRUE ELSE raced
  /\ letGo' = IF file.kill = "hard" /\ new.kill # "hard" THEN letGo \cup Live ELSE letGo

(* Mutant: the early return leaves without releasing the lock. *)
UpdateKeepsLock(t, op, new) ==
  /\ at[t] = op /\ loaded[t]
  /\ file' = new
  /\ loaded' = [loaded EXCEPT ![t] = FALSE] /\ copy' = [copy EXCEPT ![t] = Fresh]
  /\ lock' = IF lock = t /\ new # file THEN Free ELSE lock
  /\ Undoes(t, new)
  /\ UNCHANGED <<book, rows, cur, size, worldVars, flattened, cut>>

(* The end of an update: the state is written, or left when the code returns *)
(* early, and the lock is released.                                          *)
Update(t, op, new) ==
  /\ at[t] = op /\ loaded[t]
  /\ file' = new
  /\ loaded' = [loaded EXCEPT ![t] = FALSE] /\ copy' = [copy EXCEPT ![t] = Fresh]
  /\ lock' = IF lock = t THEN Free ELSE lock
  /\ Undoes(t, new)
  /\ UNCHANGED <<book, rows, cur, size, worldVars, flattened, cut>>

-----------------------------------------------------------------------------
(* The heartbeat and the operator *)

Start(t, op) ==
  /\ at[t] = "idle"
  /\ GoTo(t, op)
  /\ UNCHANGED <<file, book, lock, loaded, copy, rows, cur, size, decision, left,
                 worldVars, history>>

Heartbeat == \E c \in Chores : Start("hb", c)
Request   == \E r \in Requests : Start("op", r)

(* beat(): stamps the file; guard_ok begins with it. *)
Beat(t) ==
  /\ Update(t, "beat", copy[t])
  /\ GoTo(t, IF t = "hb" THEN "idle" ELSE "check")
  /\ UNCHANGED <<decision, left, counted>>

Halt(t) ==
  /\ Update(t, "halt", [copy[t] EXCEPT !.kill = "hard", !.killDay = day])
  /\ GoTo(t, "flatten")
  /\ UNCHANGED <<decision, left, counted>>

(* Mutant: the day of the kill is cleared to no day. *)
ArmClearsDay(t) ==
  /\ Update(t, "arm", [copy[t] EXCEPT !.kill = "off", !.killDay = NoDay])
  /\ GoTo(t, "idle")
  /\ UNCHANGED <<decision, left, counted>>

Arm(t) ==
  /\ Update(t, "arm", [copy[t] EXCEPT !.kill = "off"])
  /\ GoTo(t, "idle")
  /\ UNCHANGED <<decision, left, counted>>

(* Mutant: the day is marked and nothing is sent. *)
EodMarkOnly(t) ==
  /\ Update(t, "eod", [copy[t] EXCEPT !.eod = day])
  /\ GoTo(t, "idle")
  /\ UNCHANGED <<decision, left, counted>>

EodFlattenCheck(t) ==
  /\ IF copy[t].eod = day
       THEN Update(t, "eod", file) /\ GoTo(t, "idle")
       ELSE Update(t, "eod", [copy[t] EXCEPT !.eod = day]) /\ GoTo(t, "flatten")
  /\ UNCHANGED <<decision, left, counted>>

(* flatten_all: best effort, so any of the live setups may go. *)
FlattenAll(t) ==
  /\ at[t] = "flatten"
  /\ \E S \in SUBSET Live :
       trade' = [g \in Setups |-> IF g \in S THEN "flat" ELSE trade[g]]
  /\ flattened' = IF t = "hb" THEN flattened \cup {day} ELSE flattened
  /\ GoTo(t, IF t \in Dispatchers THEN "note" ELSE "idle")
  /\ UNCHANGED <<file, book, lock, loaded, copy, rows, cur, size, decision, left,
                 offered, expired, day, crashes, counted, cut, raced, letGo>>

-----------------------------------------------------------------------------
(* A dispatcher: the guard decision *)

Detect(a, g) ==
  /\ at[a] = "idle" /\ g \notin offered
  /\ offered' = offered \cup {g}
  /\ cur' = [cur EXCEPT ![a] = g]
  /\ GoTo(a, "ramp")
  /\ UNCHANGED <<file, book, lock, loaded, copy, rows, size, decision, left,
                 trade, expired, day, crashes, history>>

(* Mutant: the ramp is one order short. *)
RampQtyShort(a) ==
  /\ at[a] = "ramp"
  /\ size' = [size EXCEPT ![a] = IF file.sent + 1 < Ramp THEN "one" ELSE "full"]
  /\ GoTo(a, "beat")
  /\ UNCHANGED <<file, book, lock, loaded, copy, rows, cur, decision, left, worldVars, history>>

RampQty(a) ==
  /\ at[a] = "ramp"
  /\ size' = [size EXCEPT ![a] = IF file.sent < Ramp THEN "one" ELSE "full"]
  /\ GoTo(a, "beat")
  /\ UNCHANGED <<file, book, lock, loaded, copy, rows, cur, decision, left, worldVars, history>>

(* guard_ok reads the state once, here.  Its other grounds for refusing (session, *)
(* news, stale data, levels, equity) are the free second disjunct.                *)
CheckKill(a) ==
  /\ at[a] = "check"
  /\ \/ /\ ~KillActive(file)
        /\ GoTo(a, "group")
        /\ copy' = [copy EXCEPT ![a] = file]
        /\ UNCHANGED <<decision, left>>
     \/ Refuse(a) /\ UNCHANGED copy
  /\ UNCHANGED <<file, book, lock, loaded, rows, cur, size, worldVars, history>>

(* _active_pending_group(s): an expired reservation is cleared by writing back  *)
(* the state read in CheckKill.                                                  *)
PendingGroup(a) ==
  /\ at[a] = "group"
  /\ copy' = [copy EXCEPT ![a] = Fresh]
  /\ IF GroupPending(copy[a])
       THEN Refuse(a) /\ UNCHANGED file
       ELSE /\ file' = IF copy[a].group = NoSetup THEN file ELSE [copy[a] EXCEPT !.group = NoSetup]
            /\ GoTo(a, "stats")
            /\ UNCHANGED <<decision, left>>
  /\ raced' = IF file' # file /\ copy[a] # file THEN TRUE ELSE raced
  /\ UNCHANGED <<book, lock, loaded, rows, cur, size, worldVars, counted, flattened, cut, letGo>>

(* Mutant: the loss limit is one loss late. *)
DayStatsLate(a) ==
  /\ at[a] = "stats"
  /\ CASE OpenPos(book) -> Refuse(a)
       [] ~OpenPos(book) /\ DayLosses(book) > DayLossN ->
            GoTo(a, "latch day") /\ UNCHANGED <<decision, left>>
       [] OTHER -> GoTo(a, "begin") /\ UNCHANGED <<decision, left>>
  /\ UNCHANGED <<file, book, lock, loaded, copy, rows, cur, size, worldVars, history>>

(* Mutant: the reservation alone is trusted, an open row is not asked for. *)
DayStatsNoOpen(a) ==
  /\ at[a] = "stats"
  /\ IF DayLosses(book) >= DayLossN THEN GoTo(a, "latch day") ELSE GoTo(a, "begin")
  /\ UNCHANGED <<decision, left>>
  /\ UNCHANGED <<file, book, lock, loaded, copy, rows, cur, size, worldVars, history>>

DayStats(a) ==
  /\ at[a] = "stats"
  /\ CASE OpenPos(book) -> Refuse(a)
       [] ~OpenPos(book) /\ DayLosses(book) >= DayLossN ->
            GoTo(a, "latch day") /\ UNCHANGED <<decision, left>>
       [] OTHER -> GoTo(a, "begin") /\ UNCHANGED <<decision, left>>
  /\ UNCHANGED <<file, book, lock, loaded, copy, rows, cur, size, worldVars, history>>

(* _latch: a day latch also replaces a hard one. *)
Latch(a, kind) ==
  /\ Update(a, LatchOp[kind], [copy[a] EXCEPT !.kill = kind, !.killDay = day])
  /\ decision' = [decision EXCEPT ![a] = "blocked"]
  /\ left' = [left EXCEPT ![a] = 1]
  /\ GoTo(a, "flatten")
  /\ UNCHANGED counted

-----------------------------------------------------------------------------
(* A dispatcher: reservation, relay, record *)

(* Mutant: the reservation is written into a default state. *)
BeginFromDefault(a) ==
  /\ IF GroupPending(copy[a])
       THEN Update(a, "begin", file) /\ Refuse(a)
       ELSE /\ Update(a, "begin", [Fresh EXCEPT !.group = cur[a]])
            /\ GoTo(a, "send")
            /\ UNCHANGED <<decision, left>>
  /\ UNCHANGED counted

BeginSiblingBatch(a) ==
  /\ IF GroupPending(copy[a])
       THEN Update(a, "begin", file) /\ Refuse(a)
       ELSE /\ Update(a, "begin", [copy[a] EXCEPT !.group = cur[a]])
            /\ GoTo(a, "send")
            /\ UNCHANGED <<decision, left>>
  /\ UNCHANGED counted

(* Mutant: a partial send is finished like a refusal. *)
SendNoRollback(a, reply) ==
  /\ at[a] = "send"
  /\ reply = "partial" => a = "AB"
  /\ \/ reply \in {"accepted", "partial", "lost"} /\ trade' = [trade EXCEPT ![cur[a]] = "live"]
     \/ reply \in {"rejected", "lost"} /\ UNCHANGED trade
  /\ decision' = [decision EXCEPT ![a] = IF reply = "accepted" THEN "sent" ELSE "blocked"]
  /\ left' = [left EXCEPT ![a] = IF reply = "accepted" THEN Siblings(a) ELSE 1]
  /\ GoTo(a, IF reply = "accepted" THEN "touch" ELSE "finish")
  /\ UNCHANGED <<file, book, lock, loaded, copy, rows, cur, size,
                 offered, expired, day, crashes, history>>

(* The relay.  A lost reply leaves open whether the order stands; the A/B path *)
(* takes it for a refusal.  A partial send is an accepted sibling followed by  *)
(* one that is not.                                                            *)
Send(a, reply) ==
  /\ at[a] = "send"
  /\ reply = "partial" => a = "AB"
  /\ \/ reply \in {"accepted", "partial", "lost"} /\ trade' = [trade EXCEPT ![cur[a]] = "live"]
     \/ reply \in {"rejected", "lost"} /\ UNCHANGED trade
  /\ decision' = [decision EXCEPT ![a] = IF reply = "accepted" THEN "sent" ELSE "blocked"]
  /\ left' = [left EXCEPT ![a] = IF reply = "accepted" THEN Siblings(a) ELSE 1]
  /\ GoTo(a, IF reply \in {"accepted", "partial"} \/ (reply = "lost" /\ a = "CO")
               THEN "touch" ELSE "finish")
  /\ letGo' = IF reply = "lost" /\ a = "AB" THEN letGo \cup {cur[a]} ELSE letGo
  /\ UNCHANGED <<file, book, lock, loaded, copy, rows, cur, size,
                 offered, expired, day, crashes, counted, flattened, cut, raced>>

TouchSiblingBatch(a) ==
  /\ Update(a, "touch", IF copy[a].group = cur[a] /\ GroupPending(copy[a]) THEN copy[a] ELSE file)
  /\ GoTo(a, IF decision[a] = "sent" THEN "note" ELSE "rollback")
  /\ UNCHANGED <<decision, left, counted>>

(* CANCEL and EXIT accepted: the setup is gone.  Otherwise it may be. *)
RollbackSiblingBatch(a) ==
  /\ at[a] = "rollback"
  /\ \/ trade' = [trade EXCEPT ![cur[a]] = "flat"] /\ at' \in {[at EXCEPT ![a] = p] : p \in {"finish", "uncertain"}}
     \/ UNCHANGED trade /\ GoTo(a, "uncertain")
  /\ UNCHANGED <<file, book, lock, loaded, copy, rows, cur, size, decision, left,
                 offered, expired, day, crashes, history>>

(* The reservation is marked rollback_uncertain, without the lock. *)
RollbackUncertain(a) ==
  /\ Update(a, "uncertain", copy[a])
  /\ GoTo(a, "latch hard")
  /\ UNCHANGED <<decision, left, counted>>

FinishSiblingBatch(a) ==
  /\ Update(a, "finish", IF copy[a].group \in {NoSetup, cur[a]}
                           THEN [copy[a] EXCEPT !.group = NoSetup] ELSE file)
  /\ GoTo(a, IF decision[a] = "sent" THEN "idle" ELSE "note")
  /\ UNCHANGED <<decision, left, counted>>

(* note(): the book is loaded, a row appended and the book written back. *)
NoteLoad(a) ==
  /\ at[a] = "note" /\ ~loaded[a]
  /\ rows' = [rows EXCEPT ![a] = book]
  /\ loaded' = [loaded EXCEPT ![a] = TRUE]
  /\ UNCHANGED <<file, book, lock, at, copy, cur, size, decision, left, worldVars, history>>

(* Where the dispatcher goes when a call of note() is over. *)
Noted(a) ==
  /\ left' = [left EXCEPT ![a] = @ - 1]
  /\ GoTo(a, CASE left[a] > 1 -> "note"
               [] left[a] = 1 /\ a = "AB" /\ decision[a] = "sent" -> "finish"
               [] OTHER -> "idle")

AlreadySent(a) == \E r \in rows[a] : r[1] = cur[a]

NoteSave(a) ==
  /\ at[a] = "note" /\ loaded[a]
  /\ loaded' = [loaded EXCEPT ![a] = FALSE] /\ rows' = [rows EXCEPT ![a] = {}]
  /\ book' = IF decision[a] = "sent" THEN rows[a] \cup {<<cur[a], day>>} ELSE rows[a]
  /\ counted' = IF decision[a] = "sent" THEN counted + 1 ELSE counted
  /\ IF decision[a] = "sent" /\ ~AlreadySent(a)
       THEN GoTo(a, "count") /\ UNCHANGED left
       ELSE Noted(a)
  /\ raced' = IF rows[a] # book THEN TRUE ELSE raced
  /\ UNCHANGED <<file, lock, copy, cur, size, decision, worldVars, flattened, cut, letGo>>

(* sent_total, which the ramp reads. *)
CountSent(a) ==
  /\ Update(a, "count", [copy[a] EXCEPT !.sent = @ + 1])
  /\ Noted(a)
  /\ UNCHANGED <<decision, counted>>

-----------------------------------------------------------------------------
(* The world *)

(* A live setup ends: the order expires unfilled, or the position is closed. *)
Resolve(g) ==
  /\ trade[g] = "live"
  /\ \E r \in {"win", "loss", "no_fill"} : trade' = [trade EXCEPT ![g] = r]
  /\ UNCHANGED <<file, book, lock, localVars, offered, expired, day, crashes, history>>

(* A reservation lasts minutes: it outlives every dispatch under way. *)
Expire(g) ==
  /\ g \in offered \ expired
  /\ \A a \in Dispatchers : at[a] = "idle"
  /\ expired' = expired \cup {g}
  /\ UNCHANGED <<file, book, lock, localVars, offered, trade, day, crashes, history>>

(* 18:00 ET.  The end-of-day flatten, due two hours earlier, is over and has left *)
(* no position unless Carry.                                                      *)
NewDay ==
  /\ day < MaxDay /\ at["hb"] # "flatten"
  /\ Carry \/ Live = {}
  /\ day' = day + 1
  /\ UNCHANGED <<file, book, lock, localVars, offered, trade, expired, crashes, history>>

Crash ==
  /\ crashes < MaxCrashes
  /\ crashes' = crashes + 1
  /\ lock' = Free
  /\ at' = [t \in Threads |-> "idle"] /\ loaded' = [t \in Threads |-> FALSE]
  /\ copy' = [t \in Threads |-> Fresh] /\ rows' = [t \in Threads |-> {}]
  /\ cur' = [t \in Threads |-> NoSetup] /\ size' = [t \in Threads |-> "one"]
  /\ decision' = [t \in Threads |-> "blocked"] /\ left' = [t \in Threads |-> 0]
  /\ cut' = IF at["hb"] = "flatten" THEN cut \cup {day} ELSE cut
  /\ UNCHANGED <<file, book, offered, trade, expired, day, counted, flattened, raced, letGo>>

-----------------------------------------------------------------------------
GuardDecision(a) ==
  \/ \E g \in Setups : Detect(a, g)
  \/ RampQty(a) \/ CheckKill(a) \/ PendingGroup(a) \/ DayStats(a)
  \/ \E kind \in {"day", "hard"} : Latch(a, kind)

Dispatch(a) ==
  \/ BeginSiblingBatch(a)
  \/ \E reply \in Replies : Send(a, reply)
  \/ TouchSiblingBatch(a) \/ RollbackSiblingBatch(a) \/ RollbackUncertain(a)
  \/ FinishSiblingBatch(a) \/ NoteLoad(a) \/ NoteSave(a) \/ CountSent(a)

Service ==
  \/ Heartbeat \/ Request
  \/ \E t \in Threads : Load(t) \/ Beat(t) \/ Halt(t) \/ Arm(t) \/ EodFlattenCheck(t) \/ FlattenAll(t)

World ==
  \/ \E g \in Setups : Resolve(g) \/ Expire(g)
  \/ NewDay \/ Crash

Next ==
  \/ \E a \in Dispatchers : GuardDecision(a) \/ Dispatch(a)
  \/ Service
  \/ World

Spec == Init /\ [][Next]_vars

(* Threads are scheduled and every HTTP call has a timeout, so a dispatcher    *)
(* that can take a step takes one; nothing is assumed of the heartbeat, the    *)
(* operator or the market.                                                     *)
Working(a) == Load(a) \/ Beat(a) \/ FlattenAll(a) \/ Dispatch(a)
              \/ (at[a] # "idle" /\ GuardDecision(a))
FairSpec == Spec /\ \A a \in Dispatchers : WF_vars(Working(a))

-----------------------------------------------------------------------------
(* Properties *)

TypeOK ==
  /\ file \in States
  /\ book \subseteq Rows
  /\ lock \in Threads \cup {Free}
  /\ at \in [Threads -> Places]
  /\ loaded \in [Threads -> BOOLEAN]
  /\ copy \in [Threads -> States]
  /\ rows \in [Threads -> SUBSET Rows]
  /\ cur \in [Threads -> Setups \cup {NoSetup}]
  /\ size \in [Threads -> {"one", "full"}]
  /\ decision \in [Threads -> {"sent", "blocked"}]
  /\ left \in [Threads -> Int]
  /\ offered \subseteq Setups
  /\ trade \in [Setups -> TradeStates]
  /\ expired \subseteq Setups
  /\ day \in Days
  /\ crashes \in 0..MaxCrashes
  /\ counted \in Nat
  /\ flattened \subseteq Days /\ cut \subseteq Days
  /\ raced \in BOOLEAN /\ letGo \subseteq Setups

Handling(a, g) == at[a] # "idle" /\ cur[a] = g

Recorded(g) == \E r \in book : r[1] = g

(* A setup the account answers for: one of the day's book, or one the book never  *)
(* saw and nothing has let go.  A restart that cuts a dispatch off before note()   *)
(* leaves the reservation, until it expires.                                       *)
Answered(g) ==
  \/ <<g, day>> \in book
  \/ ~Recorded(g) /\ g \notin letGo /\ (crashes = 0 \/ g \notin expired)

(* A dispatcher has one setup at the broker at a time, across rollbacks, halts,    *)
(* expired reservations and restarts: what guard_ok's group_pending and            *)
(* position_open and begin_sibling_batch are for.  The two dispatchers do not      *)
(* exclude each other: both may pass guard_ok before either reserves.  No promise   *)
(* outlives a save that undoes another.                                            *)
OneSetupEach ==
  raced \/ Cardinality({g \in Live : Answered(g)}) <= Cardinality(Dispatchers)

(* A setup that may be live is never forgotten.  The durable reservation is its    *)
(* own from begin_sibling_batch to the end of the relay; afterwards somebody       *)
(* still handles it, it has a row in the book or the reservation, or the           *)
(* account is halted; only the expiry of the reservation ends that (begin,         *)
(* rollback, note).  The exceptions are a save that undoes another, a lost reply   *)
(* that the A/B path takes for a refusal and a hard halt that is lifted.           *)
LiveIsRemembered ==
  \/ raced
  \/ /\ \A a \in Dispatchers : at[a] \in {"send", "touch", "rollback"} => file.group = cur[a]
     /\ \A g \in Live \ (expired \cup letGo) :
          \/ \E a \in Dispatchers : Handling(a, g)
          \/ Recorded(g)
          \/ file.group = g
          \/ file.kill = "hard"

(* A hard halt (HALT, an uncertain rollback) ends only by /guard/kill?on=0.     *)
HardHaltHolds ==
  [][file.kill = "hard" /\ file'.kill # "hard" => at["op"] = "arm" /\ loaded["op"]]_vars

(* What does hold of it: a hard halt is lifted by ARM, replaced by the latch of    *)
(* the day's loss limit, or overwritten by a thread that read the state before it  *)
(* and saves now; a thread that has seen it carries it through every other update. *)
HaltStands ==
  [][file.kill = "hard" /\ file'.kill # "hard" =>
       \E t \in Threads : /\ at'[t] # at[t]
                          /\ at[t] \in {"arm", "latch day"} \/ copy[t].kill # "hard"]_vars

(* No trading day books more losing setups than DAY_LOSS_N, and one for each       *)
(* further dispatcher, which may have passed the check at the same time; not even  *)
(* when note() writes the book back over another thread's row.                     *)
LossLimit ==
  \A d \in Days : Cardinality({r \in book : r[2] = d /\ trade[r[1]] = "loss"})
                     <= DayLossN + Cardinality(Dispatchers) - 1

(* Lost and stale updates of sent_total can only prolong the ramp: a setup is   *)
(* sized in full only after Ramp sent orders have been recorded.                *)
RampHolds == \A a \in Dispatchers : size[a] = "full" => counted >= Ramp

(* A day marked as flattened has had its end-of-day flatten, or is having it,      *)
(* whatever the other threads write back, unless a restart came in between.        *)
EodFlattened ==
  file.eod \in Days => file.eod \in flattened \cup cut \/ at["hb"] = "flatten"

(* A dispatcher gets through: neither the lock nor a refusal strands it.        *)
DispatchEnds == \A a \in Dispatchers : at[a] # "idle" ~> at[a] = "idle"
=============================================================================
