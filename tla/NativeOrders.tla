---------------------------- MODULE NativeOrders ----------------------------
(***************************************************************************)
(* The native order journal of builder_crosstrade.py: one account, a       *)
(* durable SQLite journal, a broker reached over HTTP, and three threads   *)
(* that share them.                                                        *)
(*                                                                         *)
(*   - the dispatcher (continuation_live.drain -> agent -> submit), which  *)
(*     claims a V3 order, reserves it in the journal and posts the bracket;*)
(*   - "rec", the reconciliation pass started after every account poll     *)
(*     (reconcile, reconcile_costs, drain_exits), serialised by poll_lock; *)
(*   - "mgr", any caller of action() outside that lock: the exit manager   *)
(*     (exit_payload) and the guard's cancel relay.                        *)
(*                                                                         *)
(* The broker is external: a POST may be lost, may be executed after the   *)
(* client has given up on its reply, fills appear in the fill list later   *)
(* than they happen.  The process may crash between any two steps; only    *)
(* the journal survives.                                                   *)
(***************************************************************************)
EXTENDS Integers, FiniteSets

CONSTANTS
  Orders,       \* V3 orders offered to the dispatcher
  Qty,          \* contracts of an order
  MaxCrashes,   \* bound: crashes of the process
  MaxRevisions, \* bound: fee revisions of closed trades
  LateReports,  \* TRUE: a lifecycle's execution reports may lag its status
  Callers,      \* what is asked from outside the pass: subset of {"exit", "cancel", "close"}
  AgeCap        \* bound: ages are counted in evidence windows (15 s) up to here

ASSUME NativeOrdersAssumption ==
  /\ Qty \in Nat \ {0}
  /\ MaxCrashes \in Nat
  /\ MaxRevisions \in Nat
  /\ LateReports \in BOOLEAN
  /\ Callers \subseteq {"exit", "cancel", "close"}
  /\ AgeCap \in Nat \ {0}

Threads == {"rec", "mgr"}
NoOrder == "no order"
ASSUME NoOrderAssumption == NoOrder \notin Orders

Ages      == 0..AgeCap       \* of a snapshot
SinceAges == 0..(AgeCap + 1)  \* of an evidence stamp: it outlives every snapshot
Never     == -1

VARIABLES
  (* broker *)
  entry,      \* status of the entry order at the broker
  kids,       \* status of its two OCO children (take profit, stop)
  filled,     \* contracts filled on the entry
  exited,     \* contracts closed again, by a child or by a close order
  exitBy,     \* what closed them
  shownIn,    \* entry fills visible in the fill list
  shownOut,   \* exit fills visible in the fill list
  net,        \* POSTs on the wire
  accepted,   \* POSTs the broker executed
  (* durable journal *)
  jstate,     \* native_orders.state, "none" before the INSERT
  receipt,    \* native_orders.receipt_json is present
  failed,     \* native_orders.error is present
  obs,        \* native_orders.observation_json
  since,      \* age of no_fill_verified_since_ms, Never when absent
  known,      \* orders whose fills are in command.before_fill_ids
  cache,      \* native_lifecycles: does the terminal entry's kept trail show a fill
  acts,       \* native_actions.state of every action id
  exitReq,    \* native_exit_requests
  local,      \* orders.state of the V3 book
  held,       \* orders whose position_json is present
  (* threads *)
  pc, cur, op, todo,
  snapPos, snapIn, snapOut, snapAge, \* the account snapshot a thread holds
  outdated,   \* <<t, o>>: o has a local event newer than t's snapshot
  life,       \* the lifecycles a thread has read
  verdict,    \* the state it is about to store
  spc, scur,  \* the dispatcher
  crashes, revisions

brokerVars  == <<entry, kids, filled, exited, exitBy, shownIn, shownOut, net, accepted>>
marketVars  == <<entry, kids, filled, exited, exitBy, shownIn, shownOut>>
journalVars == <<jstate, receipt, failed, obs, since, known, cache, acts, exitReq>>
localVars   == <<local, held>>
snapVars    == <<snapPos, snapIn, snapOut, snapAge>>
threadVars  == <<pc, cur, op, todo, snapVars, outdated, life, verdict>>
subVars     == <<spc, scur>>
boundVars   == <<crashes, revisions>>
vars == <<brokerVars, journalVars, localVars, threadVars, subVars, boundVars>>

-----------------------------------------------------------------------------
(* States and identifiers *)

Resolved   == {"NO_FILL", "CLOSED"}
Terminal   == Resolved \cup {"CLOSED_PENDING_COSTS"}
JStates    == Terminal \cup {"none", "SENDING", "UNKNOWN", "WAITING_BROKER_FILL",
                "WAITING_CHILD_CANCEL", "WAITING_NO_FILL_EVIDENCE", "OPEN",
                "RECONCILIATION_REQUIRED"}
Unresolved == JStates \ (Resolved \cup {"none"})

EntryStates == {"none", "Working", "Filled", "Cancelled"}
KidStates   == {"none", "Suspended", "Working", "Done"}
ActStates   == {"none", "SENDING", "UNKNOWN", "ACKNOWLEDGED"}

(* V3 order states that prepare(claim=True) counts as owning the route. *)
Owning == {"PREPARED", "WAITING", "OPEN", "MISMATCH", "EXITING"}
LocalTerminal == {"CLOSED", "NO_FILL"}
LocalStates == {"none", "BLOCKED"} \cup Owning \cup LocalTerminal

CancelIds == {"guard-cancel", "relay-cancel"}
CloseIds  == {"guard-close", "exit-close"}
ActionIds == CancelIds \cup CloseIds \cup {"child-cancel"}
MsgKinds  == ActionIds \cup {"entry"}

CancelId(t) == IF t = "rec" THEN "guard-cancel" ELSE "relay-cancel"
CloseId(t)  == IF t = "rec" THEN "guard-close" ELSE "exit-close"

Ended(e)   == e \in {"Filled", "Cancelled"}
NoObs      == [src |-> "none", in |-> 0, out |-> 0, ended |-> FALSE]
NoLife     == [entry |-> "none", kids |-> "none", rep |-> FALSE]
NoFills    == [o \in Orders |-> 0]
Position(o) == filled[o] - exited[o]

(* The journal can attribute the exit fills: they belong to a child, or to a *)
(* close order whose id a reply delivered.                                   *)
OwnedExit(o) == \/ exitBy[o] \in {"none", "kids"}
                \/ exitBy[o] \in CloseIds /\ acts[o][exitBy[o]] = "ACKNOWLEDGED"

(* The order may still create or hold exposure at the broker. *)
Exposed(o) == \/ <<"entry", o>> \in net
              \/ entry[o] = "Working"
              \/ Position(o) > 0

-----------------------------------------------------------------------------
Init ==
  /\ entry = [o \in Orders |-> "none"] /\ kids = [o \in Orders |-> "none"]
  /\ filled = NoFills /\ exited = NoFills /\ exitBy = [o \in Orders |-> "none"]
  /\ shownIn = NoFills /\ shownOut = NoFills
  /\ net = {} /\ accepted = {}
  /\ jstate = [o \in Orders |-> "none"]
  /\ receipt = [o \in Orders |-> FALSE] /\ failed = [o \in Orders |-> FALSE]
  /\ obs = [o \in Orders |-> NoObs] /\ since = [o \in Orders |-> Never]
  /\ known = [o \in Orders |-> {}] /\ cache = [o \in Orders |-> "none"]
  /\ acts = [o \in Orders |-> [a \in ActionIds |-> "none"]]
  /\ exitReq = {}
  /\ local = [o \in Orders |-> "none"] /\ held = {}
  /\ pc = [t \in Threads |-> "idle"] /\ cur = [t \in Threads |-> NoOrder]
  /\ op = [t \in Threads |-> "none"] /\ todo = [t \in Threads |-> {}]
  /\ snapPos = [t \in Threads |-> NoFills] /\ snapIn = [t \in Threads |-> NoFills]
  /\ snapOut = [t \in Threads |-> NoFills] /\ snapAge = [t \in Threads |-> 0]
  /\ outdated = {}
  /\ life = [t \in Threads |-> NoLife]
  /\ verdict = [t \in Threads |-> "none"]
  /\ spc = "idle" /\ scur = NoOrder
  /\ crashes = 0 /\ revisions = 0

-----------------------------------------------------------------------------
(* The broker (external) *)

(* An entry POST is executed: the bracket works, or the entry is rejected *)
(* and its children survive suspended or not at all.                      *)
DeliverEntry(o) ==
  /\ <<"entry", o>> \in net
  /\ net' = net \ {<<"entry", o>>}
  /\ accepted' = accepted \cup {<<"entry", o>>}
  /\ \/ /\ entry' = [entry EXCEPT ![o] = "Working"]
        /\ kids' = [kids EXCEPT ![o] = "Suspended"]
     \/ /\ entry' = [entry EXCEPT ![o] = "Cancelled"]
        /\ \E k \in {"none", "Suspended", "Done"} : kids' = [kids EXCEPT ![o] = k]
  /\ UNCHANGED <<filled, exited, exitBy, shownIn, shownOut>>
  /\ UNCHANGED <<journalVars, localVars, threadVars, subVars, boundVars>>

DeliverCancel(a, o) ==
  /\ <<a, o>> \in net
  /\ net' = net \ {<<a, o>>}
  /\ accepted' = accepted \cup {<<a, o>>}
  /\ \/ /\ a \in CancelIds
        /\ entry' = [entry EXCEPT ![o] = IF @ = "Working" THEN "Cancelled" ELSE @]
        /\ kids' = kids
     \/ /\ a = "child-cancel"
        /\ kids' = [kids EXCEPT ![o] = IF @ = "none" THEN @ ELSE "Done"]
        /\ entry' = entry
  /\ UNCHANGED <<filled, exited, exitBy, shownIn, shownOut>>
  /\ UNCHANGED <<journalVars, localVars, threadVars, subVars, boundVars>>

(* positions/close names an instrument, not an order: whatever position the *)
(* account holds in it is liquidated.                                       *)
DeliverClose(a, o) ==
  /\ a \in CloseIds /\ <<a, o>> \in net
  /\ net' = net \ {<<a, o>>}
  /\ accepted' = accepted \cup {<<a, o>>}
  /\ exited' = filled
  /\ exitBy' = [p \in Orders |-> IF Position(p) = 0 THEN exitBy[p]
                                 ELSE IF p = o THEN a ELSE "foreign"]
  /\ kids' = [p \in Orders |-> IF Position(p) > 0 THEN "Done" ELSE kids[p]]
  /\ UNCHANGED <<entry, filled, shownIn, shownOut>>
  /\ UNCHANGED <<journalVars, localVars, threadVars, subVars, boundVars>>

Lose(m) ==
  /\ m \in net
  /\ net' = net \ {m}
  /\ UNCHANGED <<marketVars, accepted>>
  /\ UNCHANGED <<journalVars, localVars, threadVars, subVars, boundVars>>

Fill(o) ==
  /\ entry[o] = "Working" /\ filled[o] < Qty
  /\ filled' = [filled EXCEPT ![o] = @ + 1]
  /\ entry' = [entry EXCEPT ![o] = IF filled[o] + 1 = Qty THEN "Filled" ELSE @]
  /\ kids' = [kids EXCEPT ![o] = IF @ = "Suspended" THEN "Working" ELSE @]
  /\ UNCHANGED <<exited, exitBy, shownIn, shownOut, net, accepted>>
  /\ UNCHANGED <<journalVars, localVars, threadVars, subVars, boundVars>>

(* The GTD time passes, or the exchange cancels the rest of the entry. *)
EndEntry(o) ==
  /\ entry[o] = "Working"
  /\ entry' = [entry EXCEPT ![o] = "Cancelled"]
  /\ UNCHANGED <<kids, filled, exited, exitBy, shownIn, shownOut, net, accepted>>
  /\ UNCHANGED <<journalVars, localVars, threadVars, subVars, boundVars>>

(* Target or stop of a working bracket closes the position. *)
BracketExit(o) ==
  /\ kids[o] = "Working" /\ Ended(entry[o]) /\ Position(o) > 0
  /\ exited' = [exited EXCEPT ![o] = filled[o]]
  /\ exitBy' = [exitBy EXCEPT ![o] = "kids"]
  /\ kids' = [kids EXCEPT ![o] = "Done"]
  /\ UNCHANGED <<entry, filled, shownIn, shownOut, net, accepted>>
  /\ UNCHANGED <<journalVars, localVars, threadVars, subVars, boundVars>>

(* Suspended children of an ended entry without fills lapse with the session. *)
KidsLapse(o) ==
  /\ kids[o] = "Suspended" /\ Ended(entry[o])
  /\ kids' = [kids EXCEPT ![o] = "Done"]
  /\ UNCHANGED <<entry, filled, exited, exitBy, shownIn, shownOut, net, accepted>>
  /\ UNCHANGED <<journalVars, localVars, threadVars, subVars, boundVars>>

Show(o) ==
  /\ shownIn[o] # filled[o] \/ shownOut[o] # exited[o]
  /\ shownIn' = [shownIn EXCEPT ![o] = filled[o]]
  /\ shownOut' = [shownOut EXCEPT ![o] = exited[o]]
  /\ UNCHANGED <<entry, kids, filled, exited, exitBy, net, accepted>>
  /\ UNCHANGED <<journalVars, localVars, threadVars, subVars, boundVars>>

(* One evidence window of 15 s passes; no fill stays hidden for longer. *)
Older(n, bound) == IF n < bound THEN n + 1 ELSE n
Tick ==
  /\ shownIn = filled /\ shownOut = exited
  /\ \/ \E t \in Threads : pc[t] # "idle" /\ snapAge[t] < AgeCap
     \/ \E o \in Orders : since[o] \in Ages
  /\ snapAge' = [t \in Threads |-> IF pc[t] = "idle" THEN snapAge[t]
                                   ELSE Older(snapAge[t], AgeCap)]
  /\ since' = [o \in Orders |-> IF since[o] = Never THEN Never
                               ELSE Older(since[o], AgeCap + 1)]
  /\ UNCHANGED <<brokerVars, jstate, receipt, failed, obs, known, cache, acts, exitReq>>
  /\ UNCHANGED <<localVars, pc, cur, op, todo, snapPos, snapIn, snapOut>>
  /\ UNCHANGED <<outdated, life, verdict, subVars, boundVars>>

Broker ==
  \/ \E o \in Orders : \/ DeliverEntry(o) \/ Fill(o) \/ EndEntry(o)
                       \/ BracketExit(o) \/ KidsLapse(o) \/ Show(o)
  \/ \E o \in Orders, a \in ActionIds : DeliverCancel(a, o) \/ DeliverClose(a, o)
  \/ \E m \in net : Lose(m)
  \/ Tick
-----------------------------------------------------------------------------
(* The dispatcher: continuation_live.drain, agent, Transport.submit *)

(* live_dispatches takes each order once; prepare(claim=True) writes the V3 *)
(* row only if no other V3 order still owns the route.                      *)
Claim(o) ==
  /\ spc = "idle" /\ local[o] = "none"
  /\ \/ /\ \A p \in Orders : local[p] \notin Owning
        /\ local' = [local EXCEPT ![o] = "PREPARED"]
        /\ spc' = "prepared" /\ scur' = o
     \/ /\ \E p \in Orders : local[p] \in Owning
        /\ local' = [local EXCEPT ![o] = "BLOCKED"]
        /\ UNCHANGED subVars
  /\ UNCHANGED <<brokerVars, journalVars, held, threadVars, boundVars>>

(* Mutant: an action in doubt does not block the next entry. *)
EntryBlockedButActions ==
  \/ \E o \in Orders : Position(o) > 0 \/ entry[o] = "Working" \/ kids[o] \in {"Suspended", "Working"}
  \/ \E o \in Orders : jstate[o] \in Unresolved

(* AccountSync.entry_blocker(refresh=True) on a fresh snapshot, followed by *)
(* Transport.entry_blocker on the journal.                                  *)
EntryBlocked ==
  \/ \E o \in Orders : Position(o) > 0 \/ entry[o] = "Working" \/ kids[o] \in {"Suspended", "Working"}
  \/ \E o \in Orders, a \in ActionIds : acts[o][a] \in {"SENDING", "UNKNOWN"}
  \/ \E o \in Orders : jstate[o] \in Unresolved
  \/ \E o \in Orders : \/ shownIn[o] > 0 /\ ~receipt[o]
                       \/ shownOut[o] > 0 /\ ~OwnedExit(o)

SubmitCheck ==
  /\ spc = "prepared" /\ local[scur] = "PREPARED" /\ ~EntryBlocked
  /\ spc' = "checked"
  /\ UNCHANGED <<brokerVars, journalVars, localVars, threadVars, scur, boundVars>>

(* BEGIN IMMEDIATE ... INSERT native_orders SENDING, then the POST. *)
SubmitReserve ==
  /\ spc = "checked" /\ jstate[scur] = "none"
  /\ \A p \in Orders : jstate[p] \notin Unresolved
  /\ jstate' = [jstate EXCEPT ![scur] = "SENDING"]
  /\ known' = [known EXCEPT ![scur] = {p \in Orders : jstate[p] # "none"}]
  /\ net' = net \cup {<<"entry", scur>>}
  /\ spc' = "posted"
  /\ UNCHANGED <<marketVars, accepted, receipt, failed, obs, since, cache, acts, exitReq>>
  /\ UNCHANGED <<localVars, threadVars, scur, boundVars>>

(* A TransportError before the POST: the dispatch is recorded as BLOCKED. *)
SubmitRefused ==
  /\ \/ spc = "prepared" /\ (EntryBlocked \/ local[scur] # "PREPARED")
     \/ spc = "checked" /\ \E p \in Orders : jstate[p] \in Unresolved
  /\ local' = [local EXCEPT ![scur] = IF @ = "PREPARED" THEN "BLOCKED" ELSE @]
  /\ spc' = "idle" /\ scur' = NoOrder
  /\ UNCHANGED <<brokerVars, journalVars, held, threadVars, boundVars>>

(* The reply to the POST, or no usable reply at all.  The row is updated only *)
(* if reconciliation has not already moved it on.                             *)
SubmitReply ==
  /\ spc = "posted"
  /\ \E ok \in BOOLEAN :
       /\ ok => <<"entry", scur>> \in accepted /\ kids[scur] # "none"
       /\ IF jstate[scur] = "SENDING"
          THEN /\ jstate' = [jstate EXCEPT ![scur] = IF ok THEN "WAITING_BROKER_FILL" ELSE "UNKNOWN"]
               /\ receipt' = [receipt EXCEPT ![scur] = ok]
               /\ failed' = [failed EXCEPT ![scur] = ~ok]
          ELSE UNCHANGED <<jstate, receipt, failed>>
  /\ spc' = "replied"
  /\ UNCHANGED <<brokerVars, obs, since, known, cache, acts, exitReq>>
  /\ UNCHANGED <<localVars, threadVars, scur, boundVars>>

(* record_dispatch -> accept_entry: only a V3 row nothing has advanced yet. *)
SubmitRecord ==
  /\ spc = "replied"
  /\ local' = [local EXCEPT ![scur] = IF @ = "PREPARED" THEN "WAITING" ELSE @]
  /\ spc' = "idle" /\ scur' = NoOrder
  /\ UNCHANGED <<brokerVars, journalVars, held, threadVars, boundVars>>

Dispatcher ==
  \/ \E o \in Orders : Claim(o)
  \/ SubmitCheck \/ SubmitReserve \/ SubmitRefused \/ SubmitReply \/ SubmitRecord
-----------------------------------------------------------------------------
(* Account polls *)

(* AccountSync.poll reads positions and fills with separate requests: either *)
(* may be the older one.  A poll holds AccountSync.poll_lock.                *)
PollStart(t, o, what) ==
  /\ pc[t] = "idle" /\ \A u \in Threads : pc[u] # "polling"
  /\ IF t = "rec" THEN o = NoOrder /\ what = "none"
     ELSE /\ o \in Orders /\ receipt[o]
          /\ \/ what = "cancel" /\ jstate[o] \notin Terminal
             \/ what = "close" /\ local[o] = "OPEN"
  /\ pc' = [pc EXCEPT ![t] = "polling"]
  /\ cur' = [cur EXCEPT ![t] = o] /\ op' = [op EXCEPT ![t] = what]
  /\ local' = IF what = "close" THEN [local EXCEPT ![o] = "EXITING"] ELSE local
  /\ snapPos' = [snapPos EXCEPT ![t] = [p \in Orders |-> Position(p)]]
  /\ snapIn' = [snapIn EXCEPT ![t] = shownIn]
  /\ snapOut' = [snapOut EXCEPT ![t] = shownOut]
  /\ snapAge' = [snapAge EXCEPT ![t] = 0]
  /\ UNCHANGED <<brokerVars, journalVars, held, todo, outdated, life, verdict>>
  /\ UNCHANGED <<subVars, boundVars>>

PollEnd(t) ==
  /\ pc[t] = "polling"
  /\ \/ /\ snapPos' = [snapPos EXCEPT ![t] = [p \in Orders |-> Position(p)]]
        /\ UNCHANGED <<snapIn, snapOut>>
     \/ /\ snapIn' = [snapIn EXCEPT ![t] = shownIn]
        /\ snapOut' = [snapOut EXCEPT ![t] = shownOut]
        /\ UNCHANGED snapPos
  /\ snapAge' = [snapAge EXCEPT ![t] = 0]
  /\ outdated' = {x \in outdated : x[1] # t}
  /\ obs' = [o \in Orders |-> IF obs[o].src = t THEN [obs[o] EXCEPT !.src = "none"] ELSE obs[o]]
  /\ pc' = [pc EXCEPT ![t] = IF t = "rec" THEN "rows" ELSE "act"]
  /\ todo' = [todo EXCEPT ![t] = IF t = "rec"
                                 THEN {o \in Orders : jstate[o] \in Unresolved \ Terminal}
                                 ELSE {}]
  /\ UNCHANGED <<brokerVars, jstate, receipt, failed, since, known, cache, acts, exitReq>>
  /\ UNCHANGED <<localVars, cur, op, life, verdict, subVars, boundVars>>

-----------------------------------------------------------------------------
(* reconcile_one *)

Goto(t, where) == pc' = [pc EXCEPT ![t] = where]

(* Mutant: the thread forgets its order and stays where it is. *)
AbandonInPlace(t) ==
  /\ op' = [op EXCEPT ![t] = "none"] /\ cur' = [cur EXCEPT ![t] = NoOrder]
  /\ life' = [life EXCEPT ![t] = NoLife] /\ verdict' = [verdict EXCEPT ![t] = "none"]
  /\ UNCHANGED pc

(* A TransportError: the pass records it and takes the next row; inside an  *)
(* action it abandons the action (drain_exits swallows it).                 *)
Abandon(t) ==
  /\ IF t = "rec" THEN Goto(t, IF op[t] = "none" THEN "rows" ELSE "drain")
                  ELSE Goto(t, "done")
  /\ op' = [op EXCEPT ![t] = "none"] /\ cur' = [cur EXCEPT ![t] = NoOrder]
  /\ life' = [life EXCEPT ![t] = NoLife] /\ verdict' = [verdict EXCEPT ![t] = "none"]
Fail(t) ==
  /\ failed' = IF t = "rec" /\ op[t] = "none" THEN [failed EXCEPT ![cur[t]] = TRUE] ELSE failed
  /\ Abandon(t)

NextRow ==
  /\ pc["rec"] = "rows"
  /\ \E o \in todo["rec"] : /\ cur' = [cur EXCEPT !["rec"] = o]
                            /\ todo' = [todo EXCEPT !["rec"] = @ \ {o}]
  /\ Goto("rec", "read")
  /\ UNCHANGED <<brokerVars, journalVars, localVars, op, snapVars, outdated, life, verdict>>
  /\ UNCHANGED <<subVars, boundVars>>

(* recover_receipt and the three lifecycles.  Without a receipt the order    *)
(* must be found at the broker by its client id, bracket included.  The trail *)
(* of an ended entry is kept and answers every later read: its reports stay   *)
(* those of the first read.                                                   *)
ReadLife(t) ==
  /\ pc[t] = "read"
  /\ LET o == cur[t] IN
     IF entry[o] = "none" \/ kids[o] = "none" THEN Fail(t) /\ UNCHANGED cache
     ELSE /\ \E rep \in IF Ended(entry[o]) /\ cache[o] # "none" THEN {cache[o] = "fill"}
                       ELSE {filled[o] > 0} \cup (IF LateReports THEN {shownIn[o] > 0} ELSE {}) :
               /\ life' = [life EXCEPT ![t] = [entry |-> entry[o], kids |-> kids[o], rep |-> rep]]
               /\ cache' = IF Ended(entry[o])
                           THEN [cache EXCEPT ![o] = IF rep THEN "fill" ELSE "no fill"]
                           ELSE cache
          /\ Goto(t, "decide")
          /\ UNCHANGED <<failed, cur, op, verdict>>
  /\ UNCHANGED <<brokerVars, jstate, receipt, obs, since, known, acts, exitReq>>
  /\ UNCHANGED <<localVars, todo, snapVars, outdated, subVars, boundVars>>

(* Mutant: an order the broker does not list was never placed. *)
ReadNothing(t) ==
  /\ pc[t] = "read"
  /\ local' = [local EXCEPT ![cur[t]] = "NO_FILL"]
  /\ verdict' = [verdict EXCEPT ![t] = "NO_FILL"]
  /\ Goto(t, "store")
  /\ UNCHANGED <<brokerVars, journalVars, held, cur, op, life, todo, snapVars, outdated>>
  /\ UNCHANGED <<subVars, boundVars>>

(* Any of these reads may fail. *)
ReadFails(t) ==
  /\ pc[t] = "read"
  /\ Fail(t)
  /\ UNCHANGED <<brokerVars, jstate, receipt, obs, since, known, cache, acts, exitReq>>
  /\ UNCHANGED <<localVars, todo, snapVars, outdated, subVars, boundVars>>

SnapOut(t, o) == IF OwnedExit(o) THEN snapOut[t][o] ELSE 0
Remaining(t, o) == snapIn[t][o] - SnapOut(t, o)
SnapFlat(t) == \A p \in Orders : snapPos[t][p] = 0

(* A terminal lifecycle proves the outcome of cancels that were in doubt. *)
Acknowledge(t, o) ==
  acts' = [acts EXCEPT ![o] = [a \in ActionIds |->
    IF \/ a \in CancelIds /\ Ended(life[t].entry)
       \/ a = "child-cancel" /\ life[t].kids = "Done"
    THEN IF acts[o][a] = "none" THEN "none" ELSE "ACKNOWLEDGED"
    ELSE acts[o][a]]]

(* broker_event: the V3 book moves, and threads with older snapshots may no *)
(* longer move it back (out-of-order broker event).                         *)
Publish(t, o, state, holds) ==
  /\ local' = [local EXCEPT ![o] = state]
  /\ held' = IF holds THEN held \cup {o} ELSE held \ {o}
  /\ outdated' = outdated \cup {<<u, o>> : u \in {v \in Threads \ {t} : pc[v] # "idle"}}
Settle(t, state) ==
  /\ verdict' = [verdict EXCEPT ![t] = state]
  /\ Goto(t, "store")
  /\ UNCHANGED <<failed, cur, op, life>>
SettleOnly(t, state) == Settle(t, state) /\ UNCHANGED <<localVars, outdated>>
Refuse(t) == Fail(t) /\ UNCHANGED <<localVars, outdated>>

(* Mutants: the entry may still be working; its execution trail is not read. *)
UnfilledSoFar(t) == ~life[t].rep /\ SnapFlat(t)
EndedTrailUnread(t) == life[t].entry = "Cancelled" /\ SnapFlat(t)

(* The entry has ended, neither its trail nor the account shows a fill. *)
EndedUnfilled(t) == life[t].entry = "Cancelled" /\ ~life[t].rep /\ SnapFlat(t)

(* No owned fill is visible. *)
DecideUnfilled(t, o) ==
  /\ snapIn[t][o] = 0
  /\ \/ ~EndedUnfilled(t) /\ SettleOnly(t, "WAITING_BROKER_FILL")
     \/ /\ EndedUnfilled(t) /\ life[t].kids # "Done"
        /\ verdict' = [verdict EXCEPT ![t] = "WAITING_CHILD_CANCEL"]
        /\ Goto(t, "kids")
        /\ UNCHANGED <<failed, cur, op, life, localVars, outdated>>
     \/ /\ EndedUnfilled(t) /\ life[t].kids = "Done"
        /\ IF since[o] # Never /\ since[o] - snapAge[t] >= 1
           THEN /\ IF local[o] \in LocalTerminal THEN UNCHANGED <<localVars, outdated>>
                   ELSE Publish(t, o, "NO_FILL", FALSE)
                /\ Settle(t, "NO_FILL")
           ELSE SettleOnly(t, "WAITING_NO_FILL_EVIDENCE")

(* A position is open: it must be exactly what the owned fills explain. *)
Protected(t) == life[t].kids = "Working"
DecideOpen(t, o) ==
  /\ snapIn[t][o] > 0 /\ Remaining(t, o) > 0
  /\ LET explained == /\ snapPos[t][o] = Remaining(t, o)
                      /\ \A p \in Orders \ {o} : snapPos[t][p] = 0
         full == snapIn[t][o] = Qty
         state == IF Protected(t) /\ full THEN "OPEN" ELSE "RECONCILIATION_REQUIRED"
     IN \/ ~explained /\ Refuse(t)
        \/ /\ explained /\ (~full \/ <<t, o>> \in outdated)
           /\ SettleOnly(t, state)
        \/ /\ explained /\ full /\ <<t, o>> \notin outdated
           /\ IF local[o] \in LocalTerminal THEN Refuse(t)
              ELSE /\ Publish(t, o, IF local[o] = "EXITING" THEN "EXITING"
                                    ELSE IF Protected(t) THEN "OPEN" ELSE "MISMATCH", TRUE)
                   /\ Settle(t, state)

(* All owned fills cancel out and nothing of the order is still active. *)
DecideFlat(t, o) ==
  /\ snapIn[t][o] > 0 /\ Remaining(t, o) = 0
  /\ \/ /\ ~SnapFlat(t) \/ ~Ended(life[t].entry) \/ life[t].kids # "Done"
        /\ Refuse(t)
     \/ /\ SnapFlat(t) /\ Ended(life[t].entry) /\ life[t].kids = "Done"
        /\ \/ local[o] = "CLOSED" /\ SettleOnly(t, "CLOSED_PENDING_COSTS")
           \/ /\ local[o] # "CLOSED" /\ o \in held
              /\ IF local[o] \in LocalTerminal \/ <<t, o>> \in outdated THEN Refuse(t)
                 ELSE /\ Publish(t, o, "CLOSED", TRUE)
                      /\ Settle(t, "CLOSED_PENDING_COSTS")
           \/ /\ local[o] # "CLOSED" /\ o \notin held
              /\ Publish(t, o, "CLOSED", TRUE)
              /\ Settle(t, "CLOSED_PENDING_COSTS")

Decide(t) ==
  /\ pc[t] = "decide"
  /\ Acknowledge(t, cur[t])
  /\ \/ DecideUnfilled(t, cur[t]) \/ DecideOpen(t, cur[t]) \/ DecideFlat(t, cur[t])
  /\ UNCHANGED <<brokerVars, jstate, receipt, obs, since, known, cache, exitReq>>
  /\ UNCHANGED <<todo, snapVars, subVars, boundVars>>

(* cancel_owned_child: reserved once per child, posted, never repeated. *)
CancelKids(t) ==
  /\ pc[t] = "kids"
  /\ LET o == cur[t] IN
     IF acts[o]["child-cancel"] = "none"
     THEN /\ acts' = [acts EXCEPT ![o]["child-cancel"] = "SENDING"]
          /\ net' = net \cup {<<"child-cancel", o>>}
          /\ Goto(t, "kidswait")
     ELSE Goto(t, "store") /\ UNCHANGED <<acts, net>>
  /\ UNCHANGED <<marketVars, accepted, jstate, receipt, failed, obs, since, known, cache, exitReq>>
  /\ UNCHANGED <<localVars, cur, op, todo, snapVars, outdated, life, verdict>>
  /\ UNCHANGED <<subVars, boundVars>>

(* The outcome of a posted action: acknowledged only if the broker said so. *)
Outcome(a, o) ==
  \E s \in {"ACKNOWLEDGED", "UNKNOWN"} :
    /\ s = "ACKNOWLEDGED" => <<a, o>> \in accepted
    /\ acts' = [acts EXCEPT ![o][a] = s]

KidsReply(t) ==
  /\ pc[t] = "kidswait"
  /\ Outcome("child-cancel", cur[t])
  /\ Goto(t, "store")
  /\ UNCHANGED <<brokerVars, jstate, receipt, failed, obs, since, known, cache, exitReq>>
  /\ UNCHANGED <<localVars, cur, op, todo, snapVars, outdated, life, verdict>>
  /\ UNCHANGED <<subVars, boundVars>>

(* Mutant: the stamp is written with the verdict it should have preceded. *)
EvidenceUnkept(t, o) == IF verdict[t] = "NO_FILL" THEN snapAge[t] ELSE Never

(* no_fill_verified_since_ms: the first snapshot that showed no fill. *)
EvidenceSince(t, o) ==
  IF verdict[t] \notin {"WAITING_NO_FILL_EVIDENCE", "NO_FILL"} THEN Never
  ELSE IF since[o] = Never THEN snapAge[t] ELSE since[o]

(* store_resolution: an unconditional UPDATE of the row. *)
Store(t) ==
  /\ pc[t] = "store"
  /\ LET o == cur[t] IN
     /\ jstate' = [jstate EXCEPT ![o] = verdict[t]]
     /\ receipt' = [receipt EXCEPT ![o] = TRUE]
     /\ failed' = [failed EXCEPT ![o] = FALSE]
     /\ obs' = [obs EXCEPT ![o] = [src |-> t, in |-> snapIn[t][o], out |-> SnapOut(t, o),
                                   ended |-> Ended(life[t].entry)]]
     /\ since' = [since EXCEPT ![o] = EvidenceSince(t, o)]
  /\ Goto(t, IF op[t] = "none" THEN "rows" ELSE "do")
  /\ cur' = IF op[t] = "none" THEN [cur EXCEPT ![t] = NoOrder] ELSE cur
  /\ life' = [life EXCEPT ![t] = NoLife]
  /\ verdict' = [verdict EXCEPT ![t] = "none"]
  /\ UNCHANGED <<brokerVars, known, cache, acts, exitReq, localVars, op, todo, snapVars>>
  /\ UNCHANGED <<outdated, subVars, boundVars>>

-----------------------------------------------------------------------------
(* reconcile_costs: net accounting of closed trades *)

(* No fill of a later order, or of nobody, is in the account. *)
CostsAttributable(o) ==
  /\ SnapFlat("rec")
  /\ \A p \in Orders \ ({o} \cup known[o]) : snapIn["rec"][p] = 0
LatestClosed(o) ==
  /\ jstate[o] = "CLOSED"
  /\ \A p \in Orders : jstate[p] \in {"CLOSED", "CLOSED_PENDING_COSTS"} => o \notin known[p]

Costs ==
  /\ pc["rec"] = "rows" /\ todo["rec"] = {}
  /\ \/ \E S \in SUBSET {o \in Orders : jstate[o] = "CLOSED_PENDING_COSTS" /\ CostsAttributable(o)} :
          /\ jstate' = [o \in Orders |-> IF o \in S THEN "CLOSED" ELSE jstate[o]]
          /\ UNCHANGED revisions
     \/ \E o \in Orders :
          /\ LatestClosed(o) /\ CostsAttributable(o) /\ revisions < MaxRevisions
          /\ jstate' = [jstate EXCEPT ![o] = "CLOSED_PENDING_COSTS"]
          /\ revisions' = revisions + 1
  /\ Goto("rec", "drain")
  /\ todo' = [todo EXCEPT !["rec"] = exitReq]
  /\ UNCHANGED <<brokerVars, receipt, failed, obs, since, known, cache, acts, exitReq, localVars>>
  /\ UNCHANGED <<cur, op, snapVars, outdated, life, verdict, subVars, crashes>>

-----------------------------------------------------------------------------
(* Exits *)

(* relay('exit') -> queue_exit *)
QueueExit(o) ==
  /\ "exit" \in Callers
  /\ jstate[o] \in Unresolved \ Terminal /\ o \notin exitReq
  /\ exitReq' = exitReq \cup {o}
  /\ UNCHANGED <<brokerVars, jstate, receipt, failed, obs, since, known, cache, acts>>
  /\ UNCHANGED <<localVars, threadVars, subVars, boundVars>>

(* drain_exits: a request of a finished order is dropped, any other order is *)
(* cancelled first and closed second.                                        *)
DrainExit ==
  /\ pc["rec"] = "drain"
  /\ \E o \in todo["rec"] :
       /\ todo' = [todo EXCEPT !["rec"] = @ \ {o}]
       /\ IF jstate[o] \in Terminal
          THEN exitReq' = exitReq \ {o} /\ UNCHANGED <<pc, cur, op>>
          ELSE /\ cur' = [cur EXCEPT !["rec"] = o] /\ op' = [op EXCEPT !["rec"] = "cancel"]
               /\ Goto("rec", "act") /\ UNCHANGED exitReq
  /\ UNCHANGED <<brokerVars, jstate, receipt, failed, obs, since, known, cache, acts>>
  /\ UNCHANGED <<localVars, snapVars, outdated, life, verdict, subVars, boundVars>>

(* action(): freshness, and a reconciliation unless the stored observation is *)
(* of this very snapshot.                                                     *)
Act(t) ==
  /\ pc[t] = "act"
  /\ IF ~receipt[cur[t]] \/ snapAge[t] > 0 THEN Abandon(t)
     ELSE /\ Goto(t, IF failed[cur[t]] \/ obs[cur[t]].src # t THEN "read" ELSE "do")
          /\ UNCHANGED <<cur, op, life, verdict>>
  /\ UNCHANGED <<brokerVars, journalVars, localVars, todo, snapVars, outdated>>
  /\ UNCHANGED <<subVars, boundVars>>

(* action() returned: a drained cancel goes on to the close. *)
Returned(t) ==
  IF t = "rec" /\ op[t] = "cancel"
  THEN /\ Goto(t, "act") /\ op' = [op EXCEPT ![t] = "close"]
       /\ UNCHANGED <<cur, life, verdict>>
  ELSE Abandon(t)

Reserve(t, a) ==
  /\ acts' = [acts EXCEPT ![cur[t]][a] = "SENDING"]
  /\ net' = net \cup {<<a, cur[t]>>}
  /\ Goto(t, "wait")
  /\ UNCHANGED <<cur, op, life, verdict>>

(* Mutant: the action id is not looked up before it is posted. *)
DoCancelAgain(t) ==
  /\ op[t] = "cancel"
  /\ IF obs[cur[t]].ended THEN Returned(t) /\ UNCHANGED <<acts, net>>
     ELSE Reserve(t, CancelId(t))

DoCancel(t) ==
  /\ op[t] = "cancel"
  /\ IF obs[cur[t]].ended \/ acts[cur[t]][CancelId(t)] # "none"
     THEN Returned(t) /\ UNCHANGED <<acts, net>>
     ELSE Reserve(t, CancelId(t))

(* Mutant: a position is closed while its entry still works. *)
CloseEarly(o) == obs[o].in > 0 /\ obs[o].in # obs[o].out

(* The stored observation shows an ended entry and a position left. *)
CloseDue(o) == obs[o].in > 0 /\ obs[o].ended /\ obs[o].in # obs[o].out
DoClose(t) ==
  /\ op[t] = "close"
  /\ LET o == cur[t] IN
     \/ ~CloseDue(o) /\ Returned(t) /\ UNCHANGED <<acts, net>>
     \/ /\ CloseDue(o)
        /\ IF (\E a \in CloseIds : acts[o][a] # "none") \/ local[o] \in LocalTerminal
           THEN Returned(t) /\ UNCHANGED <<acts, net>>
           ELSE Reserve(t, CloseId(t))

Do(t) ==
  /\ pc[t] = "do"
  /\ DoCancel(t) \/ DoClose(t)
  /\ UNCHANGED <<marketVars, accepted, jstate, receipt, failed, obs, since, known, cache, exitReq>>
  /\ UNCHANGED <<localVars, todo, snapVars, outdated, subVars, boundVars>>

(* Mutant: the exit manager writes its reply over whatever the row has become. *)
ActReplyBlind(t) ==
  /\ pc[t] = "wait"
  /\ Outcome(IF op[t] = "cancel" THEN CancelId(t) ELSE CloseId(t), cur[t])
  /\ Returned(t)
  /\ local' = IF t = "mgr" /\ op[t] = "close" THEN [local EXCEPT ![cur[t]] = "EXITING"] ELSE local
  /\ UNCHANGED <<brokerVars, jstate, receipt, failed, obs, since, known, cache, exitReq>>
  /\ UNCHANGED <<held, todo, snapVars, outdated, subVars, boundVars>>

(* The exit manager notes the reply on an EXITING row only, which stays so. *)
ActReply(t) ==
  /\ pc[t] = "wait"
  /\ Outcome(IF op[t] = "cancel" THEN CancelId(t) ELSE CloseId(t), cur[t])
  /\ Returned(t)
  /\ UNCHANGED <<brokerVars, jstate, receipt, failed, obs, since, known, cache, exitReq>>
  /\ UNCHANGED <<localVars, todo, snapVars, outdated, subVars, boundVars>>

(* The thread ends its pass or its call and forgets what it read. *)
Forget(T) ==
  /\ pc' = [t \in Threads |-> IF t \in T THEN "idle" ELSE pc[t]]
  /\ cur' = [t \in Threads |-> IF t \in T THEN NoOrder ELSE cur[t]]
  /\ op' = [t \in Threads |-> IF t \in T THEN "none" ELSE op[t]]
  /\ todo' = [t \in Threads |-> IF t \in T THEN {} ELSE todo[t]]
  /\ snapPos' = [t \in Threads |-> IF t \in T THEN NoFills ELSE snapPos[t]]
  /\ snapIn' = [t \in Threads |-> IF t \in T THEN NoFills ELSE snapIn[t]]
  /\ snapOut' = [t \in Threads |-> IF t \in T THEN NoFills ELSE snapOut[t]]
  /\ snapAge' = [t \in Threads |-> IF t \in T THEN 0 ELSE snapAge[t]]
  /\ outdated' = {x \in outdated : x[1] \notin T}
  /\ life' = [t \in Threads |-> IF t \in T THEN NoLife ELSE life[t]]
  /\ verdict' = [t \in Threads |-> IF t \in T THEN "none" ELSE verdict[t]]

Release(t) ==
  /\ pc[t] = "done" \/ (pc[t] = "drain" /\ todo[t] = {})
  /\ Forget({t})
  /\ UNCHANGED <<brokerVars, journalVars, localVars, subVars, boundVars>>

(* The process dies: only the journal and the V3 book survive. *)
Crash ==
  /\ crashes < MaxCrashes
  /\ crashes' = crashes + 1
  /\ Forget(Threads)
  /\ spc' = "idle" /\ scur' = NoOrder
  /\ UNCHANGED <<brokerVars, journalVars, localVars, revisions>>

-----------------------------------------------------------------------------
PollStartRec == PollStart("rec", NoOrder, "none")
PollStartMgr == \E o \in Orders, what \in Callers \ {"exit"} : PollStart("mgr", o, what)

ThreadStep(t) ==
  \/ PollEnd(t) \/ ReadLife(t) \/ ReadFails(t) \/ Decide(t) \/ CancelKids(t) \/ KidsReply(t)
  \/ Store(t) \/ Act(t) \/ Do(t) \/ ActReply(t) \/ Release(t)
RecStep == PollStartRec \/ NextRow \/ Costs \/ DrainExit \/ ThreadStep("rec")

Next ==
  \/ Broker \/ Dispatcher
  \/ RecStep \/ PollStartMgr \/ ThreadStep("mgr")
  \/ \E o \in Orders : QueueExit(o)
  \/ Crash

Spec == Init /\ [][Next]_vars

(* The account poll and its reconciliation pass recur every 15 s and a read  *)
(* that is tried again and again succeeds; a POST is delivered or lost; the  *)
(* broker ends entries, closes protected positions and shows its fills.      *)
Fairness ==
  /\ WF_vars(RecStep) /\ SF_vars(ReadLife("rec"))
  /\ WF_vars(SubmitReply) /\ WF_vars(SubmitRecord)
  /\ WF_vars(Tick)
  /\ \A o \in Orders :
       /\ WF_vars(DeliverEntry(o) \/ Lose(<<"entry", o>>))
       /\ WF_vars(Fill(o) \/ EndEntry(o))
       /\ WF_vars(BracketExit(o)) /\ WF_vars(KidsLapse(o)) /\ WF_vars(Show(o))
FairSpec == Spec /\ Fairness

-----------------------------------------------------------------------------
TypeBroker ==
  /\ entry \in [Orders -> EntryStates] /\ kids \in [Orders -> KidStates]
  /\ filled \in [Orders -> 0..Qty] /\ exited \in [Orders -> 0..Qty]
  /\ exitBy \in [Orders -> {"none", "kids", "foreign"} \cup CloseIds]
  /\ shownIn \in [Orders -> 0..Qty] /\ shownOut \in [Orders -> 0..Qty]
  /\ \A o \in Orders : exited[o] <= filled[o]
  /\ net \subseteq MsgKinds \X Orders /\ accepted \subseteq MsgKinds \X Orders

Observations == [src : Threads \cup {"none"}, in : 0..Qty, out : 0..Qty, ended : BOOLEAN]
TypeJournal ==
  /\ jstate \in [Orders -> JStates]
  /\ receipt \in [Orders -> BOOLEAN] /\ failed \in [Orders -> BOOLEAN]
  /\ obs \in [Orders -> Observations]
  /\ since \in [Orders -> SinceAges \cup {Never}]
  /\ known \in [Orders -> SUBSET Orders]
  /\ cache \in [Orders -> {"none", "fill", "no fill"}]
  /\ acts \in [Orders -> [ActionIds -> ActStates]]
  /\ exitReq \subseteq Orders

TypeBook == local \in [Orders -> LocalStates] /\ held \subseteq Orders

Places == {"idle", "polling", "rows", "read", "decide", "kids", "kidswait", "store",
           "drain", "act", "do", "wait", "done"}
Lifecycles == [entry : EntryStates, kids : KidStates, rep : BOOLEAN]
HasRow(t) == /\ pc[t] \notin {"idle", "rows", "drain", "done"}
             /\ ~(t = "rec" /\ pc[t] = "polling")
TypeThreads ==
  /\ pc \in [Threads -> Places]
  /\ cur \in [Threads -> Orders \cup {NoOrder}]
  /\ op \in [Threads -> {"none", "cancel", "close"}]
  /\ todo \in [Threads -> SUBSET Orders]
  /\ snapPos \in [Threads -> [Orders -> 0..Qty]]
  /\ snapIn \in [Threads -> [Orders -> 0..Qty]]
  /\ snapOut \in [Threads -> [Orders -> 0..Qty]]
  /\ snapAge \in [Threads -> Ages]
  /\ outdated \subseteq Threads \X Orders
  /\ life \in [Threads -> Lifecycles]
  /\ verdict \in [Threads -> JStates]
  /\ \A t \in Threads : HasRow(t) => cur[t] \in Orders

TypeDispatch ==
  /\ spc # "idle" => scur \in Orders
  /\ spc \in {"idle", "prepared", "checked", "posted", "replied"}
  /\ scur \in Orders \cup {NoOrder}
  /\ crashes \in 0..MaxCrashes /\ revisions \in 0..MaxRevisions

TypeOK == TypeBroker /\ TypeJournal /\ TypeBook /\ TypeThreads /\ TypeDispatch

(* At most one order can hold or create exposure on the account at a time,   *)
(* counting an entry POST still on the wire: an unresolved earlier order      *)
(* keeps every later one out, across crashes, lost replies and late fills.    *)
SingleExposure ==
  \A o, p \in Orders : Exposed(o) /\ Exposed(p) => o = p

(* "Persist BEFORE external entry. A crash cannot leave an unowned fill."      *)
(* (ab_v3_live.prepare): whatever can move the account has an unfinished row   *)
(* in the native journal and an owning row in the V3 book.                     *)
NoUnownedFill ==
  \A o \in Orders : Exposed(o) => jstate[o] \in Unresolved \ Terminal /\ local[o] \in Owning

(* The journal declares an order NO_FILL only if it has no fill and can get   *)
(* none any more, however late the broker shows its fills.                    *)
NoFillIsFinal ==
  \A o \in Orders : jstate[o] = "NO_FILL" => ~Exposed(o) /\ filled[o] = 0

(* A position close still on the wire can only meet the position of the order *)
(* it was meant for.                                                          *)
CloseHitsOwnPosition ==
  \A a \in CloseIds, o, p \in Orders : <<a, o>> \in net /\ Exposed(p) => o = p

(* A V3 row is CLOSED only when the broker position is really gone: what          *)
(* NoUnownedFill says of a finished trade.                                    *)
ClosedIsFlat ==
  \A o \in Orders : local[o] = "CLOSED" => ~Exposed(o)

(* "Only its exact children may be cancelled, never a live bracket": a child  *)
(* cancel on the wire never belongs to an order that holds a position.        *)
NeverCancelsLiveBracket ==
  \A o \in Orders : <<"child-cancel", o>> \in net => Position(o) = 0

(* Every mutation is posted at most once: an executed POST is never on the    *)
(* wire again.                                                                *)
NeverResent == net \cap accepted = {}

(* The V3 book's outcome of an order is final: a row that became CLOSED stays *)
(* CLOSED and a NO_FILL never turns into a trade, whatever older snapshots     *)
(* other threads still hold (broker_event's order and state checks).           *)
OutcomeIsFinal ==
  [][\A o \in Orders : local[o] \in LocalTerminal => local'[o] = local[o]]_vars

(* An order the broker took with its bracket is resolved in the end (its net   *)
(* accounting may still be pending), crash or not, unless a close order whose  *)
(* reply was lost closed it: its fills belong to nobody the journal knows.     *)
(* A queued exit is served and forgotten in the end, with the same exception.  *)
Received(o) == entry[o] # "none" /\ kids[o] # "none"
EventuallyResolved ==
  \A o \in Orders :
    /\ Received(o) ~> (jstate[o] \in Terminal \/ ~OwnedExit(o))
    /\ (Received(o) /\ o \in exitReq) ~> (o \notin exitReq \/ ~OwnedExit(o))

(* What the journal implements: see ExclusiveEntry.  An order is live from its *)
(* durable reservation until the broker can neither fill it nor hold its       *)
(* position; its books are settled when the journal says NO_FILL or CLOSED.    *)
TradeOf(o) == IF jstate[o] = "none" THEN "new"
              ELSE IF Exposed(o) THEN "live" ELSE "over"
Exclusive == INSTANCE ExclusiveEntry WITH
               trade <- [o \in Orders |-> TradeOf(o)],
               books <- {o \in Orders : jstate[o] \in Resolved}
OneTradeAtATime == Exclusive!Spec
=============================================================================
