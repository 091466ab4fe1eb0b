-------------------------- MODULE GuardState_proof --------------------------
(***************************************************************************)
(* Proofs about GuardState: its type invariant, and that no interleaving   *)
(* of unlocked load/save pairs, in any number of setups, days and          *)
(* restarts, makes the ramp counter run ahead of the recorded orders.      *)
(***************************************************************************)
EXTENDS GuardState, TLAPS

(* What an update writes, and where a step may go, have the right type. *)
LEMMA UpdateType ==
  ASSUME TypeOK, NEW t \in Threads, NEW op, NEW new \in States, Update(t, op, new)
  PROVE  /\ file' \in States
         /\ book' \subseteq Rows
         /\ lock' \in Threads \cup {Free}
         /\ loaded' \in [Threads -> BOOLEAN]
         /\ copy' \in [Threads -> States]
         /\ rows' \in [Threads -> SUBSET Rows]
         /\ cur' \in [Threads -> Setups \cup {NoSetup}]
         /\ size' \in [Threads -> {"one", "full"}]
         /\ offered' \subseteq Setups
         /\ trade' \in [Setups -> TradeStates]
         /\ expired' \subseteq Setups
         /\ day' \in Days
         /\ crashes' \in 0..MaxCrashes
         /\ flattened' \subseteq Days /\ cut' \subseteq Days
         /\ raced' \in BOOLEAN /\ letGo' \subseteq Setups
PROOF
<1>1. Fresh \in States
  BY GuardStateAssumption DEF Fresh, States, Days, NoDay
<1>2. raced' \in BOOLEAN /\ letGo' \subseteq Setups
  BY DEF TypeOK, Update, Undoes, Live
<1> QED
  BY <1>1, <1>2 DEF TypeOK, Update, worldVars

(* Every place a step goes to is one of Places. *)
LEMMA GoToType ==
  ASSUME TypeOK, NEW t \in Threads, NEW place \in Places, GoTo(t, place)
  PROVE  at' \in [Threads -> Places]
  BY DEF TypeOK, GoTo

(* A refusal of guard_ok or begin_sibling_batch leads to note(). *)
LEMMA RefuseType ==
  ASSUME TypeOK, NEW a \in Threads, Refuse(a)
  PROVE  /\ at' \in [Threads -> Places]
         /\ decision' \in [Threads -> {"sent", "blocked"}]
         /\ left' \in [Threads -> Int]
PROOF
<1>1. "note" \in Places
  BY DEF Places
<1> QED
  BY <1>1, GoToType DEF TypeOK, Refuse

(* Setting the number of rows still to be noted. *)
LEMMA SetLeftType ==
  ASSUME TypeOK, NEW a, NEW n \in Int, left' = [left EXCEPT ![a] = n]
  PROVE  left' \in [Threads -> Int]
  BY DEF TypeOK

(* The end of a call of note(). *)
LEMMA NotedType ==
  ASSUME TypeOK, NEW a \in Threads, Noted(a)
  PROVE  at' \in [Threads -> Places] /\ left' \in [Threads -> Int]
PROOF
<1>1. {"note", "finish", "idle"} \subseteq Places
  BY DEF Places, Updates, Locked
<1>2. left' \in [Threads -> Int]
  BY DEF TypeOK, Noted
<1> QED
  BY <1>1, <1>2 DEF TypeOK, Noted, GoTo

-----------------------------------------------------------------------------
(* A dispatcher at work carries a setup: with it TypeOK is inductive. *)
Carries == \A a \in Dispatchers : at[a] # "idle" => cur[a] \in Setups

(* Only Detect, Start and a restart put an idle thread to work or change what it carries. *)
LEMMA CarriesKept ==
  ASSUME TypeOK, Carries, cur' = cur,
         NEW t \in Threads, NEW p, at' = [at EXCEPT ![t] = p], at[t] # "idle" \/ t \notin Dispatchers
  PROVE  Carries'
  BY DEF Carries, TypeOK

(* No step of any thread leaves a dispatcher at work without a setup. *)
LEMMA CarriesInvariant ==
  ASSUME TypeOK, Carries, [Next]_vars
  PROVE  Carries'
PROOF
<1>1. ASSUME NEW a \in Dispatchers, NEW g \in Setups, Detect(a, g) PROVE Carries'
  BY <1>1 DEF Carries, TypeOK, Detect, GoTo, Threads
<1>2. ASSUME NEW t \in Threads, NEW op, t \notin Dispatchers, Start(t, op) PROVE Carries'
  BY <1>2, CarriesKept DEF Start, GoTo
<1>3. CASE Crash
  BY <1>3 DEF Carries, Crash, Threads
<1>4. CASE cur' = cur /\ at' = at
  BY <1>4 DEF Carries
<1>5. ASSUME NEW t \in Threads, NEW p, at' = [at EXCEPT ![t] = p], cur' = cur, at[t] # "idle" PROVE Carries'
  BY <1>5, CarriesKept
<1>6. ASSUME NEW a \in Dispatchers, Dispatch(a) PROVE Carries'
  <2>1. a \in Threads
    BY DEF Threads
  <2>2. CASE \E reply \in Replies : Send(a, reply)
    BY <2>1, <2>2, <1>5 DEF Send, GoTo
  <2>3. CASE NoteLoad(a)
    BY <2>3, <1>4 DEF NoteLoad
  <2>4. CASE RollbackSiblingBatch(a)
    BY <2>1, <2>4, <1>5 DEF RollbackSiblingBatch, GoTo
  <2>5. CASE BeginSiblingBatch(a)
    BY <2>1, <2>5, <1>5 DEF BeginSiblingBatch, Update, GoTo, Refuse
  <2>6. CASE TouchSiblingBatch(a) \/ RollbackUncertain(a) \/ FinishSiblingBatch(a)
    BY <2>1, <2>6, <1>5 DEF TouchSiblingBatch, RollbackUncertain, FinishSiblingBatch, Update, GoTo
  <2>7. CASE NoteSave(a) \/ CountSent(a)
    BY <2>1, <2>7, <1>5 DEF NoteSave, CountSent, Update, GoTo, Noted
  <2> QED
    BY <1>6, <2>2, <2>3, <2>4, <2>5, <2>6, <2>7 DEF Dispatch
<1>7. ASSUME NEW a \in Dispatchers, GuardDecision(a) PROVE Carries'
  <2>1. a \in Threads
    BY DEF Threads
  <2>2. CASE RampQty(a)
    BY <2>1, <2>2, <1>5 DEF RampQty, GoTo
  <2>3. CASE CheckKill(a)
    BY <2>1, <2>3, <1>5 DEF CheckKill, Refuse, GoTo
  <2>4. CASE PendingGroup(a)
    BY <2>1, <2>4, <1>5 DEF PendingGroup, Refuse, GoTo
  <2>5. CASE DayStats(a)
    BY <2>1, <2>5, <1>5 DEF DayStats, Refuse, GoTo
  <2>6. ASSUME NEW kind \in {"day", "hard"}, Latch(a, kind) PROVE Carries'
    <3>1. LatchOp[kind] # "idle"
      <4>1. CASE kind = "day"
        BY <4>1 DEF LatchOp
      <4>2. CASE kind = "hard"
        BY <4>2 DEF LatchOp
      <4> QED
        BY <4>1, <4>2
    <3>2. at[a] = LatchOp[kind] /\ cur' = cur
      BY <2>6 DEF Latch, Update
    <3>3. at' = [at EXCEPT ![a] = "flatten"]
      BY <2>6 DEF Latch, GoTo
    <3> QED
      BY <2>1, <3>1, <3>2, <3>3, <1>5
  <2> QED
    BY <1>7, <1>1, <2>2, <2>3, <2>4, <2>5, <2>6 DEF GuardDecision
<1>8. CASE Service
  <2>1. ASSUME NEW t \in Threads, Load(t) PROVE Carries'
    BY <2>1, <1>4 DEF Load
  <2>2. ASSUME NEW t \in Threads, Beat(t) \/ Halt(t) \/ Arm(t) PROVE Carries'
    BY <2>2, <1>5 DEF Beat, Halt, Arm, Update, GoTo
  <2>3. ASSUME NEW t \in Threads, EodFlattenCheck(t) \/ FlattenAll(t) PROVE Carries'
    BY <2>3, <1>5 DEF EodFlattenCheck, FlattenAll, Update, GoTo
  <2>4. "hb" \in Threads \ Dispatchers /\ "op" \in Threads \ Dispatchers
    BY GuardStateAssumption DEF Threads
  <2>5. CASE Heartbeat \/ Request
    BY <2>4, <2>5, <1>2 DEF Heartbeat, Request
  <2> QED
    BY <1>8, <2>1, <2>2, <2>3, <2>5 DEF Service
<1>9. CASE World
  BY <1>9, <1>3, <1>4 DEF World, Resolve, Expire, NewDay, localVars
<1>10. CASE UNCHANGED vars
  BY <1>10, <1>4 DEF vars, localVars
<1> QED
  BY <1>6, <1>7, <1>8, <1>9, <1>10 DEF Next

-----------------------------------------------------------------------------
(* Type correctness, one step per action. *)

(* The heartbeat, the operator and the loads keep the types. *)
LEMMA ServiceType ==
  ASSUME TypeOK, Service
  PROVE  TypeOK'
PROOF
<1>1. ASSUME NEW t \in Threads, NEW op \in Chores \cup Requests, Start(t, op) PROVE TypeOK'
  <2>1. op \in Places
    BY GuardStateAssumption DEF Places, Updates
  <2> QED
    BY <1>1, <2>1, GoToType DEF TypeOK, Start, worldVars, history
<1>2. ASSUME NEW t \in Threads, Load(t) PROVE TypeOK'
  BY <1>2 DEF TypeOK, Load, worldVars, history
<1>3. ASSUME NEW t \in Threads, Beat(t) PROVE TypeOK'
  <2>1. {"idle", "check"} \subseteq Places /\ copy[t] \in States
    BY DEF TypeOK, Places
  <2>2. at' \in [Threads -> Places]
    BY <1>3, <2>1, GoToType DEF Beat
  <2> QED
    BY <1>3, <2>1, <2>2, UpdateType DEF TypeOK, Beat
<1>4. ASSUME NEW t \in Threads, Halt(t) PROVE TypeOK'
  <2>1. "flatten" \in Places /\ [copy[t] EXCEPT !.kill = "hard", !.killDay = day] \in States
    BY DEF TypeOK, Places, States
  <2>2. at' \in [Threads -> Places]
    BY <1>4, <2>1, GoToType DEF Halt
  <2> QED
    BY <1>4, <2>1, <2>2, UpdateType DEF TypeOK, Halt
<1>5. ASSUME NEW t \in Threads, Arm(t) PROVE TypeOK'
  <2>1. "idle" \in Places /\ [copy[t] EXCEPT !.kill = "off"] \in States
    BY DEF TypeOK, Places, States
  <2>2. at' \in [Threads -> Places]
    BY <1>5, <2>1, GoToType DEF Arm
  <2> QED
    BY <1>5, <2>1, <2>2, UpdateType DEF TypeOK, Arm
<1>6. ASSUME NEW t \in Threads, EodFlattenCheck(t) PROVE TypeOK'
  <2>1. {"idle", "flatten"} \subseteq Places /\ file \in States
        /\ [copy[t] EXCEPT !.eod = day] \in States
    BY DEF TypeOK, Places, States
  <2>2. at' \in [Threads -> Places]
    BY <1>6, <2>1, GoToType DEF EodFlattenCheck
  <2>3. PICK new \in States : Update(t, "eod", new)
    BY <1>6, <2>1 DEF EodFlattenCheck
  <2> QED
    BY <1>6, <2>2, <2>3, UpdateType DEF TypeOK, EodFlattenCheck
<1>7. ASSUME NEW t \in Threads, FlattenAll(t) PROVE TypeOK'
  <2>1. {"note", "idle"} \subseteq Places
    BY DEF Places
  <2>2. at' \in [Threads -> Places]
    BY <1>7, <2>1, GoToType DEF FlattenAll
  <2>3. trade' \in [Setups -> TradeStates]
    BY <1>7 DEF TypeOK, FlattenAll, TradeStates
  <2>4. flattened' \subseteq Days
    BY <1>7 DEF TypeOK, FlattenAll
  <2> QED
    BY <1>7, <2>2, <2>3, <2>4 DEF TypeOK, FlattenAll
<1> QED
  BY <1>1, <1>2, <1>3, <1>4, <1>5, <1>6, <1>7 DEF Service, Heartbeat, Request, Threads

(* guard_ok, from the ramp to the latches, keeps the types. *)
LEMMA DecisionType ==
  ASSUME TypeOK, NEW a \in Dispatchers, GuardDecision(a)
  PROVE  TypeOK'
PROOF
<1>0. a \in Threads
  BY DEF Threads
<1>1. ASSUME NEW g \in Setups, Detect(a, g) PROVE TypeOK'
  <2>1. at' \in [Threads -> Places]
    BY <1>0, <1>1, GoToType DEF Detect, Places
  <2> QED
    BY <1>0, <1>1, <2>1 DEF TypeOK, Detect, history
<1>2. CASE RampQty(a)
  <2>1. at' \in [Threads -> Places]
    BY <1>0, <1>2, GoToType DEF RampQty, Places, Updates
  <2> QED
    BY <1>0, <1>2, <2>1 DEF TypeOK, RampQty, worldVars, history
<1>3. CASE CheckKill(a)
  <2>1. /\ at' \in [Threads -> Places]
        /\ decision' \in [Threads -> {"sent", "blocked"}]
        /\ left' \in [Threads -> Int]
    <3>1. CASE Refuse(a)
      BY <1>0, <3>1, RefuseType
    <3>2. CASE GoTo(a, "group") /\ UNCHANGED <<decision, left>>
      BY <1>0, <3>2, GoToType DEF TypeOK, Places
    <3> QED
      BY <1>3, <3>1, <3>2 DEF CheckKill
  <2> QED
    BY <1>0, <1>3, <2>1 DEF TypeOK, CheckKill, worldVars, history
<1>4. CASE PendingGroup(a)
  <2>1. /\ at' \in [Threads -> Places]
        /\ decision' \in [Threads -> {"sent", "blocked"}]
        /\ left' \in [Threads -> Int]
    <3>1. CASE Refuse(a)
      BY <1>0, <3>1, RefuseType
    <3>2. CASE GoTo(a, "stats") /\ UNCHANGED <<decision, left>>
      BY <1>0, <3>2, GoToType DEF TypeOK, Places
    <3> QED
      BY <1>4, <3>1, <3>2 DEF PendingGroup
  <2>2. Fresh \in States
    BY GuardStateAssumption DEF Fresh, States, Days, NoDay
  <2>3. file' \in States
    <3>1. file \in States /\ copy[a] \in States
      BY <1>0 DEF TypeOK
    <3>2. [copy[a] EXCEPT !.group = NoSetup] \in States
      BY <3>1 DEF States
    <3>3. file' \in {file, [copy[a] EXCEPT !.group = NoSetup]}
      BY <1>4 DEF PendingGroup
    <3> QED
      BY <3>1, <3>2, <3>3
  <2> QED
    BY <1>0, <1>4, <2>1, <2>2, <2>3 DEF TypeOK, PendingGroup, worldVars, history
<1>5. CASE DayStats(a)
  <2>1. /\ at' \in [Threads -> Places]
        /\ decision' \in [Threads -> {"sent", "blocked"}]
        /\ left' \in [Threads -> Int]
    <3>1. CASE Refuse(a)
      BY <1>0, <3>1, RefuseType
    <3>2. ASSUME NEW p \in {"latch day", "begin"}, GoTo(a, p), UNCHANGED <<decision, left>>
          PROVE  <2>1!1 /\ <2>1!2 /\ <2>1!3
      BY <1>0, <3>2, GoToType DEF TypeOK, Places, Updates, Locked
    <3> QED
      BY <1>5, <3>1, <3>2 DEF DayStats
  <2> QED
    BY <1>5, <2>1 DEF TypeOK, DayStats, worldVars, history
<1>6. ASSUME NEW kind \in {"day", "hard"}, Latch(a, kind) PROVE TypeOK'
  <2>1. "flatten" \in Places /\ [copy[a] EXCEPT !.kill = kind, !.killDay = day] \in States
    BY <1>0 DEF TypeOK, Places, States
  <2>2. at' \in [Threads -> Places]
    BY <1>0, <1>6, <2>1, GoToType DEF Latch
  <2>3. \E op : Update(a, op, [copy[a] EXCEPT !.kill = kind, !.killDay = day])
    BY <1>6 DEF Latch
  <2>4. PICK op : Update(a, op, [copy[a] EXCEPT !.kill = kind, !.killDay = day])
    BY <2>3
  <2>5. decision' \in [Threads -> {"sent", "blocked"}]
    BY <1>6 DEF TypeOK, Latch
  <2>6. left' \in [Threads -> Int]
    <3>1. left' = [left EXCEPT ![a] = 1]
      BY <1>6 DEF Latch
    <3>2. PICK n \in Int : n = 1
      OBVIOUS
    <3> QED
      BY <3>1, <3>2, SetLeftType, Zenon
  <2>7. counted' = counted
    BY <1>6 DEF Latch
  <2> QED
    BY <1>0, <2>1, <2>2, <2>4, <2>5, <2>6, <2>7, UpdateType DEF TypeOK
<1> QED
  BY <1>1, <1>2, <1>3, <1>4, <1>5, <1>6 DEF GuardDecision

(* The reservation, the relay and note() keep the types. *)
LEMMA DispatchType ==
  ASSUME TypeOK, Carries, NEW a \in Dispatchers, Dispatch(a)
  PROVE  TypeOK'
PROOF
<1>0. a \in Threads /\ cur[a] \in Setups \cup {NoSetup} /\ copy[a] \in States /\ file \in States
  BY DEF Threads, TypeOK
<1>1. CASE BeginSiblingBatch(a)
  <2>1. [copy[a] EXCEPT !.group = cur[a]] \in States
    BY <1>0 DEF States
  <2>2. PICK new \in States : Update(a, "begin", new)
    BY <1>0, <1>1, <2>1 DEF BeginSiblingBatch
  <2>3. /\ at' \in [Threads -> Places]
        /\ decision' \in [Threads -> {"sent", "blocked"}]
        /\ left' \in [Threads -> Int]
    <3>1. CASE Refuse(a)
      BY <1>0, <3>1, RefuseType
    <3>2. CASE GoTo(a, "send") /\ UNCHANGED <<decision, left>>
      BY <1>0, <3>2, GoToType DEF TypeOK, Places
    <3> QED
      BY <1>1, <3>1, <3>2 DEF BeginSiblingBatch
  <2> QED
    BY <1>0, <1>1, <2>2, <2>3, UpdateType DEF TypeOK, BeginSiblingBatch
<1>2. ASSUME NEW reply \in Replies, Send(a, reply) PROVE TypeOK'
  <2>1. at' \in [Threads -> Places]
    BY <1>0, <1>2, GoToType DEF Send, Places, Updates, Locked
  <2>2. trade' \in [Setups -> TradeStates]
    BY <1>2 DEF TypeOK, Send, TradeStates
  <2>3. decision' \in [Threads -> {"sent", "blocked"}]
    BY <1>2 DEF TypeOK, Send
  <2>4. left' \in [Threads -> Int]
    <3>1. Siblings(a) \in Int
      BY DEF Siblings
    <3>2. left' = [left EXCEPT ![a] = IF reply = "accepted" THEN Siblings(a) ELSE 1]
      BY <1>2 DEF Send
    <3>3. PICK n \in Int : n = IF reply = "accepted" THEN Siblings(a) ELSE 1
      BY <3>1
    <3> QED
      BY <3>2, <3>3, SetLeftType, Zenon
  <2>5. letGo' \subseteq Setups
    <3>1. cur[a] \in Setups
      BY <1>2 DEF Carries, Send
    <3> QED
      BY <1>2, <3>1 DEF TypeOK, Send
  <2> QED
    BY <1>0, <1>2, <2>1, <2>2, <2>3, <2>4, <2>5 DEF TypeOK, Send
<1>3. CASE TouchSiblingBatch(a)
  <2>1. PICK new \in States : Update(a, "touch", new)
    BY <1>0, <1>3 DEF TouchSiblingBatch
  <2>2. at' \in [Threads -> Places]
    BY <1>0, <1>3, GoToType DEF TouchSiblingBatch, Places
  <2> QED
    BY <1>0, <1>3, <2>1, <2>2, UpdateType DEF TypeOK, TouchSiblingBatch
<1>4. CASE RollbackSiblingBatch(a)
  <2>1. at' \in [Threads -> Places]
    BY <1>0, <1>4 DEF TypeOK, RollbackSiblingBatch, GoTo, Places, Updates, Locked
  <2>2. trade' \in [Setups -> TradeStates]
    BY <1>4 DEF TypeOK, RollbackSiblingBatch, TradeStates
  <2> QED
    BY <1>0, <1>4, <2>1, <2>2 DEF TypeOK, RollbackSiblingBatch, history
<1>5. CASE RollbackUncertain(a)
  <2>1. at' \in [Threads -> Places]
    BY <1>0, <1>5, GoToType DEF RollbackUncertain, Places, Updates
  <2>2. PICK new \in States : Update(a, "uncertain", new)
    BY <1>0, <1>5 DEF RollbackUncertain
  <2> QED
    BY <1>0, <1>5, <2>1, <2>2, UpdateType DEF TypeOK, RollbackUncertain
<1>6. CASE FinishSiblingBatch(a)
  <2>1. [copy[a] EXCEPT !.group = NoSetup] \in States
    BY <1>0 DEF States
  <2>2. PICK new \in States : Update(a, "finish", new)
    BY <1>0, <1>6, <2>1 DEF FinishSiblingBatch
  <2>3. at' \in [Threads -> Places]
    BY <1>0, <1>6, GoToType DEF FinishSiblingBatch, Places
  <2> QED
    BY <1>0, <1>6, <2>2, <2>3, UpdateType DEF TypeOK, FinishSiblingBatch
<1>7. CASE NoteLoad(a)
  BY <1>0, <1>7 DEF TypeOK, NoteLoad, worldVars, history
<1>8. CASE NoteSave(a)
  <2>1. at' \in [Threads -> Places] /\ left' \in [Threads -> Int]
    <3>1. CASE GoTo(a, "count") /\ UNCHANGED left
      BY <1>0, <3>1, GoToType DEF TypeOK, Places, Updates
    <3>2. CASE Noted(a)
      BY <1>0, <3>2, NotedType
    <3> QED
      BY <1>8, <3>1, <3>2 DEF NoteSave
  <2>2. loaded' \in [Threads -> BOOLEAN] /\ rows' \in [Threads -> SUBSET Rows] /\ counted' \in Nat
    BY <1>0, <1>8 DEF TypeOK, NoteSave
  <2>3. book' \subseteq Rows
    <3>1. CASE decision[a] = "sent"
      <4>1. <<cur[a], day>> \in Rows
        BY <1>8 DEF TypeOK, Carries, NoteSave, Rows
      <4> QED
        BY <1>0, <1>8, <3>1, <4>1 DEF TypeOK, NoteSave
    <3>2. CASE decision[a] # "sent"
      BY <1>0, <1>8, <3>2 DEF TypeOK, NoteSave
    <3> QED
      BY <3>1, <3>2
  <2> QED
    BY <1>0, <1>8, <2>1, <2>2, <2>3 DEF TypeOK, NoteSave, worldVars
<1>9. CASE CountSent(a)
  <2>1. [copy[a] EXCEPT !.sent = @ + 1] \in States
    BY <1>0 DEF States
  <2>2. at' \in [Threads -> Places] /\ left' \in [Threads -> Int]
    BY <1>0, <1>9, NotedType DEF CountSent
  <2> QED
    BY <1>0, <1>9, <2>1, <2>2, UpdateType DEF TypeOK, CountSent
<1> QED
  BY <1>1, <1>2, <1>3, <1>4, <1>5, <1>6, <1>7, <1>8, <1>9 DEF Dispatch

(* The market, the calendar and a restart keep the types. *)
LEMMA WorldType ==
  ASSUME TypeOK, World
  PROVE  TypeOK'
PROOF
<1>1. ASSUME NEW g \in Setups, Resolve(g) PROVE TypeOK'
  <2>1. trade' \in [Setups -> TradeStates]
    BY <1>1 DEF TypeOK, Resolve, TradeStates
  <2> QED
    BY <1>1, <2>1 DEF TypeOK, Resolve, localVars, history
<1>2. ASSUME NEW g \in Setups, Expire(g) PROVE TypeOK'
  BY <1>2 DEF TypeOK, Expire, localVars, history
<1>3. CASE NewDay
  <2>1. day' \in Days
    BY <1>3, GuardStateAssumption DEF TypeOK, NewDay, Days
  <2> QED
    BY <1>3, <2>1 DEF TypeOK, NewDay, localVars, history
<1>4. CASE Crash
  <2>1. Fresh \in States /\ "idle" \in Places
    BY GuardStateAssumption DEF Fresh, States, Days, NoDay, Places
  <2>2. crashes' \in 0..MaxCrashes
    BY <1>4, GuardStateAssumption DEF TypeOK, Crash
  <2> QED
    BY <1>4, <2>1, <2>2 DEF TypeOK, Crash, history
<1> QED
  BY <1>1, <1>2, <1>3, <1>4 DEF World

(* A stuttering step keeps the types. *)
LEMMA StutterType ==
  ASSUME TypeOK, UNCHANGED vars
  PROVE  TypeOK'
PROOF
<1>1. /\ file' = file /\ book' = book /\ lock' = lock
      /\ at' = at /\ loaded' = loaded /\ copy' = copy /\ rows' = rows
      /\ cur' = cur /\ size' = size /\ decision' = decision /\ left' = left
      /\ offered' = offered /\ trade' = trade /\ expired' = expired
      /\ day' = day /\ crashes' = crashes
      /\ counted' = counted /\ flattened' = flattened
      /\ cut' = cut /\ raced' = raced /\ letGo' = letGo
  BY DEF vars, localVars, worldVars, history
<1> QED
  BY <1>1 DEF TypeOK

(* The service starts with well-typed files and idle threads. *)
LEMMA InitType == Init => TypeOK /\ Carries
PROOF
<1>1. Fresh \in States /\ "idle" \in Places /\ 0 \in Days
  BY GuardStateAssumption DEF Fresh, States, Days, NoDay, Places
<1>2. Init => Carries
  BY DEF Init, Carries, Threads
<1>3. ASSUME Init
      PROVE  /\ at \in [Threads -> Places] /\ loaded \in [Threads -> BOOLEAN]
             /\ copy \in [Threads -> States] /\ rows \in [Threads -> SUBSET Rows]
  BY <1>1, <1>3 DEF Init
<1>4. ASSUME Init
      PROVE  /\ cur \in [Threads -> Setups \cup {NoSetup}] /\ size \in [Threads -> {"one", "full"}]
             /\ decision \in [Threads -> {"sent", "blocked"}] /\ left \in [Threads -> Int]
  BY <1>4 DEF Init
<1>5. ASSUME Init PROVE trade \in [Setups -> TradeStates]
  BY <1>5 DEF Init, TradeStates
<1>6. ASSUME Init
      PROVE  /\ file \in States /\ book \subseteq Rows /\ lock \in Threads \cup {Free}
             /\ offered \subseteq Setups /\ expired \subseteq Setups
             /\ day \in Days /\ crashes \in 0..MaxCrashes /\ counted \in Nat
             /\ flattened \subseteq Days /\ cut \subseteq Days /\ letGo \subseteq Setups
  BY <1>1, <1>6, GuardStateAssumption DEF Init
<1>7. ASSUME Init PROVE raced \in BOOLEAN
  BY <1>7, Zenon DEF Init
<1> QED
  BY <1>2, <1>3, <1>4, <1>5, <1>6, <1>7 DEF TypeOK

(* TypeOK with Carries is inductive. *)
LEMMA TypeInvariant == TypeOK /\ Carries /\ [Next]_vars => TypeOK' /\ Carries'
PROOF
<1> SUFFICES ASSUME TypeOK, Carries, [Next]_vars PROVE TypeOK' /\ Carries'
  OBVIOUS
<1>1. ASSUME UNCHANGED vars PROVE TypeOK'
  BY <1>1, StutterType
<1>2. TypeOK'
  BY <1>1, DecisionType, DispatchType, ServiceType, WorldType DEF Next
<1> QED
  BY <1>2, CarriesInvariant

(* Whatever the threads interleave and wherever the process restarts, both     *)
(* files and every thread's copies stay well formed.                           *)
THEOREM GuardTypeCorrect == Spec => []TypeOK
PROOF
<1>1. Spec => [](TypeOK /\ Carries)
  BY InitType, TypeInvariant, PTL DEF Spec
<1> QED
  BY <1>1, PTL

-----------------------------------------------------------------------------
(* The ramp.  A dispatcher in "count" has recorded a sent order that sent_total *)
(* does not have yet.  Every copy of the counter in memory or on disk, with     *)
(* those orders added, stays within the recorded ones.                          *)
PendingOf(a) == IF a \in Dispatchers /\ at[a] = "count" THEN 1 ELSE 0
Pending == PendingOf("AB") + PendingOf("CO")
RampBound ==
  /\ file.sent + Pending <= counted
  /\ \A t \in Threads : copy[t].sent + Pending <= counted

(* Only NoteSave moves a dispatcher to "count". *)
LEMMA PendingMoves ==
  ASSUME TypeOK, NEW t \in Threads, NEW p, p # "count", at' = [at EXCEPT ![t] = p]
  PROVE  Pending' <= Pending
PROOF
<1>1. ASSUME NEW a \in Dispatchers, at'[a] = "count" PROVE at[a] = "count"
  BY <1>1 DEF TypeOK, Threads
<1>2. ASSUME NEW a PROVE PendingOf(a)' <= PendingOf(a)
  BY <1>1 DEF PendingOf
<1> QED
  BY <1>2 DEF Pending, PendingOf

(* A step that copies or writes back counters, and brings no order to "count". *)
LEMMA RampCopies ==
  ASSUME TypeOK, TypeOK', RampBound, counted' = counted, Pending' <= Pending,
         file'.sent \in {file.sent} \cup {copy[u].sent : u \in Threads},
         \A t \in Threads : copy'[t].sent \in {0, file.sent, copy[t].sent}
  PROVE  RampBound'
PROOF
<1>1. /\ file.sent \in Nat /\ counted \in Nat /\ file'.sent \in Nat
      /\ \A t \in Threads : copy[t].sent \in Nat /\ copy'[t].sent \in Nat
  BY DEF TypeOK, States
<1>2. Pending \in 0..2 /\ Pending' \in 0..2
  BY DEF Pending, PendingOf
<1>3. Pending <= counted
  BY <1>1, <1>2 DEF RampBound
<1>4. file'.sent + Pending' <= counted'
  BY <1>1, <1>2 DEF RampBound
<1>5. ASSUME NEW t \in Threads PROVE copy'[t].sent + Pending' <= counted'
  BY <1>1, <1>2, <1>3 DEF RampBound
<1> QED
  BY <1>4, <1>5 DEF RampBound

(* An update that leaves sent_total as it loaded or found it. *)
LEMMA RampUpdate ==
  ASSUME TypeOK, TypeOK', RampBound, counted' = counted, Pending' <= Pending,
         NEW t \in Threads, NEW op, NEW new, Update(t, op, new),
         new.sent = file.sent \/ new.sent = copy[t].sent
  PROVE  RampBound'
PROOF
<1>1. file'.sent \in {file.sent} \cup {copy[u].sent : u \in Threads}
  BY DEF Update
<1>2. copy' = [copy EXCEPT ![t] = Fresh]
  BY DEF Update
<1>3. \A u \in Threads : copy'[u].sent \in {0, file.sent, copy[u].sent}
  BY <1>2 DEF Fresh, TypeOK
<1> QED
  BY <1>1, <1>3, RampCopies

(* A step that touches neither file, counter nor copies. *)
LEMMA RampMove ==
  ASSUME TypeOK, TypeOK', RampBound, counted' = counted, file' = file, copy' = copy,
         NEW t \in Threads, NEW p, p # "count", at' = [at EXCEPT ![t] = p]
  PROVE  RampBound'
  BY PendingMoves, RampCopies

(* The heartbeat, the operator and the loads invent no count. *)
LEMMA RampService ==
  ASSUME TypeOK, TypeOK', RampBound, Service
  PROVE  RampBound'
PROOF
<1>1. ASSUME NEW t \in Threads, NEW op \in Chores \cup Requests, Start(t, op) PROVE RampBound'
  <2>1. op # "count"
    BY GuardStateAssumption
  <2> QED
    BY <1>1, <2>1, RampMove DEF Start, GoTo, history
<1>2. ASSUME NEW t \in Threads, Load(t) PROVE RampBound'
  <2>1. Pending' <= Pending
    BY <1>2 DEF Load, Pending, PendingOf
  <2>2. \A u \in Threads : copy'[u].sent \in {0, file.sent, copy[u].sent}
    BY <1>2 DEF Load, TypeOK
  <2> QED
    BY <1>2, <2>1, <2>2, RampCopies DEF Load, history
<1>3. ASSUME NEW t \in Threads, Beat(t) PROVE RampBound'
  <2>1. Pending' <= Pending
    <3>1. PICK p \in {"idle", "check"} : at' = [at EXCEPT ![t] = p]
      BY <1>3 DEF Beat, GoTo
    <3> QED
      BY <3>1, PendingMoves
  <2> QED
    BY <1>3, <2>1, RampUpdate DEF Beat
<1>4. ASSUME NEW t \in Threads, Halt(t) PROVE RampBound'
  <2>1. Pending' <= Pending
    BY <1>4, PendingMoves DEF Halt, GoTo
  <2>2. [copy[t] EXCEPT !.kill = "hard", !.killDay = day].sent = copy[t].sent
    BY DEF TypeOK, States
  <2> QED
    BY <1>4, <2>1, <2>2, RampUpdate DEF Halt
<1>5. ASSUME NEW t \in Threads, Arm(t) PROVE RampBound'
  <2>1. Pending' <= Pending
    BY <1>5, PendingMoves DEF Arm, GoTo
  <2>2. [copy[t] EXCEPT !.kill = "off"].sent = copy[t].sent
    BY DEF TypeOK, States
  <2> QED
    BY <1>5, <2>1, <2>2, RampUpdate DEF Arm
<1>6. ASSUME NEW t \in Threads, EodFlattenCheck(t) PROVE RampBound'
  <2>1. Pending' <= Pending
    <3>1. PICK p \in {"idle", "flatten"} : at' = [at EXCEPT ![t] = p]
      BY <1>6 DEF EodFlattenCheck, GoTo
    <3> QED
      BY <3>1, PendingMoves
  <2>2. [copy[t] EXCEPT !.eod = day].sent = copy[t].sent
    BY DEF TypeOK, States
  <2>3. PICK new : Update(t, "eod", new) /\ (new.sent = file.sent \/ new.sent = copy[t].sent)
    BY <1>6, <2>2 DEF EodFlattenCheck
  <2> QED
    BY <1>6, <2>1, <2>3, RampUpdate DEF EodFlattenCheck
<1>7. ASSUME NEW t \in Threads, FlattenAll(t) PROVE RampBound'
  BY <1>7, RampMove DEF FlattenAll, GoTo
<1> QED
  BY <1>1, <1>2, <1>3, <1>4, <1>5, <1>6, <1>7 DEF Service, Heartbeat, Request, Threads

(* guard_ok invents no count: it writes back what it loaded. *)
LEMMA RampDecision ==
  ASSUME TypeOK, TypeOK', RampBound, NEW a \in Dispatchers, GuardDecision(a)
  PROVE  RampBound'
PROOF
<1>0. a \in Threads
  BY DEF Threads
<1>1. ASSUME NEW g \in Setups, Detect(a, g) PROVE RampBound'
  BY <1>0, <1>1, RampMove DEF Detect, GoTo, history
<1>2. CASE RampQty(a)
  BY <1>0, <1>2, RampMove DEF RampQty, GoTo, history
<1>3. CASE CheckKill(a)
  <2>1. Pending' <= Pending
    BY <1>0, <1>3, PendingMoves DEF CheckKill, Refuse, GoTo
  <2>2. \A u \in Threads : copy'[u].sent \in {0, file.sent, copy[u].sent}
    BY <1>3 DEF CheckKill, TypeOK
  <2> QED
    BY <1>3, <2>1, <2>2, RampCopies DEF CheckKill, history
<1>4. CASE PendingGroup(a)
  <2>1. Pending' <= Pending
    BY <1>0, <1>4, PendingMoves DEF PendingGroup, Refuse, GoTo
  <2>2. \A u \in Threads : copy'[u].sent \in {0, file.sent, copy[u].sent}
    BY <1>4 DEF PendingGroup, TypeOK, Fresh
  <2>3. [copy[a] EXCEPT !.group = NoSetup].sent = copy[a].sent
    BY <1>0 DEF TypeOK, States
  <2>4. file'.sent \in {file.sent} \cup {copy[u].sent : u \in Threads}
    BY <1>0, <1>4, <2>3 DEF PendingGroup
  <2> QED
    BY <1>4, <2>1, <2>2, <2>4, RampCopies DEF PendingGroup, history
<1>5. CASE DayStats(a)
  <2>1. Pending' <= Pending
    BY <1>0, <1>5, PendingMoves DEF DayStats, Refuse, GoTo
  <2> QED
    BY <1>5, <2>1, RampCopies DEF DayStats, history
<1>6. ASSUME NEW kind \in {"day", "hard"}, Latch(a, kind) PROVE RampBound'
  <2>1. Pending' <= Pending
    BY <1>0, <1>6, PendingMoves DEF Latch, GoTo
  <2>2. [copy[a] EXCEPT !.kill = kind, !.killDay = day].sent = copy[a].sent
    BY <1>0 DEF TypeOK, States
  <2>3. PICK op : Update(a, op, [copy[a] EXCEPT !.kill = kind, !.killDay = day])
    BY <1>6 DEF Latch
  <2>4. counted' = counted
    BY <1>6 DEF Latch
  <2> QED
    BY <1>0, <2>1, <2>2, <2>3, <2>4, RampUpdate
<1> QED
  BY <1>1, <1>2, <1>3, <1>4, <1>5, <1>6 DEF GuardDecision

(* A thread that leaves "count" takes its order off the pending ones. *)
LEMMA PendingCounted ==
  ASSUME TypeOK, NEW a \in Dispatchers, at[a] = "count",
         NEW p, p # "count", at' = [at EXCEPT ![a] = p]
  PROVE  Pending' = Pending - 1
PROOF
<1>1. /\ at'[a] = p
      /\ \A b \in Dispatchers : b # a => at'[b] = at[b]
  BY DEF TypeOK, Threads
<1>2. PendingOf(a)' = 0 /\ PendingOf(a) = 1
  BY <1>1 DEF PendingOf
<1>3. \A b : b # a => PendingOf(b)' = PendingOf(b)
  BY <1>1 DEF PendingOf
<1>4. \A b : PendingOf(b) \in 0..1
  BY DEF PendingOf
<1>5. CASE a = "AB"
  BY <1>2, <1>3, <1>4, <1>5 DEF Pending
<1>6. CASE a = "CO"
  BY <1>2, <1>3, <1>4, <1>6 DEF Pending
<1> QED
  BY <1>5, <1>6, GuardStateAssumption

(* A move of one dispatcher raises the pending orders by at most one. *)
LEMMA PendingRaised ==
  ASSUME TypeOK, NEW a \in Dispatchers, NEW p, at' = [at EXCEPT ![a] = p]
  PROVE  Pending' <= Pending + 1
PROOF
<1>1. \A b : b # a => PendingOf(b)' = PendingOf(b)
  BY DEF PendingOf, TypeOK, Threads
<1>2. \A b : PendingOf(b) \in 0..1 /\ PendingOf(b)' \in 0..1
  BY DEF PendingOf
<1> QED
  BY <1>1, <1>2 DEF Pending

(* The only new counts are those of CountSent, one for each recorded order. *)
LEMMA RampDispatch ==
  ASSUME TypeOK, TypeOK', RampBound, NEW a \in Dispatchers, Dispatch(a)
  PROVE  RampBound'
PROOF
<1>0. a \in Threads
  BY DEF Threads
<1>1. CASE BeginSiblingBatch(a)
  <2>1. Pending' <= Pending
    BY <1>0, <1>1, PendingMoves DEF BeginSiblingBatch, Refuse, GoTo
  <2>2. [copy[a] EXCEPT !.group = cur[a]].sent = copy[a].sent
    BY <1>0 DEF TypeOK, States
  <2>3. PICK new : Update(a, "begin", new) /\ (new.sent = file.sent \/ new.sent = copy[a].sent)
    BY <1>1, <2>2 DEF BeginSiblingBatch
  <2> QED
    BY <1>0, <1>1, <2>1, <2>3, RampUpdate DEF BeginSiblingBatch
<1>2. ASSUME NEW reply \in Replies, Send(a, reply) PROVE RampBound'
  <2>1. PICK p \in {"touch", "finish"} : at' = [at EXCEPT ![a] = p]
    BY <1>2 DEF Send, GoTo
  <2> QED
    BY <1>0, <1>2, <2>1, RampMove DEF Send, history
<1>3. CASE TouchSiblingBatch(a)
  <2>1. PICK p \in {"note", "rollback"} : at' = [at EXCEPT ![a] = p]
    BY <1>3 DEF TouchSiblingBatch, GoTo
  <2>2. Pending' <= Pending
    BY <1>0, <2>1, PendingMoves
  <2> QED
    BY <1>0, <1>3, <2>2, RampUpdate DEF TouchSiblingBatch
<1>4. CASE RollbackSiblingBatch(a)
  <2>1. PICK p \in {"finish", "uncertain"} : at' = [at EXCEPT ![a] = p]
    BY <1>4 DEF RollbackSiblingBatch, GoTo
  <2> QED
    BY <1>0, <1>4, <2>1, RampMove DEF RollbackSiblingBatch, history
<1>5. CASE RollbackUncertain(a)
  <2>1. Pending' <= Pending
    BY <1>0, <1>5, PendingMoves DEF RollbackUncertain, GoTo
  <2> QED
    BY <1>0, <1>5, <2>1, RampUpdate DEF RollbackUncertain
<1>6. CASE FinishSiblingBatch(a)
  <2>1. PICK p \in {"idle", "note"} : at' = [at EXCEPT ![a] = p]
    BY <1>6 DEF FinishSiblingBatch, GoTo
  <2>2. Pending' <= Pending
    BY <1>0, <2>1, PendingMoves
  <2>3. [copy[a] EXCEPT !.group = NoSetup].sent = copy[a].sent
    BY <1>0 DEF TypeOK, States
  <2> QED
    BY <1>0, <1>6, <2>2, <2>3, RampUpdate DEF FinishSiblingBatch
<1>7. CASE NoteLoad(a)
  <2>1. Pending' <= Pending
    BY <1>7 DEF NoteLoad, Pending, PendingOf
  <2> QED
    BY <1>7, <2>1, RampCopies DEF NoteLoad, history
<1>8. CASE NoteSave(a)
  <2>1. file' = file /\ copy' = copy
    BY <1>8 DEF NoteSave
  <2>2. CASE decision[a] = "sent"
    \* the recorded orders go up by one, and so, at most, do the pending ones
    <3>1. counted' = counted + 1
      BY <1>8, <2>2 DEF NoteSave
    <3>2. PICK p : at' = [at EXCEPT ![a] = p]
      BY <1>8 DEF NoteSave, Noted, GoTo
    <3>3. Pending' <= Pending + 1
      BY <3>2, PendingRaised
    <3>4. Pending \in 0..2 /\ Pending' \in 0..2
      BY DEF Pending, PendingOf
    <3>5. /\ file.sent \in Nat /\ counted \in Nat
          /\ \A t \in Threads : copy[t].sent \in Nat
      BY DEF TypeOK, States
    <3> QED
      BY <2>1, <3>1, <3>3, <3>4, <3>5 DEF RampBound
  <2>3. CASE decision[a] # "sent"
    <3>1. PICK p \in {"note", "finish", "idle"} : at' = [at EXCEPT ![a] = p]
      BY <1>8, <2>3 DEF NoteSave, Noted, GoTo
    <3>2. counted' = counted
      BY <1>8, <2>3 DEF NoteSave
    <3> QED
      BY <1>0, <2>1, <3>1, <3>2, RampMove
  <2> QED
    BY <2>2, <2>3
<1>9. CASE CountSent(a)
  <2>1. /\ file' = [copy[a] EXCEPT !.sent = @ + 1]
        /\ copy' = [copy EXCEPT ![a] = Fresh]
        /\ counted' = counted /\ at[a] = "count"
    BY <1>9 DEF CountSent, Update
  <2>2. PICK p \in {"note", "finish", "idle"} : at' = [at EXCEPT ![a] = p]
    <3>1. Noted(a)
      BY <1>9 DEF CountSent
    <3> DEFINE next == CASE left[a] > 1 -> "note"
                         [] left[a] = 1 /\ a = "AB" /\ decision[a] = "sent" -> "finish"
                         [] OTHER -> "idle"
    <3>2. left[a] \in Int
      BY <1>0 DEF TypeOK
    <3>3. next \in {"note", "finish", "idle"}
      BY <3>2
    <3>4. at' = [at EXCEPT ![a] = next]
      BY <3>1 DEF Noted, GoTo
    <3> QED
      BY <3>3, <3>4
  <2>3. Pending' = Pending - 1
    BY <2>1, <2>2, PendingCounted
  <2>4. Pending \in 0..2 /\ Pending' \in 0..2
    BY DEF Pending, PendingOf
  <2>5. copy[a].sent \in Nat /\ counted \in Nat /\ \A t \in Threads : copy[t].sent \in Nat
    BY <1>0 DEF TypeOK, States
  <2>6. file'.sent = copy[a].sent + 1
    BY <1>0, <2>1 DEF TypeOK, States
  <2>7. \A t \in Threads : copy'[t].sent \in {0, copy[t].sent}
    BY <2>1 DEF TypeOK, Fresh
  <2>8. file'.sent + Pending' <= counted'
    BY <1>0, <2>1, <2>3, <2>4, <2>5, <2>6 DEF RampBound
  <2>9. ASSUME NEW t \in Threads PROVE copy'[t].sent + Pending' <= counted'
    BY <2>1, <2>3, <2>4, <2>5, <2>7 DEF RampBound
  <2> QED
    BY <2>8, <2>9 DEF RampBound
<1> QED
  BY <1>1, <1>2, <1>3, <1>4, <1>5, <1>6, <1>7, <1>8, <1>9 DEF Dispatch

(* A restart loses the pending counts; the market does not touch them. *)
LEMMA RampWorld ==
  ASSUME TypeOK, TypeOK', RampBound, World
  PROVE  RampBound'
PROOF
<1>1. CASE Crash
  <2>1. Pending' <= Pending
    BY <1>1 DEF Crash, Pending, PendingOf, Threads
  <2>2. \A t \in Threads : copy'[t].sent = 0
    BY <1>1 DEF Crash, Fresh
  <2> QED
    BY <1>1, <2>1, <2>2, RampCopies DEF Crash, history
<1>2. CASE file' = file /\ copy' = copy /\ at' = at /\ counted' = counted
  <2>1. Pending' = Pending
    BY <1>2 DEF Pending, PendingOf
  <2> QED
    BY <1>2, <2>1 DEF RampBound
<1>3. CASE NewDay \/ \E g \in Setups : Resolve(g) \/ Expire(g)
  BY <1>2, <1>3 DEF NewDay, Resolve, Expire, localVars, history
<1> QED
  BY <1>1, <1>3 DEF World

-----------------------------------------------------------------------------
(* The inductive invariant of the ramp. *)
RampInv == TypeOK /\ Carries /\ RampBound /\ RampHolds

(* The service starts with nothing counted and no setup sized. *)
LEMMA RampInit == Init => RampBound /\ RampHolds
PROOF
<1> SUFFICES ASSUME Init PROVE RampBound /\ RampHolds
  OBVIOUS
<1>1. Pending = 0
  BY DEF Init, Pending, PendingOf, Threads
<1>2. RampBound
  BY <1>1 DEF Init, RampBound, Fresh
<1>3. RampHolds
  BY DEF Init, RampHolds, Threads
<1> QED
  BY <1>2, <1>3

(* The recorded orders are never fewer, and only RampQty enlarges a size. *)
LEMMA RecordedGrow ==
  ASSUME TypeOK, [Next]_vars
  PROVE  counted' \in {counted, counted + 1}
PROOF
<1>1. ASSUME NEW a \in Dispatchers, Dispatch(a) PROVE counted' \in {counted, counted + 1}
  BY <1>1 DEF Dispatch, BeginSiblingBatch, Send, TouchSiblingBatch, RollbackSiblingBatch,
              RollbackUncertain, FinishSiblingBatch, NoteLoad, NoteSave, CountSent, history
<1>2. ASSUME NEW a \in Dispatchers, GuardDecision(a) PROVE counted' = counted
  BY <1>2 DEF GuardDecision, Detect, RampQty, CheckKill, PendingGroup, DayStats, Latch, history
<1>3. CASE Service
  BY <1>3 DEF Service, Heartbeat, Request, Start, Load, Beat, Halt, Arm, EodFlattenCheck,
              FlattenAll, history
<1>4. CASE World
  BY <1>4 DEF World, Resolve, Expire, NewDay, Crash, history
<1>5. CASE UNCHANGED vars
  BY <1>5 DEF vars, history
<1> QED
  BY <1>1, <1>2, <1>3, <1>4, <1>5 DEF Next

(* A size becomes full only in RampQty, with Ramp orders in sent_total. *)
LEMMA SizesKept ==
  ASSUME TypeOK, [Next]_vars, NEW a \in Dispatchers, size'[a] = "full"
  PROVE  size[a] = "full" \/ file.sent >= Ramp
PROOF
<1>0. a \in Threads
  BY DEF Threads
<1>1. ASSUME NEW b \in Dispatchers, Dispatch(b) PROVE size' = size
  BY <1>1 DEF Dispatch, BeginSiblingBatch, Send, TouchSiblingBatch, RollbackSiblingBatch,
              RollbackUncertain, FinishSiblingBatch, NoteLoad, NoteSave, CountSent, Update
<1>2. ASSUME NEW b \in Dispatchers, RampQty(b) PROVE size[a] = "full" \/ file.sent >= Ramp
  <2>1. file.sent \in Nat
    BY DEF TypeOK, States
  <2> QED
    BY <1>0, <1>2, <2>1, GuardStateAssumption DEF TypeOK, RampQty
<1>3. ASSUME NEW b \in Dispatchers, GuardDecision(b) PROVE size' = size \/ RampQty(b)
  BY <1>3 DEF GuardDecision, Detect, CheckKill, PendingGroup, DayStats, Latch, Update
<1>4. CASE Service
  BY <1>4 DEF Service, Heartbeat, Request, Start, Load, Beat, Halt, Arm, EodFlattenCheck,
              FlattenAll, Update
<1>5. CASE Crash
  BY <1>0, <1>5 DEF Crash
<1>6. CASE NewDay \/ \E g \in Setups : Resolve(g) \/ Expire(g)
  BY <1>6 DEF NewDay, Resolve, Expire, localVars
<1>7. CASE UNCHANGED vars
  BY <1>7 DEF vars, localVars
<1> QED
  BY <1>1, <1>2, <1>3, <1>4, <1>5, <1>6, <1>7 DEF Next, World

(* The invariant of the ramp is inductive. *)
LEMMA RampStep == RampInv /\ [Next]_vars => RampInv'
PROOF
<1> SUFFICES ASSUME RampInv, [Next]_vars PROVE RampInv'
  OBVIOUS
<1>1. TypeOK /\ Carries /\ RampBound /\ RampHolds /\ TypeOK' /\ Carries'
  BY TypeInvariant DEF RampInv
<1>2. RampBound'
  <2>1. ASSUME UNCHANGED vars PROVE RampBound'
    BY <1>1, <2>1 DEF RampBound, Pending, PendingOf, vars, localVars, history
  <2> QED
    BY <1>1, <2>1, RampDecision, RampDispatch, RampService, RampWorld DEF Next
<1>3. RampHolds'
  <2> SUFFICES ASSUME NEW a \in Dispatchers, size'[a] = "full" PROVE counted' >= Ramp
    BY DEF RampHolds
  <2>1. counted' \in {counted, counted + 1} /\ counted \in Nat
    BY <1>1, RecordedGrow DEF TypeOK
  <2>2. CASE size[a] = "full"
    BY <1>1, <2>1, <2>2, GuardStateAssumption DEF RampHolds
  <2>3. CASE file.sent >= Ramp
    <3>1. file.sent \in Nat /\ Pending \in 0..2
      BY <1>1 DEF TypeOK, States, Pending, PendingOf
    <3> QED
      BY <1>1, <2>1, <2>3, <3>1, GuardStateAssumption DEF RampBound
  <2> QED
    BY <1>1, <2>2, <2>3, SizesKept
<1> QED
  BY <1>1, <1>2, <1>3 DEF RampInv

(* No setup is sized in full before Ramp sent orders have been recorded: the   *)
(* unlocked updates of sent_total lose counts, they never invent one.          *)
THEOREM RampNeverShort == Spec => []RampHolds
PROOF
<1>1. Init => RampInv
  BY InitType, RampInit DEF RampInv
<1>2. RampInv => RampHolds
  BY DEF RampInv
<1> QED
  BY <1>1, <1>2, RampStep, PTL DEF Spec
=============================================================================
