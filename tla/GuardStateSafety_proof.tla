----------------------- MODULE GuardStateSafety_proof -----------------------
(***************************************************************************)
(* Safety of GuardState, for any number of setups, days and restarts.      *)
(*                                                                         *)
(*   - The end-of-day flatten: every copy of the day mark, in the file or  *)
(*     in a thread's memory, is a day on which the flatten went out, was   *)
(*     cut off by a restart or is under way (EodBound).                    *)
(*   - The loss limit: the rows of a day that are losses or may become     *)
(*     losses stay within the limit, and one more for each further         *)
(*     dispatcher, in the book and in the book as any dispatcher is about  *)
(*     to write it (LossBound).  It rests on whose a setup is (OwnSetups)  *)
(*     and on the dates of the rows (BooksDated).                          *)
(*   - The hard halt: every update but ARM and the day latch hands on the  *)
(*     kill it has read (HaltHandedOn).                                    *)
(***************************************************************************)
EXTENDS GuardState_proof, FiniteSetTheorems

(* What each thread may be doing. *)
Duty(t) == CASE t = "hb" -> {"idle", "beat", "eod", "flatten"}
             [] t = "op" -> {"idle", "halt", "arm", "flatten"}
             [] OTHER -> Places \ {"halt", "arm", "eod"}
Duties == \A t \in Threads : at[t] \in Duty(t)

(* The heartbeat and the operator are no dispatchers. *)
LEMMA DispatcherDuty ==
  ASSUME NEW a \in Dispatchers
  PROVE  /\ a \in Threads /\ a # "hb" /\ a # "op"
         /\ Duty(a) = Places \ {"halt", "arm", "eod"}
  BY GuardStateAssumption DEF Threads, Duty

(* A step of one thread to a place of its own. *)
LEMMA DutyMove ==
  ASSUME TypeOK, Duties, NEW t \in Threads, NEW p \in Duty(t), at' = [at EXCEPT ![t] = p]
  PROVE  Duties'
  BY DEF TypeOK, Duties, Duty

(* The heartbeat and the request threads start only their own work. *)
LEMMA ServiceDuties ==
  ASSUME TypeOK, Duties, Service
  PROVE  Duties'
PROOF
<1>1. ASSUME NEW t \in Threads, NEW p \in Duty(t), at' = [at EXCEPT ![t] = p] PROVE Duties'
  BY <1>1, DutyMove
<1>2. "hb" \in Threads /\ "op" \in Threads
  BY DEF Threads
<1>3. CASE Heartbeat
  <2>1. PICK c \in Chores : at' = [at EXCEPT !["hb"] = c]
    BY <1>3 DEF Heartbeat, Start, GoTo
  <2>2. c \in Duty("hb")
    BY GuardStateAssumption DEF Duty
  <2> QED
    BY <1>1, <1>2, <2>1, <2>2
<1>4. CASE Request
  <2>1. PICK r \in Requests : at' = [at EXCEPT !["op"] = r]
    BY <1>4 DEF Request, Start, GoTo
  <2>2. r \in Duty("op")
    BY GuardStateAssumption DEF Duty
  <2> QED
    BY <1>1, <1>2, <2>1, <2>2
<1>5. ASSUME NEW t \in Threads, Load(t) PROVE Duties'
  BY <1>5 DEF Load, Duties, Duty
<1>6. ASSUME NEW t \in Threads, Beat(t) PROVE Duties'
  <2>1. at[t] = "beat" /\ at' = [at EXCEPT ![t] = IF t = "hb" THEN "idle" ELSE "check"]
    BY <1>6 DEF Beat, Update, GoTo
  <2>2. (IF t = "hb" THEN "idle" ELSE "check") \in Duty(t)
    BY <2>1 DEF Duties, Duty, Places
  <2> QED
    BY <1>1, <2>1, <2>2
<1>7. ASSUME NEW t \in Threads, Halt(t) PROVE Duties'
  <2>1. at[t] = "halt" /\ at' = [at EXCEPT ![t] = "flatten"]
    BY <1>7 DEF Halt, Update, GoTo
  <2>2. "flatten" \in Duty(t)
    BY <2>1 DEF Duties, Duty, Places
  <2> QED
    BY <1>1, <2>1, <2>2
<1>8. ASSUME NEW t \in Threads, NEW p \in {"idle", "flatten"}, at' = [at EXCEPT ![t] = p] PROVE Duties'
  <2>1. p \in Duty(t)
    BY <1>8 DEF Duties, Duty, Places
  <2> QED
    BY <1>1, <1>8, <2>1
<1>9. ASSUME NEW t \in Threads, Arm(t) \/ EodFlattenCheck(t) PROVE Duties'
  BY <1>8, <1>9 DEF Arm, EodFlattenCheck, GoTo
<1>10. ASSUME NEW t \in Threads, FlattenAll(t) PROVE Duties'
  <2>1. at' = [at EXCEPT ![t] = IF t \in Dispatchers THEN "note" ELSE "idle"]
    BY <1>10 DEF FlattenAll, GoTo
  <2>2. (IF t \in Dispatchers THEN "note" ELSE "idle") \in Duty(t)
    BY DispatcherDuty DEF Duty, Places
  <2> QED
    BY <1>1, <2>1, <2>2
<1> QED
  BY <1>3, <1>4, <1>5, <1>6, <1>7, <1>9, <1>10 DEF Service

(* A dispatcher keeps to the guard, the reservation, the relay and the record. *)
LEMMA DispatcherDuties ==
  ASSUME TypeOK, Duties, NEW a \in Dispatchers, GuardDecision(a) \/ Dispatch(a)
  PROVE  Duties'
PROOF
<1>0. a \in Threads
  BY DispatcherDuty
<1> DEFINE Next1 == {"ramp", "beat", "group", "note", "stats", "latch day", "begin", "flatten", "send",
                     "touch", "finish", "rollback", "uncertain", "latch hard", "idle", "count"}
<1>1. at' = at \/ \E p \in Next1 : at' = [at EXCEPT ![a] = p]
  <2>1. ASSUME Noted(a) PROVE \E p \in {"note", "finish", "idle"} : at' = [at EXCEPT ![a] = p]
    <3> DEFINE next == CASE left[a] > 1 -> "note"
                         [] left[a] = 1 /\ a = "AB" /\ decision[a] = "sent" -> "finish"
                         [] OTHER -> "idle"
    <3>1. left[a] \in Int
      BY <1>0 DEF TypeOK
    <3>2. next \in {"note", "finish", "idle"}
      BY <3>1
    <3>3. at' = [at EXCEPT ![a] = next]
      BY <2>1 DEF Noted, GoTo
    <3> QED
      BY <3>2, <3>3
  <2>2. CASE NoteSave(a) \/ CountSent(a)
    BY <2>1, <2>2 DEF NoteSave, CountSent, GoTo
  <2>3. CASE GuardDecision(a)
    BY <2>3 DEF GuardDecision, Detect, RampQty, CheckKill, PendingGroup, DayStats, Latch, Refuse, GoTo
  <2>4. CASE BeginSiblingBatch(a) \/ \E reply \in Replies : Send(a, reply)
    BY <2>4 DEF BeginSiblingBatch, Send, Refuse, GoTo
  <2>5. CASE TouchSiblingBatch(a) \/ RollbackSiblingBatch(a) \/ RollbackUncertain(a)
             \/ FinishSiblingBatch(a) \/ NoteLoad(a)
    BY <2>5 DEF TouchSiblingBatch, RollbackSiblingBatch, RollbackUncertain, FinishSiblingBatch,
                NoteLoad, GoTo
  <2> QED
    BY <2>2, <2>3, <2>4, <2>5 DEF Dispatch
<1>2. Next1 \subseteq Duty(a)
  BY DispatcherDuty DEF Places, Updates, Locked
<1>3. CASE at' = at
  BY <1>3 DEF Duties, Duty
<1> QED
  BY <1>0, <1>1, <1>2, <1>3, DutyMove

(* Every thread keeps to its work. *)
LEMMA DutiesKept ==
  ASSUME TypeOK, Duties, [Next]_vars
  PROVE  Duties'
PROOF
<1>1. CASE Crash
  BY <1>1 DEF Crash, Duties, Duty, Places
<1>2. CASE at' = at
  BY <1>2 DEF Duties, Duty
<1>3. CASE NewDay \/ \E g \in Setups : Resolve(g) \/ Expire(g)
  BY <1>2, <1>3 DEF NewDay, Resolve, Expire, localVars
<1>4. CASE UNCHANGED vars
  BY <1>2, <1>4 DEF vars, localVars
<1> QED
  BY <1>1, <1>3, <1>4, ServiceDuties, DispatcherDuties DEF Next, World

-----------------------------------------------------------------------------
(* The end-of-day flatten. *)
Announced(d) == d \in flattened \cup cut \/ (at["hb"] = "flatten" /\ d = day)
EodBound ==
  /\ file.eod \in Days => Announced(file.eod)
  /\ \A t \in Threads : copy[t].eod \in Days => Announced(copy[t].eod)

(* Threads hold the file, what they held, or a fresh state. *)
LEMMA CopyStep ==
  ASSUME TypeOK, [Next]_vars, NEW t \in Threads
  PROVE  copy'[t] \in {Fresh, file, copy[t]}
PROOF
<1>1. ASSUME NEW u \in Threads, NEW op, NEW new, Update(u, op, new) PROVE copy'[t] \in {Fresh, copy[t]}
  BY <1>1 DEF Update, TypeOK
<1>2. ASSUME NEW a \in Dispatchers, GuardDecision(a) PROVE copy'[t] \in {Fresh, file, copy[t]}
  <2>1. a \in Threads
    BY DispatcherDuty
  <2>2. CASE \E kind \in {"day", "hard"} : Latch(a, kind)
    BY <1>1, <2>1, <2>2 DEF Latch
  <2>3. CASE CheckKill(a) \/ PendingGroup(a)
    BY <2>3 DEF CheckKill, PendingGroup, TypeOK
  <2> QED
    BY <1>2, <2>2, <2>3 DEF GuardDecision, Detect, RampQty, DayStats
<1>3. ASSUME NEW a \in Dispatchers, Dispatch(a) PROVE copy'[t] \in {Fresh, copy[t]}
  <2>1. a \in Threads
    BY DispatcherDuty
  <2>2. CASE BeginSiblingBatch(a) \/ TouchSiblingBatch(a) \/ RollbackUncertain(a)
             \/ FinishSiblingBatch(a) \/ CountSent(a)
    BY <1>1, <2>1, <2>2 DEF BeginSiblingBatch, TouchSiblingBatch, RollbackUncertain,
                            FinishSiblingBatch, CountSent
  <2> QED
    BY <1>3, <2>2 DEF Dispatch, Send, RollbackSiblingBatch, NoteLoad, NoteSave
<1>4. CASE Service
  <2>1. ASSUME NEW u \in Threads, Beat(u) \/ Halt(u) \/ Arm(u) \/ EodFlattenCheck(u)
        PROVE  copy'[t] \in {Fresh, copy[t]}
    BY <1>1, <2>1 DEF Beat, Halt, Arm, EodFlattenCheck
  <2>2. ASSUME NEW u \in Threads, Load(u) PROVE copy'[t] \in {file, copy[t]}
    BY <2>2 DEF Load, TypeOK
  <2> QED
    BY <1>4, <2>1, <2>2 DEF Service, Heartbeat, Request, Start, FlattenAll
<1>5. CASE World
  BY <1>5 DEF World, Resolve, Expire, NewDay, Crash, localVars
<1>6. CASE UNCHANGED vars
  BY <1>6 DEF vars, localVars
<1> QED
  BY <1>2, <1>3, <1>4, <1>5, <1>6 DEF Next

(* The day mark of the file is one that was in the file or in memory, or the    *)
(* heartbeat has just set it and goes on to flatten.                            *)
LEMMA EodStep ==
  ASSUME TypeOK, Duties, [Next]_vars
  PROVE  \/ file'.eod = file.eod
         \/ \E t \in Threads : file'.eod = copy[t].eod
         \/ file'.eod = day /\ day' = day /\ at'["hb"] = "flatten"
PROOF
<1> DEFINE Result == \/ file'.eod = file.eod
                     \/ \E t \in Threads : file'.eod = copy[t].eod
                     \/ file'.eod = day /\ day' = day /\ at'["hb"] = "flatten"
<1>0. file \in States /\ \A t \in Threads : copy[t] \in States
  BY DEF TypeOK
<1>1. ASSUME NEW t \in Threads, NEW op, NEW new, Update(t, op, new),
             new = file \/ new.eod = copy[t].eod
      PROVE  Result
  <2>1. file' = new
    BY <1>1 DEF Update
  <2> QED
    BY <1>1, <2>1
<1>2. ASSUME NEW a \in Dispatchers, GuardDecision(a) PROVE Result
  <2>1. a \in Threads
    BY DispatcherDuty
  <2>2. ASSUME NEW kind \in {"day", "hard"}, Latch(a, kind) PROVE Result
    <3>1. [copy[a] EXCEPT !.kill = kind, !.killDay = day].eod = copy[a].eod
      BY <1>0, <2>1 DEF States
    <3> QED
      BY <1>1, <2>1, <2>2, <3>1 DEF Latch
  <2>3. CASE PendingGroup(a)
    <3>1. [copy[a] EXCEPT !.group = NoSetup].eod = copy[a].eod
      BY <1>0, <2>1 DEF States
    <3> QED
      BY <2>1, <2>3, <3>1 DEF PendingGroup
  <2> QED
    BY <1>2, <2>2, <2>3 DEF GuardDecision, Detect, RampQty, CheckKill, DayStats
<1>3. ASSUME NEW a \in Dispatchers, Dispatch(a) PROVE Result
  <2>1. a \in Threads
    BY DispatcherDuty
  <2>2. /\ [copy[a] EXCEPT !.group = cur[a]].eod = copy[a].eod
        /\ [copy[a] EXCEPT !.group = NoSetup].eod = copy[a].eod
        /\ [copy[a] EXCEPT !.sent = @ + 1].eod = copy[a].eod
    BY <1>0, <2>1 DEF States
  <2>3. CASE BeginSiblingBatch(a)
    BY <1>1, <2>1, <2>2, <2>3 DEF BeginSiblingBatch
  <2>4. CASE FinishSiblingBatch(a) \/ TouchSiblingBatch(a)
    BY <1>1, <2>1, <2>2, <2>4 DEF FinishSiblingBatch, TouchSiblingBatch
  <2>5. CASE RollbackUncertain(a) \/ CountSent(a)
    BY <1>1, <2>1, <2>2, <2>5 DEF RollbackUncertain, CountSent
  <2> QED
    BY <1>3, <2>3, <2>4, <2>5 DEF Dispatch, Send, RollbackSiblingBatch, NoteLoad, NoteSave
<1>4. CASE Service
  <2>1. ASSUME NEW t \in Threads, Halt(t) \/ Arm(t) \/ Beat(t) PROVE Result
    <3>1. /\ [copy[t] EXCEPT !.kill = "hard", !.killDay = day].eod = copy[t].eod
          /\ [copy[t] EXCEPT !.kill = "off"].eod = copy[t].eod
      BY <1>0 DEF States
    <3> QED
      BY <1>1, <2>1, <3>1 DEF Halt, Arm, Beat
  <2>2. ASSUME NEW t \in Threads, EodFlattenCheck(t) PROVE Result
    <3>1. CASE copy[t].eod = day
      BY <1>1, <2>2, <3>1 DEF EodFlattenCheck
    <3>2. CASE copy[t].eod # day
      <4>1. at[t] = "eod" /\ file' = [copy[t] EXCEPT !.eod = day] /\ day' = day
            /\ at' = [at EXCEPT ![t] = "flatten"]
        BY <2>2, <3>2 DEF EodFlattenCheck, Update, GoTo, worldVars
      <4>2. t = "hb"
        BY <4>1, DispatcherDuty DEF Duties, Duty, Threads
      <4>3. file'.eod = day /\ at'["hb"] = "flatten"
        BY <1>0, <4>1, <4>2 DEF States, TypeOK
      <4> QED
        BY <4>1, <4>3
    <3> QED
      BY <3>1, <3>2
  <2> QED
    BY <1>4, <2>1, <2>2 DEF Service, Heartbeat, Request, Start, Load, FlattenAll
<1>5. CASE World
  BY <1>5 DEF World, Resolve, Expire, NewDay, Crash
<1>6. CASE UNCHANGED vars
  BY <1>6 DEF vars
<1> QED
  BY <1>2, <1>3, <1>4, <1>5, <1>6 DEF Next

(* A day whose flatten went out, was cut off or is under way stays one. *)
LEMMA AnnouncedStep ==
  ASSUME TypeOK, Duties, [Next]_vars, NEW d, Announced(d)
  PROVE  d \in flattened' \cup cut' \/ (at'["hb"] = "flatten" /\ d = day')
PROOF
<1>1. flattened \subseteq flattened' /\ cut \subseteq cut'
  <2>1. ASSUME NEW a \in Dispatchers, GuardDecision(a) \/ Dispatch(a) PROVE UNCHANGED <<flattened, cut>>
    BY <2>1 DEF GuardDecision, Dispatch, Detect, RampQty, CheckKill, PendingGroup, DayStats, Latch,
                BeginSiblingBatch, Send, TouchSiblingBatch, RollbackSiblingBatch, RollbackUncertain,
                FinishSiblingBatch, NoteLoad, NoteSave, CountSent, Update, history
  <2>2. CASE Service
    BY <2>2 DEF Service, Heartbeat, Request, Start, Load, Beat, Halt, Arm, EodFlattenCheck,
                FlattenAll, Update, history
  <2>3. CASE World
    BY <2>3 DEF World, Resolve, Expire, NewDay, Crash, history
  <2>4. CASE UNCHANGED vars
    BY <2>4 DEF vars, history
  <2> QED
    BY <2>1, <2>2, <2>3, <2>4 DEF Next
<1>2. ASSUME at["hb"] = "flatten", d = day
      PROVE  d \in flattened' \cup cut' \/ (at'["hb"] = "flatten" /\ d = day')
  <2>0. "hb" \in Threads
    BY DEF Threads
  <2>1. ASSUME NEW a \in Dispatchers, GuardDecision(a) \/ Dispatch(a)
        PROVE  at'["hb"] = "flatten" /\ day' = day
    <3>1. a # "hb"
      BY DispatcherDuty
    <3> QED
      BY <1>2, <2>0, <2>1, <3>1
         DEF TypeOK, GuardDecision, Dispatch, Detect, RampQty, CheckKill, PendingGroup, DayStats, Latch,
             BeginSiblingBatch, Send, TouchSiblingBatch, RollbackSiblingBatch, RollbackUncertain,
             FinishSiblingBatch, NoteLoad, NoteSave, CountSent, Noted, Refuse, GoTo, Update, worldVars
  <2>2. CASE Service
    <3>1. ASSUME NEW t \in Threads, FlattenAll(t)
          PROVE  d \in flattened' \/ (at'["hb"] = "flatten" /\ day' = day)
      BY <1>2, <2>0, <3>1 DEF TypeOK, FlattenAll, GoTo
    <3>2. ASSUME NEW t \in Threads, Load(t) \/ Beat(t) \/ Halt(t) \/ Arm(t) \/ EodFlattenCheck(t)
          PROVE  at'["hb"] = "flatten" /\ day' = day
      BY <1>2, <2>0, <3>2 DEF TypeOK, Load, Beat, Halt, Arm, EodFlattenCheck, GoTo, Update, worldVars
    <3>3. CASE Heartbeat \/ Request
      BY <1>2, <2>0, <3>3 DEF TypeOK, Heartbeat, Request, Start, GoTo, worldVars
    <3> QED
      BY <1>2, <2>2, <3>1, <3>2, <3>3 DEF Service
  <2>3. CASE World
    BY <1>2, <2>3 DEF World, Resolve, Expire, NewDay, Crash, localVars
  <2>4. CASE UNCHANGED vars
    BY <1>2, <2>4 DEF vars, localVars, worldVars
  <2> QED
    BY <1>2, <2>1, <2>2, <2>3, <2>4 DEF Next
<1> QED
  BY <1>1, <1>2 DEF Announced

(* No copy of the day mark runs ahead of the flatten. *)
LEMMA EodKept ==
  ASSUME TypeOK, Duties, EodBound, [Next]_vars
  PROVE  EodBound'
PROOF
<1>1. Fresh.eod \notin Days
  BY GuardStateAssumption DEF Fresh, Days, NoDay
<1>2. ASSUME file'.eod \in Days
      PROVE  file'.eod \in flattened' \cup cut' \/ (at'["hb"] = "flatten" /\ file'.eod = day')
  <2>1. CASE file'.eod = file.eod
    BY <1>2, <2>1, AnnouncedStep DEF EodBound
  <2>2. ASSUME NEW t \in Threads, file'.eod = copy[t].eod
        PROVE  file'.eod \in flattened' \cup cut' \/ (at'["hb"] = "flatten" /\ file'.eod = day')
    BY <1>2, <2>2, AnnouncedStep DEF EodBound
  <2> QED
    BY <2>1, <2>2, EodStep
<1>3. ASSUME NEW t \in Threads, copy'[t].eod \in Days
      PROVE  copy'[t].eod \in flattened' \cup cut' \/ (at'["hb"] = "flatten" /\ copy'[t].eod = day')
  <2>1. copy'[t] \in {file, copy[t]}
    BY <1>1, <1>3, CopyStep
  <2> QED
    BY <1>3, <2>1, AnnouncedStep DEF EodBound
<1> QED
  BY <1>2, <1>3 DEF EodBound, Announced

(* A day marked in guard_state.json has had its flatten, is having it or was cut *)
(* off by a restart, however the unlocked saves of all threads interleave.       *)
THEOREM EodNeverForgotten == Spec => []EodFlattened
PROOF
<1> DEFINE EodInv == TypeOK /\ Carries /\ Duties /\ EodBound
<1>1. Init => EodInv
  <2>1. Init => Duties
    BY DEF Init, Duties, Duty, Places
  <2>2. Init => EodBound
    BY GuardStateAssumption DEF Init, EodBound, Fresh, Days, NoDay
  <2> QED
    BY <2>1, <2>2, InitType
<1>2. EodInv /\ [Next]_vars => EodInv'
  BY TypeInvariant, DutiesKept, EodKept
<1>3. EodInv => EodFlattened
  BY DEF EodBound, Announced, EodFlattened
<1> QED
  BY <1>1, <1>2, <1>3, PTL DEF Spec

-----------------------------------------------------------------------------
(* Setups.  Each is taken by one dispatcher, once: it is unknown to the broker  *)
(* until that dispatcher sends it, and known to it by the time it is recorded.  *)
Unsent == {"ramp", "beat", "check", "group", "stats", "latch day", "begin", "send"}
Noting(a) == at[a] \in {"touch", "note", "count"} /\ decision[a] = "sent"
OwnSetups ==
  /\ expired \subseteq offered
  /\ \A g \in Setups \ offered : trade[g] = "none"
  /\ \A a \in Dispatchers : cur[a] \in offered \cup {NoSetup}
  /\ \A a, b \in Dispatchers : a # b /\ cur[a] # NoSetup => cur[a] # cur[b]
  /\ \A a \in Dispatchers : at[a] # "idle" => cur[a] \notin expired
  /\ \A a \in Dispatchers : at[a] \in Unsent => trade[cur[a]] = "none"
  /\ \A a \in Dispatchers : Noting(a) => trade[cur[a]] # "none"
  /\ \A a \in Dispatchers : at[a] = "flatten" => decision[a] = "blocked"

(* A step of one thread that makes at most its own setup known to the broker. *)
LEMMA OwnMove ==
  ASSUME TypeOK, Carries, OwnSetups, UNCHANGED <<offered, expired, cur>>,
         \A g \in Setups : trade[g] # "none" => trade'[g] # "none",
         NEW t \in Threads, NEW p, at' = [at EXCEPT ![t] = p],
         \A b \in Dispatchers : b # t => decision'[b] = decision[b],
         \A g \in Setups : trade[g] = "none" /\ trade'[g] # "none"
           => t \in Dispatchers /\ g = cur[t] /\ p \notin Unsent,
         t \in Dispatchers => /\ at[t] # "idle"
                              /\ p \in Unsent => at[t] \in Unsent
                              /\ p = "flatten" => decision'[t] = "blocked"
                              /\ p \in {"touch", "note", "count"} /\ decision'[t] = "sent" => Noting(t)
  PROVE  OwnSetups'
PROOF
<1>1. ASSUME NEW a \in Dispatchers
      PROVE  /\ at'[a] # "idle" => cur[a] \notin expired
             /\ at'[a] \in Unsent => trade'[cur[a]] = "none"
             /\ Noting(a)' => trade'[cur[a]] # "none"
             /\ at'[a] = "flatten" => decision'[a] = "blocked"
  <2>1. a \in Threads
    BY DispatcherDuty
  <2>2. CASE a = t
    <3>1. at'[a] = p /\ cur[a] \in Setups
      BY <2>1, <2>2 DEF TypeOK, Carries
    <3> QED
      BY <2>2, <3>1 DEF OwnSetups, Noting
  <2>3. CASE a # t
    <3>1. at'[a] = at[a] /\ decision'[a] = decision[a]
      BY <2>1, <2>3 DEF TypeOK
    <3>2. at[a] # "idle" => cur[a] \in Setups
      BY DEF Carries
    <3>3. at[a] # "idle" /\ t \in Dispatchers => cur[a] # cur[t]
      BY <2>3, <3>2, NoSetupAssumption DEF OwnSetups
    <3> QED
      BY <3>1, <3>2, <3>3 DEF OwnSetups, Noting, Unsent
  <2> QED
    BY <2>2, <2>3
<1>2. \A g \in Setups \ offered : trade'[g] = "none"
  BY NoSetupAssumption DEF OwnSetups
<1> QED
  BY <1>1, <1>2 DEF OwnSetups

(* A dispatcher gives its setup up, before or after it was sent. *)
LEMMA OwnGiveUp ==
  ASSUME TypeOK, Carries, OwnSetups, UNCHANGED <<offered, expired, cur, trade>>,
         NEW a \in Dispatchers, at[a] # "idle", NEW p \in {"note", "flatten"},
         at' = [at EXCEPT ![a] = p], decision' = [decision EXCEPT ![a] = "blocked"]
  PROVE  OwnSetups'
PROOF
<1>1. a \in Threads
  BY DispatcherDuty
<1>2. decision'[a] = "blocked" /\ \A b \in Dispatchers : b # a => decision'[b] = decision[b]
  BY <1>1, DispatcherDuty DEF TypeOK
<1>3. p \notin Unsent /\ \A g \in Setups : trade[g] # "none" <=> trade'[g] # "none"
  BY DEF Unsent
<1> QED
  BY <1>1, <1>2, <1>3, OwnMove

(* The guard takes a new setup and leaves the broker alone. *)
LEMMA OwnDecision ==
  ASSUME TypeOK, Carries, OwnSetups, NEW a \in Dispatchers, GuardDecision(a)
  PROVE  OwnSetups'
PROOF
<1>0. a \in Threads
  BY DispatcherDuty
<1>1. ASSUME NEW g \in Setups, Detect(a, g) PROVE OwnSetups'
  <2>1. /\ g \notin offered /\ offered' = offered \cup {g}
        /\ at' = [at EXCEPT ![a] = "ramp"] /\ cur' = [cur EXCEPT ![a] = g]
        /\ UNCHANGED <<trade, expired, decision>> /\ at[a] = "idle"
    BY <1>1 DEF Detect, GoTo
  <2>2. g # NoSetup /\ g \notin expired /\ trade[g] = "none"
    BY <2>1, NoSetupAssumption DEF OwnSetups
  <2>3. /\ at'[a] = "ramp" /\ cur'[a] = g
        /\ \A b \in Dispatchers : b # a => at'[b] = at[b] /\ cur'[b] = cur[b] /\ cur[b] # g
    BY <1>0, <2>1, <2>2, DispatcherDuty DEF TypeOK, OwnSetups
  <2>4. ASSUME NEW b \in Dispatchers
        PROVE  /\ cur'[b] \in offered' \cup {NoSetup}
               /\ at'[b] # "idle" => cur'[b] \notin expired'
               /\ at'[b] \in Unsent => trade'[cur'[b]] = "none"
               /\ Noting(b)' => trade'[cur'[b]] # "none"
               /\ at'[b] = "flatten" => decision'[b] = "blocked"
    <3>1. CASE b = a
      BY <2>1, <2>2, <2>3, <3>1 DEF Noting
    <3>2. CASE b # a
      BY <2>1, <2>3, <3>2 DEF OwnSetups, Noting
    <3> QED
      BY <3>1, <3>2
  <2>5. ASSUME NEW b \in Dispatchers, NEW c \in Dispatchers, b # c, cur'[b] # NoSetup
        PROVE  cur'[b] # cur'[c]
    BY <2>3, <2>5 DEF OwnSetups
  <2>6. expired' \subseteq offered' /\ \A h \in Setups \ offered' : trade'[h] = "none"
    BY <2>1 DEF OwnSetups
  <2> QED
    BY <2>4, <2>5, <2>6 DEF OwnSetups
<1>2. CASE RampQty(a)
  BY <1>0, <1>2, OwnMove DEF RampQty, GoTo, worldVars, Unsent
<1>3. CASE CheckKill(a)
  <2>1. CASE GoTo(a, "group") /\ UNCHANGED <<decision, left>>
    BY <1>0, <1>3, <2>1, OwnMove DEF CheckKill, GoTo, worldVars, Unsent
  <2>2. CASE Refuse(a)
    BY <1>3, <2>2, OwnGiveUp DEF CheckKill, Refuse, GoTo, worldVars
  <2> QED
    BY <1>3, <2>1, <2>2 DEF CheckKill
<1>4. CASE PendingGroup(a)
  <2>1. CASE GoTo(a, "stats") /\ UNCHANGED <<decision, left>>
    BY <1>0, <1>4, <2>1, OwnMove DEF PendingGroup, GoTo, worldVars, Unsent
  <2>2. CASE Refuse(a)
    BY <1>4, <2>2, OwnGiveUp DEF PendingGroup, Refuse, GoTo, worldVars
  <2> QED
    BY <1>4, <2>1, <2>2 DEF PendingGroup
<1>5. CASE DayStats(a)
  <2>1. ASSUME NEW p \in {"latch day", "begin"}, GoTo(a, p), UNCHANGED <<decision, left>>
        PROVE  OwnSetups'
    BY <1>0, <1>5, <2>1, OwnMove DEF DayStats, GoTo, worldVars, Unsent
  <2>2. CASE Refuse(a)
    BY <1>5, <2>2, OwnGiveUp DEF DayStats, Refuse, GoTo, worldVars
  <2> QED
    BY <1>5, <2>1, <2>2 DEF DayStats
<1>6. ASSUME NEW kind \in {"day", "hard"}, Latch(a, kind) PROVE OwnSetups'
  <2>1. /\ decision' = [decision EXCEPT ![a] = "blocked"] /\ at' = [at EXCEPT ![a] = "flatten"]
        /\ UNCHANGED <<offered, expired, cur, trade>> /\ at[a] # "idle"
    <3>1. LatchOp[kind] # "idle"
      <4>1. CASE kind = "day"
        BY <4>1 DEF LatchOp
      <4>2. CASE kind = "hard"
        BY <4>2 DEF LatchOp
      <4> QED
        BY <4>1, <4>2
    <3> QED
      BY <1>6, <3>1 DEF Latch, Update, GoTo, worldVars
  <2> QED
    BY <2>1, OwnGiveUp
<1> QED
  BY <1>1, <1>2, <1>3, <1>4, <1>5, <1>6 DEF GuardDecision

(* Where a call of note() may leave its dispatcher. *)
LEMMA NotedPlace ==
  ASSUME TypeOK, NEW a \in Dispatchers, Noted(a)
  PROVE  /\ \E p \in {"note", "finish", "idle"} : at' = [at EXCEPT ![a] = p]
         /\ at'[a] \in {"note", "finish", "idle"}
         /\ at'[a] = "finish" => decision[a] = "sent"
PROOF
<1>1. a \in Threads
  BY DispatcherDuty
<1> DEFINE next == CASE left[a] > 1 -> "note"
                     [] left[a] = 1 /\ a = "AB" /\ decision[a] = "sent" -> "finish"
                     [] OTHER -> "idle"
<1>2. left[a] \in Int
  BY <1>1 DEF TypeOK
<1>3. next \in {"note", "finish", "idle"} /\ (next = "finish" => decision[a] = "sent")
  BY <1>2
<1>4. at' = [at EXCEPT ![a] = next]
  BY DEF Noted, GoTo
<1>5. at'[a] = next
  BY <1>1, <1>4 DEF TypeOK
<1> QED
  BY <1>3, <1>4, <1>5

(* The relay makes the dispatcher's own setup known, nothing else does. *)
LEMMA OwnDispatch ==
  ASSUME TypeOK, Carries, OwnSetups, NEW a \in Dispatchers, Dispatch(a)
  PROVE  OwnSetups'
PROOF
<1>0. a \in Threads
  BY DispatcherDuty
<1>1. CASE BeginSiblingBatch(a)
  <2>1. CASE Refuse(a)
    BY <1>1, <2>1, OwnGiveUp DEF BeginSiblingBatch, Update, Refuse, GoTo, worldVars
  <2>2. CASE GoTo(a, "send") /\ UNCHANGED <<decision, left>>
    BY <1>0, <1>1, <2>2, OwnMove DEF BeginSiblingBatch, Update, GoTo, worldVars, Unsent
  <2> QED
    BY <1>1, <2>1, <2>2 DEF BeginSiblingBatch
<1>2. ASSUME NEW reply \in Replies, Send(a, reply) PROVE OwnSetups'
  <2>1. /\ UNCHANGED <<offered, expired, cur>> /\ at[a] = "send"
        /\ decision' = [decision EXCEPT ![a] = IF reply = "accepted" THEN "sent" ELSE "blocked"]
    BY <1>2 DEF Send
  <2>2. cur[a] \in Setups /\ trade[cur[a]] = "none" /\ cur[a] \in offered
    BY <2>1, NoSetupAssumption DEF Carries, OwnSetups, Unsent
  <2>3. PICK p \in {"touch", "finish"} : at' = [at EXCEPT ![a] = p]
    BY <1>2 DEF Send, GoTo
  <2>4. /\ \A g \in Setups : g # cur[a] => trade'[g] = trade[g]
        /\ decision'[a] = "sent" => trade'[cur[a]] = "live"
    BY <1>0, <1>2, <2>2 DEF Send, TypeOK
  <2>5. /\ at'[a] = p
        /\ \A b \in Dispatchers : b # a => at'[b] = at[b] /\ decision'[b] = decision[b] /\ cur[b] # cur[a]
    BY <1>0, <2>1, <2>2, <2>3, NoSetupAssumption, DispatcherDuty DEF TypeOK, OwnSetups
  <2>6. ASSUME NEW b \in Dispatchers
        PROVE  /\ at'[b] # "idle" => cur[b] \notin expired
               /\ at'[b] \in Unsent => trade'[cur[b]] = "none"
               /\ Noting(b)' => trade'[cur[b]] # "none"
               /\ at'[b] = "flatten" => decision'[b] = "blocked"
    <3>1. CASE b = a
      BY <2>1, <2>2, <2>4, <2>5, <3>1 DEF OwnSetups, Unsent, Noting
    <3>2. CASE b # a
      <4>1. at'[b] # "idle" => cur[b] \in Setups /\ cur[b] # cur[a]
        BY <2>5, <3>2 DEF Carries
      <4>2. at'[b] # "idle" => trade'[cur[b]] = trade[cur[b]]
        BY <2>4, <4>1
      <4> QED
        BY <2>1, <2>5, <3>2, <4>2 DEF OwnSetups, Unsent, Noting
    <3> QED
      BY <3>1, <3>2
  <2>7. \A g \in Setups \ offered : trade'[g] = "none"
    BY <2>2, <2>4 DEF OwnSetups
  <2> QED
    BY <2>1, <2>6, <2>7 DEF OwnSetups
<1>3. CASE TouchSiblingBatch(a)
  <2>1. /\ UNCHANGED <<offered, expired, cur, trade, decision>> /\ at[a] = "touch"
        /\ at' = [at EXCEPT ![a] = IF decision[a] = "sent" THEN "note" ELSE "rollback"]
    BY <1>3 DEF TouchSiblingBatch, Update, GoTo, worldVars
  <2>2. CASE decision[a] = "sent"
    BY <1>0, <2>1, <2>2, OwnMove DEF Unsent, Noting
  <2>3. CASE decision[a] # "sent"
    BY <1>0, <2>1, <2>3, OwnMove DEF Unsent, Noting
  <2> QED
    BY <2>2, <2>3
<1>4. CASE RollbackSiblingBatch(a)
  <2>1. UNCHANGED <<offered, expired, cur, decision>> /\ at[a] = "rollback"
    BY <1>4 DEF RollbackSiblingBatch
  <2>2. PICK p \in {"finish", "uncertain"} : at' = [at EXCEPT ![a] = p]
    BY <1>4 DEF RollbackSiblingBatch, GoTo
  <2>3. cur[a] \in Setups
    BY <2>1 DEF Carries
  <2>4. \A g \in Setups : /\ trade[g] # "none" => trade'[g] # "none"
                          /\ trade[g] = "none" /\ trade'[g] # "none" => g = cur[a]
    BY <1>4, <2>3 DEF RollbackSiblingBatch, TypeOK
  <2>5. /\ p \notin Unsent /\ p # "flatten" /\ p \notin {"touch", "note", "count"} /\ at[a] # "idle"
        /\ \A b \in Dispatchers : b # a => decision'[b] = decision[b]
    BY <2>1 DEF Unsent
  <2> QED
    BY <1>0, <2>1, <2>2, <2>4, <2>5, OwnMove
<1>5. CASE RollbackUncertain(a)
  BY <1>0, <1>5, OwnMove DEF RollbackUncertain, Update, GoTo, worldVars, Unsent
<1>6. CASE FinishSiblingBatch(a)
  <2>1. /\ UNCHANGED <<offered, expired, cur, trade, decision>> /\ at[a] = "finish"
        /\ at' = [at EXCEPT ![a] = IF decision[a] = "sent" THEN "idle" ELSE "note"]
    BY <1>6 DEF FinishSiblingBatch, Update, GoTo, worldVars
  <2>2. CASE decision[a] = "sent"
    BY <1>0, <2>1, <2>2, OwnMove DEF Unsent
  <2>3. CASE decision[a] # "sent"
    BY <1>0, <2>1, <2>3, OwnMove DEF Unsent
  <2> QED
    BY <2>2, <2>3
<1>7. CASE NoteLoad(a)
  BY <1>7 DEF NoteLoad, OwnSetups, Noting, worldVars
<1>8. CASE NoteSave(a) \/ CountSent(a)
  <2>1. UNCHANGED <<offered, expired, cur, trade, decision>> /\ at[a] \in {"note", "count"}
    BY <1>8 DEF NoteSave, CountSent, Update, worldVars
  <2>2. CASE GoTo(a, "count") /\ decision[a] = "sent"
    BY <1>0, <2>1, <2>2, OwnMove DEF GoTo, Unsent, Noting
  <2>3. CASE Noted(a)
    <3>1. PICK p \in {"note", "finish", "idle"} : at' = [at EXCEPT ![a] = p]
      BY <2>3, NotedPlace
    <3> QED
      BY <1>0, <2>1, <3>1, OwnMove DEF Unsent, Noting
  <2> QED
    BY <1>8, <2>2, <2>3 DEF NoteSave, CountSent
<1> QED
  BY <1>1, <1>2, <1>3, <1>4, <1>5, <1>6, <1>7, <1>8 DEF Dispatch

(* The heartbeat, the operator, the market and a restart take no setup. *)
LEMMA OwnService ==
  ASSUME TypeOK, Carries, Duties, OwnSetups, Service
  PROVE  OwnSetups'
PROOF
<1>1. ASSUME NEW t \in {"hb", "op"}, NEW op, Start(t, op) PROVE OwnSetups'
  BY <1>1, OwnMove, DispatcherDuty DEF Start, GoTo, worldVars, Threads
<1>2. ASSUME NEW t \in Threads, Load(t) PROVE OwnSetups'
  BY <1>2 DEF Load, OwnSetups, Noting, worldVars
<1>3. ASSUME NEW t \in Threads, Beat(t) PROVE OwnSetups'
  BY <1>3, OwnMove, DispatcherDuty DEF Beat, Update, GoTo, worldVars, Unsent
<1>4. ASSUME NEW t \in Threads, Halt(t) \/ Arm(t) \/ EodFlattenCheck(t) PROVE OwnSetups'
  <2>1. /\ UNCHANGED <<offered, expired, cur, trade, decision>> /\ at[t] \in {"halt", "arm", "eod"}
        /\ \E p : at' = [at EXCEPT ![t] = p]
    BY <1>4 DEF Halt, Arm, EodFlattenCheck, Update, GoTo, worldVars
  <2>2. t \notin Dispatchers
    BY <2>1, DispatcherDuty DEF Duties
  <2> QED
    BY <2>1, <2>2, OwnMove
<1>5. ASSUME NEW t \in Threads, FlattenAll(t) PROVE OwnSetups'
  <2>1. UNCHANGED <<offered, expired, cur, decision>> /\ at[t] = "flatten"
    BY <1>5 DEF FlattenAll
  <2>2. \A g \in Setups : trade'[g] = "none" <=> trade[g] = "none"
    BY <1>5 DEF FlattenAll, Live
  <2>3. CASE t \in Dispatchers
    <3>1. decision[t] # "sent"
      BY <2>1, <2>3 DEF OwnSetups
    <3>2. at' = [at EXCEPT ![t] = "note"]
      BY <1>5, <2>3 DEF FlattenAll, GoTo
    <3>3. "note" \notin Unsent /\ at[t] # "idle" /\ decision'[t] # "sent"
          /\ \A b \in Dispatchers : b # t => decision'[b] = decision[b]
      BY <2>1, <3>1 DEF Unsent
    <3> QED
      BY <2>1, <2>2, <2>3, <3>2, <3>3, OwnMove
  <2>4. CASE t \notin Dispatchers
    BY <1>5, <2>1, <2>2, <2>4, OwnMove DEF FlattenAll, GoTo
  <2> QED
    BY <2>3, <2>4
<1> QED
  BY <1>1, <1>2, <1>3, <1>4, <1>5 DEF Service, Heartbeat, Request

(* Every setup stays one dispatcher's own. *)
LEMMA OwnKept ==
  ASSUME TypeOK, Carries, Duties, OwnSetups, [Next]_vars
  PROVE  OwnSetups'
PROOF
<1>1. ASSUME NEW g \in Setups, Resolve(g) PROVE OwnSetups'
  <2>1. UNCHANGED <<at, cur, decision, offered, expired>> /\ trade[g] = "live"
        /\ \A h \in Setups : trade'[h] = "none" <=> trade[h] = "none"
    BY <1>1 DEF Resolve, localVars, TypeOK
  <2>2. \A a \in Dispatchers : at[a] # "idle" => cur[a] \in Setups
    BY DEF Carries
  <2> QED
    BY <2>1, <2>2 DEF OwnSetups, Noting, Unsent
<1>2. ASSUME NEW g \in Setups, Expire(g) PROVE OwnSetups'
  BY <1>2 DEF Expire, localVars, OwnSetups, Noting
<1>3. CASE NewDay
  BY <1>3 DEF NewDay, localVars, OwnSetups, Noting
<1>4. CASE Crash
  <2>1. \A a \in Dispatchers : at'[a] = "idle" /\ cur'[a] = NoSetup
    BY <1>4, DispatcherDuty DEF Crash
  <2> QED
    BY <1>4, <2>1 DEF Crash, OwnSetups, Noting, Unsent
<1>5. CASE UNCHANGED vars
  BY <1>5 DEF vars, localVars, worldVars, OwnSetups, Noting
<1> QED
  BY <1>1, <1>2, <1>3, <1>4, <1>5, OwnDecision, OwnDispatch, OwnService DEF Next, World

(* What was sent stays known, and nothing settled opens again. *)
LEMMA TradeStep ==
  ASSUME TypeOK, Carries, OwnSetups, [Next]_vars, NEW g \in Setups
  PROVE  /\ trade[g] # "none" => trade'[g] # "none"
         /\ trade'[g] \in {"none", "live", "loss"} => trade[g] \in {"none", "live", "loss"}
PROOF
<1>1. ASSUME NEW a \in Dispatchers, GuardDecision(a) PROVE trade' = trade
  BY <1>1 DEF GuardDecision, Detect, RampQty, CheckKill, PendingGroup, DayStats, Latch, Update, worldVars
<1>2. ASSUME NEW a \in Dispatchers, NEW reply \in Replies, Send(a, reply)
      PROVE  trade'[g] # trade[g] => trade[g] = "none" /\ trade'[g] = "live"
  <2>1. cur[a] \in Setups /\ trade[cur[a]] = "none"
    BY <1>2 DEF Send, Carries, OwnSetups, Unsent
  <2> QED
    BY <1>2, <2>1 DEF Send, TypeOK
<1>3. ASSUME NEW a \in Dispatchers, RollbackSiblingBatch(a) PROVE trade'[g] \in {trade[g], "flat"}
  BY <1>3 DEF RollbackSiblingBatch, TypeOK
<1>4. ASSUME NEW a \in Dispatchers, Dispatch(a), ~RollbackSiblingBatch(a),
             ~\E reply \in Replies : Send(a, reply)
      PROVE  trade' = trade
  BY <1>4 DEF Dispatch, BeginSiblingBatch, TouchSiblingBatch, RollbackUncertain, FinishSiblingBatch,
              NoteLoad, NoteSave, CountSent, Update, worldVars
<1>5. ASSUME NEW t \in Threads, FlattenAll(t) PROVE trade'[g] \in {trade[g], "flat"}
  BY <1>5 DEF FlattenAll
<1>6. ASSUME Service, \A t \in Threads : ~FlattenAll(t) PROVE trade' = trade
  BY <1>6 DEF Service, Heartbeat, Request, Start, Load, Beat, Halt, Arm, EodFlattenCheck, Update, worldVars
<1>7. ASSUME NEW h \in Setups, Resolve(h)
      PROVE  trade'[g] # trade[g] => trade[g] = "live" /\ trade'[g] # "none"
  BY <1>7 DEF Resolve, TypeOK
<1>8. ASSUME World, \A h \in Setups : ~Resolve(h) PROVE trade' = trade
  BY <1>8 DEF World, Expire, NewDay, Crash
<1>9. CASE UNCHANGED vars
  BY <1>9 DEF vars, worldVars
<1> QED
  BY <1>1, <1>2, <1>3, <1>4, <1>5, <1>6, <1>7, <1>8, <1>9 DEF Next

-----------------------------------------------------------------------------
(* The book: its rows, and those a thread has loaded, are of setups the broker  *)
(* knows, with no date to come; and a thread that has loaded a file is at the   *)
(* call that writes it back.                                                    *)
Dated(B) == \A r \in B : r[2] <= day /\ trade[r[1]] # "none"
BooksDated ==
  /\ Dated(book)
  /\ \A t \in Threads : Dated(rows[t])
  /\ \A t \in Threads : loaded[t] => at[t] \in Updates \cup {"note"}

(* Days only follow one another. *)
LEMMA DayStep ==
  ASSUME TypeOK, [Next]_vars
  PROVE  /\ day \in Nat /\ day' \in Nat
         /\ day' = day \/ (NewDay /\ day' = day + 1)
PROOF
<1>1. ASSUME NEW a \in Dispatchers, GuardDecision(a) \/ Dispatch(a) PROVE day' = day
  BY <1>1 DEF GuardDecision, Dispatch, Detect, RampQty, CheckKill, PendingGroup, DayStats, Latch,
              BeginSiblingBatch, Send, TouchSiblingBatch, RollbackSiblingBatch, RollbackUncertain,
              FinishSiblingBatch, NoteLoad, NoteSave, CountSent, Update, worldVars
<1>2. ASSUME Service PROVE day' = day
  BY <1>2 DEF Service, Heartbeat, Request, Start, Load, Beat, Halt, Arm, EodFlattenCheck,
              FlattenAll, Update, worldVars
<1>3. ASSUME World PROVE day' = day \/ NewDay
  BY <1>3 DEF World, Resolve, Expire, NewDay, Crash
<1>4. ASSUME UNCHANGED vars PROVE day' = day
  BY <1>4 DEF vars, worldVars
<1>5. day \in Nat
  BY GuardStateAssumption DEF TypeOK, Days
<1> QED
  BY <1>1, <1>2, <1>3, <1>4, <1>5 DEF Next, NewDay

(* A book that was well dated stays so. *)
LEMMA DatedKept ==
  ASSUME TypeOK, Carries, OwnSetups, [Next]_vars, NEW B \in SUBSET Rows, Dated(B)
  PROVE  \A r \in B : r[2] <= day' /\ trade'[r[1]] # "none"
PROOF
<1> SUFFICES ASSUME NEW r \in B PROVE r[2] <= day' /\ trade'[r[1]] # "none"
  OBVIOUS
<1>1. r[1] \in Setups /\ r[2] \in Nat /\ r[2] <= day /\ trade[r[1]] # "none"
  BY GuardStateAssumption DEF Rows, Days, Dated
<1> QED
  BY <1>1, TradeStep, DayStep

(* The rows of the book and of every thread come from the book and from note(). *)
LEMMA RowsStep ==
  ASSUME TypeOK, [Next]_vars
  PROVE  /\ book' = book \/ \E a \in Dispatchers : NoteSave(a)
         /\ \A t \in Threads : rows'[t] \in {rows[t], book, {}}
PROOF
<1>1. ASSUME NEW a \in Dispatchers, GuardDecision(a) PROVE book' = book /\ rows' = rows
  BY <1>1 DEF GuardDecision, Detect, RampQty, CheckKill, PendingGroup, DayStats, Latch, Update
<1>2. ASSUME NEW a \in Dispatchers, Dispatch(a), ~NoteSave(a), ~NoteLoad(a)
      PROVE  book' = book /\ rows' = rows
  BY <1>2 DEF Dispatch, BeginSiblingBatch, Send, TouchSiblingBatch, RollbackSiblingBatch,
              RollbackUncertain, FinishSiblingBatch, CountSent, Update
<1>3. ASSUME NEW a \in Dispatchers, NoteLoad(a)
      PROVE  book' = book /\ \A t \in Threads : rows'[t] \in {rows[t], book}
  BY <1>3 DEF NoteLoad, TypeOK
<1>4. ASSUME NEW a \in Dispatchers, NoteSave(a) PROVE \A t \in Threads : rows'[t] \in {rows[t], {}}
  BY <1>4 DEF NoteSave, TypeOK
<1>5. CASE Service
  BY <1>5 DEF Service, Heartbeat, Request, Start, Load, Beat, Halt, Arm, EodFlattenCheck,
              FlattenAll, Update
<1>6. CASE World
  BY <1>6 DEF World, Resolve, Expire, NewDay, Crash, localVars
<1>7. CASE UNCHANGED vars
  BY <1>7 DEF vars, localVars
<1> QED
  BY <1>1, <1>2, <1>3, <1>4, <1>5, <1>6, <1>7 DEF Next

(* A thread loads at a call that writes, and leaves it with nothing loaded. *)
LEMMA LoadedKept ==
  ASSUME TypeOK, BooksDated, [Next]_vars
  PROVE  \A t \in Threads : loaded'[t] => at'[t] \in Updates \cup {"note"}
PROOF
<1> SUFFICES ASSUME NEW t \in Threads, loaded'[t] PROVE at'[t] \in Updates \cup {"note"}
  OBVIOUS
<1>0. loaded[t] => at[t] \in Updates \cup {"note"}
  BY DEF BooksDated
<1>1. ASSUME NEW u \in Threads, NEW op, NEW new, NEW p, Update(u, op, new), at' = [at EXCEPT ![u] = p]
      PROVE  at'[t] \in Updates \cup {"note"}
  BY <1>0, <1>1 DEF Update, TypeOK
<1>2. ASSUME NEW u \in Threads, NEW p, at' = [at EXCEPT ![u] = p], loaded' = loaded,
             at[u] \notin Updates \cup {"note"}
      PROVE  at'[t] \in Updates \cup {"note"}
  BY <1>0, <1>2 DEF TypeOK
<1>3. ASSUME NEW a \in Dispatchers, GuardDecision(a) PROVE at'[t] \in Updates \cup {"note"}
  <2>1. a \in Threads
    BY DispatcherDuty
  <2>2. CASE \E kind \in {"day", "hard"} : Latch(a, kind)
    BY <1>1, <2>1, <2>2 DEF Latch, GoTo
  <2>3. \/ /\ loaded' = loaded /\ at[a] \in {"idle", "ramp", "check", "group", "stats"}
           /\ \E p \in {"ramp", "beat", "group", "stats", "latch day", "begin", "note"} : at' = [at EXCEPT ![a] = p]
        \/ \E kind \in {"day", "hard"} : Latch(a, kind)
    BY <1>3 DEF GuardDecision, Detect, RampQty, CheckKill, PendingGroup, DayStats, Refuse, GoTo
  <2>4. {"idle", "ramp", "check", "group", "stats"} \cap (Updates \cup {"note"}) = {}
    BY DEF Updates, Locked
  <2> QED
    BY <1>2, <2>1, <2>2, <2>3, <2>4
<1>4. ASSUME NEW a \in Dispatchers, Dispatch(a) PROVE at'[t] \in Updates \cup {"note"}
  <2>1. a \in Threads
    BY DispatcherDuty
  <2>2. CASE BeginSiblingBatch(a)
    BY <1>1, <2>1, <2>2 DEF BeginSiblingBatch, Refuse, GoTo
  <2>3. CASE TouchSiblingBatch(a) \/ RollbackUncertain(a) \/ FinishSiblingBatch(a)
    BY <1>1, <2>1, <2>3 DEF TouchSiblingBatch, RollbackUncertain, FinishSiblingBatch, GoTo
  <2>4. CASE CountSent(a)
    <3>1. PICK p : at' = [at EXCEPT ![a] = p]
      BY <2>4, NotedPlace DEF CountSent
    <3> QED
      BY <1>1, <2>1, <2>4, <3>1 DEF CountSent
  <2>5. ASSUME at[a] \in {"send", "rollback"}, loaded' = loaded, NEW p, at' = [at EXCEPT ![a] = p]
        PROVE  at'[t] \in Updates \cup {"note"}
    <3>1. at[a] \notin Updates \cup {"note"}
      BY <2>5 DEF Updates, Locked
    <3> QED
      BY <1>2, <2>1, <2>5, <3>1
  <2>6. CASE \E reply \in Replies : Send(a, reply)
    BY <2>5, <2>6 DEF Send, GoTo
  <2>7. CASE RollbackSiblingBatch(a)
    BY <2>5, <2>7 DEF RollbackSiblingBatch, GoTo
  <2>8. CASE NoteLoad(a)
    BY <1>0, <2>1, <2>8 DEF NoteLoad, TypeOK
  <2>9. CASE NoteSave(a)
    <3>1. PICK p : at' = [at EXCEPT ![a] = p]
      BY <2>9, NotedPlace DEF NoteSave, GoTo
    <3>2. loaded' = [loaded EXCEPT ![a] = FALSE]
      BY <2>9 DEF NoteSave
    <3> QED
      BY <1>0, <2>1, <3>1, <3>2 DEF TypeOK
  <2> QED
    BY <1>4, <2>2, <2>3, <2>4, <2>6, <2>7, <2>8, <2>9 DEF Dispatch
<1>5. CASE Service
  <2>1. ASSUME NEW u \in Threads, Beat(u) \/ Halt(u) \/ Arm(u) PROVE at'[t] \in Updates \cup {"note"}
    BY <1>1, <2>1 DEF Beat, Halt, Arm, GoTo
  <2>2. ASSUME NEW u \in Threads, EodFlattenCheck(u) PROVE at'[t] \in Updates \cup {"note"}
    BY <1>1, <2>2 DEF EodFlattenCheck, GoTo
  <2>3. ASSUME NEW u \in Threads, Load(u) PROVE at'[t] \in Updates \cup {"note"}
    BY <1>0, <2>3 DEF Load, TypeOK
  <2>4. "idle" \notin Updates \cup {"note"} /\ "flatten" \notin Updates \cup {"note"}
    BY DEF Updates, Locked
  <2>5. ASSUME NEW u \in Threads, FlattenAll(u) PROVE at'[t] \in Updates \cup {"note"}
    BY <1>2, <2>4, <2>5 DEF FlattenAll, GoTo
  <2>6. ASSUME NEW u \in Threads, NEW op, Start(u, op) PROVE at'[t] \in Updates \cup {"note"}
    BY <1>2, <2>4, <2>6 DEF Start, GoTo
  <2>7. "hb" \in Threads /\ "op" \in Threads
    BY DEF Threads
  <2> QED
    BY <1>5, <2>1, <2>2, <2>3, <2>5, <2>6, <2>7 DEF Service, Heartbeat, Request
<1>6. CASE Crash
  BY <1>6 DEF Crash
<1>7. CASE at' = at /\ loaded' = loaded
  BY <1>0, <1>7
<1>8. CASE NewDay \/ \E g \in Setups : Resolve(g) \/ Expire(g)
  BY <1>7, <1>8 DEF NewDay, Resolve, Expire, localVars
<1>9. CASE UNCHANGED vars
  BY <1>7, <1>9 DEF vars, localVars
<1> QED
  BY <1>3, <1>4, <1>5, <1>6, <1>8, <1>9 DEF Next, World

(* The books stay well dated: note() records only what was sent, on the day.    *)
LEMMA BooksKept ==
  ASSUME TypeOK, Carries, OwnSetups, BooksDated, [Next]_vars
  PROVE  BooksDated'
PROOF
<1>1. book \in SUBSET Rows /\ \A t \in Threads : rows[t] \in SUBSET Rows
  BY DEF TypeOK
<1>2. Dated(book)'
  <2>1. CASE book' = book
    BY <1>1, <2>1, DatedKept DEF BooksDated, Dated
  <2>2. ASSUME NEW a \in Dispatchers, NoteSave(a) PROVE Dated(book)'
    <3>1. a \in Threads /\ at[a] = "note" /\ day' = day /\ trade' = trade
      BY <2>2, DispatcherDuty DEF NoteSave, worldVars
    <3>2. \A r \in rows[a] : r[2] <= day' /\ trade'[r[1]] # "none"
      BY <1>1, <3>1, DatedKept DEF BooksDated
    <3>3. decision[a] = "sent" => trade[cur[a]] # "none"
      BY <3>1 DEF OwnSetups, Noting
    <3>4. day <= day
      BY DayStep
    <3> QED
      BY <2>2, <3>1, <3>2, <3>3, <3>4 DEF NoteSave, Dated
  <2> QED
    BY <2>1, <2>2, RowsStep
<1>3. ASSUME NEW t \in Threads PROVE Dated(rows[t])'
  <2>1. rows'[t] \in {rows[t], book, {}}
    BY RowsStep
  <2> QED
    BY <1>1, <2>1, DatedKept DEF BooksDated, Dated
<1> QED
  BY <1>2, <1>3, LoadedKept DEF BooksDated

-----------------------------------------------------------------------------
(* Counting. *)
AtMost(S, n) == IsFiniteSet(S) /\ Cardinality(S) <= n

LEMMA AtMostSubset ==
  ASSUME NEW S, NEW T \in SUBSET S, NEW n \in Int, AtMost(S, n)
  PROVE  AtMost(T, n)
PROOF
<1>1. IsFiniteSet(S) /\ Cardinality(S) <= n
  BY DEF AtMost
<1>2. IsFiniteSet(T) /\ Cardinality(T) <= Cardinality(S)
  BY <1>1, FS_Subset
<1>3. Cardinality(S) \in Nat /\ Cardinality(T) \in Nat
  BY <1>1, <1>2, FS_CardinalityType
<1> QED
  BY <1>1, <1>2, <1>3 DEF AtMost

LEMMA AtMostUnion ==
  ASSUME NEW S, NEW T, NEW m \in Int, NEW n \in Int, AtMost(S, m), AtMost(T, n)
  PROVE  AtMost(S \cup T, m + n)
PROOF
<1>1. IsFiniteSet(S) /\ IsFiniteSet(T) /\ Cardinality(S) <= m /\ Cardinality(T) <= n
  BY DEF AtMost
<1>2. /\ IsFiniteSet(S \cup T)
      /\ Cardinality(S \cup T) = Cardinality(S) + Cardinality(T) - Cardinality(S \cap T)
  BY <1>1, FS_Union
<1>3. Cardinality(S) \in Nat /\ Cardinality(T) \in Nat /\ Cardinality(S \cap T) \in Nat
  BY <1>1, FS_CardinalityType, FS_Intersection
<1> QED
  BY <1>1, <1>2, <1>3 DEF AtMost

LEMMA SingletonCount ==
  ASSUME NEW x
  PROVE  IsFiniteSet({x}) /\ Cardinality({x}) = 1
  BY FS_Singleton, Zenon

LEMMA AtMostSmall ==
  /\ AtMost({}, 0)
  /\ \A x : AtMost({x}, 1)
PROOF
<1>1. IsFiniteSet({}) /\ Cardinality({}) = 0
  BY FS_EmptySet, Zenon
<1>2. AtMost({}, 0)
  BY <1>1 DEF AtMost
<1>3. ASSUME NEW x PROVE AtMost({x}, 1)
  <2>1. IsFiniteSet({x}) /\ Cardinality({x}) = 1
    BY SingletonCount
  <2> QED
    BY <2>1 DEF AtMost
<1> QED
  BY <1>2, <1>3

LEMMA AtMostWeaker ==
  ASSUME NEW S, NEW m \in Int, NEW n \in Int, m <= n, AtMost(S, m)
  PROVE  AtMost(S, n)
PROOF
<1>1. Cardinality(S) \in Nat
  BY FS_CardinalityType DEF AtMost
<1> QED
  BY <1>1 DEF AtMost

(* There are one or two dispatchers. *)
LEMMA DispatcherCount ==
  /\ Cardinality(Dispatchers) \in {1, 2}
  /\ \A a, b \in Dispatchers : a # b => Cardinality(Dispatchers) = 2 /\ Dispatchers = {a, b}
  /\ \A a \in Dispatchers : Cardinality(Dispatchers) = 1 => Dispatchers = {a}
PROOF
<1>1. /\ IsFiniteSet({"AB"}) /\ Cardinality({"AB"}) = 1
      /\ Cardinality({"CO"}) = 1
  BY SingletonCount
<1>2. Cardinality({"AB", "CO"}) = 2
  <2>1. {"AB", "CO"} = {"AB"} \cup {"CO"} /\ "CO" \notin {"AB"}
    OBVIOUS
  <2>2. Cardinality({"AB"} \cup {"CO"}) = Cardinality({"AB"}) + 1
    BY <1>1, <2>1, FS_AddElement
  <2> QED
    BY <1>1, <2>1, <2>2
<1>3. Dispatchers = {"AB"} \/ Dispatchers = {"CO"} \/ Dispatchers = {"AB", "CO"}
  BY GuardStateAssumption
<1>4. CASE Dispatchers = {"AB"}
  BY <1>1, <1>4
<1>5. CASE Dispatchers = {"CO"}
  BY <1>1, <1>5
<1>6. CASE Dispatchers = {"AB", "CO"}
  BY <1>2, <1>6
<1> QED
  BY <1>3, <1>4, <1>5, <1>6

(* Something of each dispatcher: no more than there are dispatchers. *)
LEMMA OnePerDispatcher ==
  ASSUME NEW f, NEW S \in SUBSET {f[a] : a \in Dispatchers}
  PROVE  AtMost(S, Cardinality(Dispatchers))
PROOF
<1>1. PICK a : a \in Dispatchers
  BY GuardStateAssumption
<1>2. CASE Cardinality(Dispatchers) = 1
  <2>1. S \in SUBSET {f[a]}
    BY <1>1, <1>2, DispatcherCount
  <2>2. AtMost({f[a]}, 1)
    BY AtMostSmall
  <2>3. AtMost(S, 1)
    BY <2>1, <2>2, AtMostSubset
  <2> QED
    BY <1>2, <2>3
<1>3. CASE Cardinality(Dispatchers) = 2
  <2>1. PICK b \in Dispatchers : b # a
    <3>1. Dispatchers # {a}
      BY <1>3, SingletonCount
    <3> QED
      BY <1>1, <3>1
  <2>2. Dispatchers = {a, b}
    BY <1>1, <2>1, DispatcherCount
  <2>3. S \in SUBSET ({f[a]} \cup {f[b]})
    BY <2>2
  <2>4. AtMost({f[a]}, 1) /\ AtMost({f[b]}, 1)
    BY AtMostSmall
  <2>5. AtMost({f[a]} \cup {f[b]}, 1 + 1)
    BY <2>4, AtMostUnion
  <2>6. AtMost(S, 1 + 1)
    BY <2>3, <2>5, AtMostSubset
  <2> QED
    BY <1>3, <2>6
<1> QED
  BY <1>2, <1>3, DispatcherCount

-----------------------------------------------------------------------------
(* The loss limit.  A dispatcher that has passed the limit's check may still    *)
(* add a row.  The rows of a day that are, or may become, losses, together with *)
(* those a thread is going to add, stay within the limit plus one for every     *)
(* further dispatcher, in the book and in what each thread would make of it:    *)
(* of two versions of the book, the one about to be written is either within    *)
(* the limit or at most one row ahead of the other (Near).                      *)
Passed(a) == at[a] \in {"begin", "send"} \/ Noting(a)
Risk(B, d) == {r \in B : r[2] = d /\ trade[r[1]] \in {"none", "live", "loss"}}
Own(a) == IF Passed(a) THEN {<<cur[a], day>>} ELSE {}
Owns == UNION {Own(a) : a \in Dispatchers}
NoteLoaded(a) == at[a] = "note" /\ loaded[a]
Going(a)  == (IF NoteLoaded(a) THEN rows[a] ELSE book) \cup Own(a)
Coming(a) == IF NoteLoaded(a) THEN rows[a] \cup Own(a) ELSE book
Near(B, C) == AtMost(Risk(B, day), DayLossN) \/ AtMost(Risk(B, day) \ C, 1)
Cap == DayLossN + Cardinality(Dispatchers) - 1
LossBound ==
  /\ \A a, b \in Dispatchers : a # b => Near(Going(a), Coming(b))
  /\ \A a \in Dispatchers, d \in Days : AtMost(Risk(Going(a) \cup Owns, d), Cap)
  /\ \A d \in Days : AtMost(Risk(book \cup Owns, d), Cap)
  /\ DayLossN = 0 => \A a \in Dispatchers : ~Passed(a)

(* The versions of the book are sets of rows. *)
LEMMA VersionsType ==
  ASSUME TypeOK, Carries
  PROVE  /\ Owns \subseteq Rows
         /\ \A a \in Dispatchers : Own(a) \subseteq Owns /\ Going(a) \subseteq Rows /\ Coming(a) \subseteq Rows
         /\ Cap \in Nat /\ DayLossN \in Nat /\ day \in Days /\ book \subseteq Rows
PROOF
<1>1. ASSUME NEW a \in Dispatchers PROVE Own(a) \subseteq Rows
  BY DEF Own, Passed, Noting, Carries, TypeOK, Rows
<1>2. ASSUME NEW a \in Dispatchers
      PROVE  Own(a) \subseteq Owns /\ Going(a) \subseteq Rows /\ Coming(a) \subseteq Rows
  <2>1. rows[a] \subseteq Rows /\ book \subseteq Rows
    BY DispatcherDuty DEF TypeOK
  <2> QED
    BY <1>1, <2>1 DEF Owns, Going, Coming
<1>3. Owns \subseteq Rows
  BY <1>1 DEF Owns
<1>4. Cap \in Nat
  BY GuardStateAssumption, DispatcherCount DEF Cap
<1> QED
  BY <1>2, <1>3, <1>4, GuardStateAssumption DEF TypeOK

(* Fewer rows, or later in the day, are no more at risk. *)
LEMMA RiskStep ==
  ASSUME TypeOK, Carries, OwnSetups, [Next]_vars,
         NEW B \in SUBSET Rows, NEW C \in SUBSET B, NEW d
  PROVE  {r \in C : r[2] = d /\ trade'[r[1]] \in {"none", "live", "loss"}} \in SUBSET Risk(B, d)
PROOF
<1>1. ASSUME NEW r \in C, trade'[r[1]] \in {"none", "live", "loss"}
      PROVE  trade[r[1]] \in {"none", "live", "loss"}
  <2>1. r[1] \in Setups
    BY DEF Rows
  <2> QED
    BY <1>1, <2>1, TradeStep
<1> QED
  BY <1>1 DEF Risk

(* At most one row of the day is a dispatcher's own. *)
LEMMA OwnRows == \A x \in Dispatchers : AtMost(Own(x), 1)
PROOF
<1>1. ASSUME NEW a \in Dispatchers PROVE AtMost(Own(a), 1)
  <2>1. AtMost({<<cur[a], day>>}, 1)
    BY AtMostSmall
  <2>2. Own(a) \in SUBSET {<<cur[a], day>>}
    BY DEF Own
  <2> QED
    BY <2>1, <2>2, AtMostSubset
<1> QED
  BY <1>1

LEMMA OwnCount == AtMost(Owns, Cardinality(Dispatchers))
PROOF
<1> DEFINE f == [a \in Dispatchers |-> <<cur[a], day>>]
<1>1. Owns \in SUBSET {f[a] : a \in Dispatchers}
  BY DEF Owns, Own
<1> HIDE DEF f
<1> QED
  BY <1>1, OnePerDispatcher

(* Two versions of the book of which one is the other with a row added. *)
LEMMA NearOwn ==
  ASSUME NEW B, NEW a \in Dispatchers
  PROVE  Near(B \cup Own(a), B)
PROOF
<1>1. Risk(B \cup Own(a), day) \ B \in SUBSET Own(a)
  BY DEF Risk
<1>2. AtMost(Own(a), 1)
  BY OwnRows
<1>3. AtMost(Risk(B \cup Own(a), day) \ B, 1)
  BY <1>1, <1>2, AtMostSubset
<1> QED
  BY <1>3 DEF Near

(* A dispatcher that has not loaded the book is near the one that is there. *)
LEMMA NearBook == \A x \in Dispatchers : Near(book \cup Own(x), book)
  BY NearOwn

(* A step that leaves the book and the loaded rows alone and puts no dispatcher *)
(* past the limit's check.                                                       *)
Calm ==
  /\ book' = book /\ day' = day
  /\ \A a \in Dispatchers :
       /\ NoteLoaded(a)' = NoteLoaded(a)
       /\ NoteLoaded(a) => rows'[a] = rows[a] /\ Own(a)' = Own(a)
       /\ Own(a)' \subseteq Own(a)

(* One thread moves on, not past the check, and not into a loaded note(). *)
LEMMA CalmMove ==
  ASSUME TypeOK, book' = book, day' = day, rows' = rows, cur' = cur,
         NEW t \in Threads, NEW p, at' = [at EXCEPT ![t] = p],
         \A b \in Dispatchers : b # t => decision'[b] = decision[b] /\ loaded'[b] = loaded[b],
         t \in Dispatchers => /\ ~NoteLoaded(t)
                              /\ p = "note" => ~loaded'[t]
                              /\ p \in {"begin", "send"} => at[t] \in {"begin", "send"}
                              /\ p \in {"touch", "note", "count"} /\ decision'[t] = "sent" => Passed(t)
  PROVE  Calm
PROOF
<1>1. ASSUME NEW a \in Dispatchers
      PROVE  /\ NoteLoaded(a)' = NoteLoaded(a)
             /\ NoteLoaded(a) => rows'[a] = rows[a] /\ Own(a)' = Own(a)
             /\ Own(a)' \subseteq Own(a)
  <2>1. a \in Threads
    BY DispatcherDuty
  <2>2. CASE a = t
    <3>1. at'[a] = p
      BY <2>1, <2>2 DEF TypeOK
    <3>2. NoteLoaded(a)' = FALSE /\ NoteLoaded(a) = FALSE
      BY <2>2, <3>1 DEF NoteLoaded
    <3>3. Passed(a)' => Passed(a)
      BY <2>2, <3>1 DEF Passed, Noting
    <3> QED
      BY <3>2, <3>3 DEF Own
  <2>3. CASE a # t
    <3>1. at'[a] = at[a] /\ decision'[a] = decision[a] /\ loaded'[a] = loaded[a]
      BY <2>1, <2>3 DEF TypeOK
    <3>2. NoteLoaded(a)' = NoteLoaded(a)
      BY <3>1 DEF NoteLoaded
    <3>3. Passed(a)' = Passed(a)
      BY <3>1 DEF Passed, Noting
    <3> QED
      BY <3>2, <3>3 DEF Own
  <2> QED
    BY <2>2, <2>3
<1> QED
  BY <1>1 DEF Calm

(* The guard is calm, but for the passing of the limit's check. *)
LEMMA CalmDecision ==
  ASSUME TypeOK, BooksDated, NEW a \in Dispatchers, GuardDecision(a)
  PROVE  Calm \/ (DayStats(a) /\ GoTo(a, "begin"))
PROOF
<1>0. a \in Threads
  BY DispatcherDuty
<1>1. ASSUME NEW p \in {"beat", "group", "stats", "latch day"}, at' = [at EXCEPT ![a] = p],
             at[a] \in {"ramp", "check", "group", "stats"},
             book' = book, day' = day, rows' = rows, cur' = cur, decision' = decision, loaded' = loaded
      PROVE  Calm
  BY <1>0, <1>1, CalmMove DEF NoteLoaded
<1>2. ASSUME Refuse(a), at[a] \in {"check", "group", "stats"},
             book' = book, day' = day, rows' = rows, cur' = cur, loaded' = loaded
      PROVE  Calm
  <2>1. ~loaded'[a]
    BY <1>0, <1>2 DEF BooksDated, Updates, Locked
  <2>2. /\ at' = [at EXCEPT ![a] = "note"] /\ decision'[a] = "blocked"
        /\ \A b \in Dispatchers : b # a => decision'[b] = decision[b]
    BY <1>0, <1>2, DispatcherDuty DEF Refuse, GoTo, TypeOK
  <2>3. ~NoteLoaded(a) /\ decision'[a] # "sent"
    BY <1>2, <2>2 DEF NoteLoaded
  <2> QED
    BY <1>0, <1>2, <2>1, <2>2, <2>3, CalmMove
<1>3. ASSUME NEW g \in Setups, Detect(a, g) PROVE Calm
  <2>1. /\ at[a] = "idle" /\ at'[a] = "ramp"
        /\ \A b \in Dispatchers : b # a => at'[b] = at[b] /\ cur'[b] = cur[b]
        /\ UNCHANGED <<book, day, rows, loaded, decision>>
    BY <1>0, <1>3, DispatcherDuty DEF Detect, GoTo, TypeOK
  <2>2. ASSUME NEW b \in Dispatchers
        PROVE  /\ NoteLoaded(b)' = NoteLoaded(b)
               /\ NoteLoaded(b) => rows'[b] = rows[b] /\ Own(b)' = Own(b)
               /\ Own(b)' \subseteq Own(b)
    <3>1. CASE b = a
      BY <2>1, <3>1 DEF NoteLoaded, Own, Passed, Noting
    <3>2. CASE b # a
      <4>1. NoteLoaded(b)' = NoteLoaded(b) /\ Passed(b)' = Passed(b)
        BY <2>1, <3>2 DEF NoteLoaded, Passed, Noting
      <4> QED
        BY <2>1, <3>2, <4>1 DEF Own
    <3> QED
      BY <3>1, <3>2
  <2> QED
    BY <2>1, <2>2 DEF Calm
<1>4. CASE RampQty(a)
  BY <1>1, <1>4 DEF RampQty, GoTo, worldVars
<1>5. CASE CheckKill(a)
  BY <1>1, <1>2, <1>5 DEF CheckKill, GoTo, worldVars
<1>6. CASE PendingGroup(a)
  BY <1>1, <1>2, <1>6 DEF PendingGroup, GoTo, worldVars
<1>7. CASE DayStats(a)
  <2>1. CASE Refuse(a)
    BY <1>2, <1>7, <2>1 DEF DayStats, worldVars
  <2>2. CASE GoTo(a, "latch day") /\ UNCHANGED <<decision, left>>
    BY <1>1, <1>7, <2>2 DEF DayStats, GoTo, worldVars
  <2>3. CASE GoTo(a, "begin")
    BY <1>7, <2>3
  <2> QED
    BY <1>7, <2>1, <2>2, <2>3 DEF DayStats
<1>8. ASSUME NEW kind \in {"day", "hard"}, Latch(a, kind) PROVE Calm
  <2>1. LatchOp[kind] # "note"
    <3>1. CASE kind = "day"
      BY <3>1 DEF LatchOp
    <3>2. CASE kind = "hard"
      BY <3>2 DEF LatchOp
    <3> QED
      BY <3>1, <3>2
  <2>2. /\ at[a] = LatchOp[kind] /\ at' = [at EXCEPT ![a] = "flatten"]
        /\ decision' = [decision EXCEPT ![a] = "blocked"] /\ loaded' = [loaded EXCEPT ![a] = FALSE]
        /\ UNCHANGED <<book, rows, cur, day>>
    BY <1>8 DEF Latch, Update, GoTo, worldVars
  <2>3. ~NoteLoaded(a)
    BY <2>1, <2>2 DEF NoteLoaded
  <2>4. \A b \in Dispatchers : b # a => decision'[b] = decision[b] /\ loaded'[b] = loaded[b]
    BY <1>0, <2>2, DispatcherDuty DEF TypeOK
  <2> QED
    BY <1>0, <2>2, <2>3, <2>4, CalmMove
<1> QED
  BY <1>3, <1>4, <1>5, <1>6, <1>7, <1>8 DEF GuardDecision

(* So are the reservation, the relay and the counter; note() itself is not. *)
LEMMA CalmDispatch ==
  ASSUME TypeOK, Carries, BooksDated, NEW a \in Dispatchers, Dispatch(a)
  PROVE  Calm \/ NoteLoad(a) \/ NoteSave(a)
PROOF
<1>0. a \in Threads
  BY DispatcherDuty
<1>1. ASSUME NEW op \in Updates, NEW new, Update(a, op, new), NEW p, at' = [at EXCEPT ![a] = p],
             \A b \in Dispatchers : b # a => decision'[b] = decision[b],
             p \in {"begin", "send"} => op \in {"begin", "send"},
             p \in {"touch", "note", "count"} /\ decision'[a] = "sent" => Passed(a)
      PROVE  Calm
  <2>1. /\ loaded' = [loaded EXCEPT ![a] = FALSE] /\ at[a] = op
        /\ UNCHANGED <<book, rows, cur, day>>
    BY <1>1 DEF Update, worldVars
  <2>2. ~NoteLoaded(a)
    BY <2>1 DEF NoteLoaded, Updates, Locked
  <2>3. ~loaded'[a] /\ \A b \in Dispatchers : b # a => loaded'[b] = loaded[b]
    BY <1>0, <2>1, DispatcherDuty DEF TypeOK
  <2> QED
    BY <1>0, <1>1, <2>1, <2>2, <2>3, CalmMove
<1>2. {"begin", "touch", "uncertain", "finish", "count"} \subseteq Updates
  BY DEF Updates, Locked
<1>3. CASE BeginSiblingBatch(a)
  <2>1. PICK new : Update(a, "begin", new)
    BY <1>3 DEF BeginSiblingBatch
  <2>2. CASE Refuse(a)
    <3>1. /\ at' = [at EXCEPT ![a] = "note"] /\ decision'[a] = "blocked"
          /\ \A b \in Dispatchers : b # a => decision'[b] = decision[b]
      BY <1>0, <2>2, DispatcherDuty DEF Refuse, GoTo, TypeOK
    <3> QED
      BY <1>1, <1>2, <2>1, <3>1
  <2>3. CASE GoTo(a, "send") /\ UNCHANGED <<decision, left>>
    BY <1>1, <1>2, <2>1, <2>3 DEF GoTo
  <2> QED
    BY <1>3, <2>2, <2>3 DEF BeginSiblingBatch
<1>4. ASSUME NEW reply \in Replies, Send(a, reply) PROVE Calm
  <2>1. /\ at[a] = "send" /\ UNCHANGED <<book, day, rows, cur, loaded>>
        /\ decision' = [decision EXCEPT ![a] = IF reply = "accepted" THEN "sent" ELSE "blocked"]
    BY <1>4 DEF Send
  <2>2. PICK p \in {"touch", "finish"} : at' = [at EXCEPT ![a] = p]
    BY <1>4 DEF Send, GoTo
  <2>3. /\ ~NoteLoaded(a) /\ Passed(a) /\ p \notin {"note", "begin", "send"}
        /\ \A b \in Dispatchers : b # a => decision'[b] = decision[b] /\ loaded'[b] = loaded[b]
    BY <1>0, <2>1, DispatcherDuty DEF NoteLoaded, Passed, TypeOK
  <2> QED
    BY <1>0, <2>1, <2>2, <2>3, CalmMove
<1>5. CASE TouchSiblingBatch(a)
  <2>1. PICK new : Update(a, "touch", new)
    BY <1>5 DEF TouchSiblingBatch
  <2>2. PICK p \in {"note", "rollback"} : at' = [at EXCEPT ![a] = p] /\ decision' = decision
    BY <1>5 DEF TouchSiblingBatch, GoTo
  <2>3. p \notin {"begin", "send"} /\ (decision'[a] = "sent" => Passed(a))
    BY <2>1, <2>2 DEF Update, Passed, Noting
  <2> QED
    BY <1>1, <1>2, <2>1, <2>2, <2>3
<1>6. CASE RollbackSiblingBatch(a)
  <2>1. /\ at[a] = "rollback" /\ UNCHANGED <<book, day, rows, cur, loaded, decision>>
    BY <1>6 DEF RollbackSiblingBatch
  <2>2. PICK p \in {"finish", "uncertain"} : at' = [at EXCEPT ![a] = p]
    BY <1>6 DEF RollbackSiblingBatch, GoTo
  <2>3. ~NoteLoaded(a) /\ p \notin {"note", "begin", "send", "touch", "count"}
    BY <2>1 DEF NoteLoaded
  <2> QED
    BY <1>0, <2>1, <2>2, <2>3, CalmMove
<1>7. CASE RollbackUncertain(a)
  BY <1>1, <1>2, <1>7 DEF RollbackUncertain, GoTo
<1>8. CASE FinishSiblingBatch(a)
  <2>1. PICK new : Update(a, "finish", new)
    BY <1>8 DEF FinishSiblingBatch
  <2>2. /\ at' = [at EXCEPT ![a] = IF decision[a] = "sent" THEN "idle" ELSE "note"]
        /\ decision' = decision
    BY <1>8 DEF FinishSiblingBatch, GoTo
  <2>3. CASE decision[a] = "sent"
    BY <1>1, <1>2, <2>1, <2>2, <2>3
  <2>4. CASE decision[a] # "sent"
    BY <1>1, <1>2, <2>1, <2>2, <2>4
  <2> QED
    BY <2>3, <2>4
<1>9. CASE CountSent(a)
  <2>1. PICK new : Update(a, "count", new)
    BY <1>9 DEF CountSent
  <2>2. PICK p \in {"note", "finish", "idle"} : at' = [at EXCEPT ![a] = p]
    BY <1>9, NotedPlace DEF CountSent
  <2>3. decision' = decision /\ p \notin {"begin", "send"} /\ (decision'[a] = "sent" => Passed(a))
    BY <1>9, <2>1 DEF CountSent, Update, Passed, Noting
  <2> QED
    BY <1>1, <1>2, <2>1, <2>2, <2>3
<1> QED
  BY <1>3, <1>4, <1>5, <1>6, <1>7, <1>8, <1>9 DEF Dispatch

(* The heartbeat, the operator and the market are calm. *)
LEMMA CalmSteps ==
  ASSUME TypeOK, Carries, Duties, OwnSetups, BooksDated, [Next]_vars
  PROVE  \/ Calm
         \/ \E a \in Dispatchers : (DayStats(a) /\ GoTo(a, "begin")) \/ NoteLoad(a) \/ NoteSave(a)
         \/ NewDay \/ Crash
PROOF
<1>1. ASSUME book' = book, day' = day, rows' = rows, cur' = cur, at' = at,
             loaded' = loaded, decision' = decision
      PROVE  Calm
  BY <1>1 DEF Calm, NoteLoaded, Own, Passed, Noting
<1>2. ASSUME NEW t \in Threads \ Dispatchers, NEW p, at' = [at EXCEPT ![t] = p],
             book' = book, day' = day, rows' = rows, cur' = cur, decision' = decision,
             \A u \in Threads : u # t => loaded'[u] = loaded[u]
      PROVE  Calm
  BY <1>2, CalmMove, DispatcherDuty
<1>3. ASSUME NEW t \in Threads, NEW op, NEW new, Update(t, op, new)
      PROVE  /\ book' = book /\ day' = day /\ rows' = rows /\ cur' = cur /\ at[t] = op
             /\ ~loaded'[t] /\ \A u \in Threads : u # t => loaded'[u] = loaded[u]
  BY <1>3 DEF Update, worldVars, TypeOK
<1>4. CASE Service
  <2>1. ASSUME NEW t \in Threads, Load(t) PROVE Calm
    <3>1. /\ at[t] # "note" /\ at' = at /\ UNCHANGED <<book, day, rows, cur, decision>>
          /\ \A u \in Threads : u # t => loaded'[u] = loaded[u]
      BY <2>1 DEF Load, Updates, Locked, worldVars, TypeOK
    <3>2. \A a \in Dispatchers : NoteLoaded(a)' = NoteLoaded(a)
      BY <3>1, DispatcherDuty DEF NoteLoaded
    <3> QED
      BY <3>1, <3>2 DEF Calm, Own, Passed, Noting
  <2>2. ASSUME NEW t \in Threads, Beat(t) PROVE Calm
    <3>1. /\ at[t] = "beat" /\ at' = [at EXCEPT ![t] = IF t = "hb" THEN "idle" ELSE "check"]
          /\ decision' = decision
      BY <2>2 DEF Beat, Update, GoTo
    <3>2. /\ book' = book /\ day' = day /\ rows' = rows /\ cur' = cur
          /\ \A u \in Threads : u # t => loaded'[u] = loaded[u]
      BY <2>2, <1>3 DEF Beat
    <3>3. CASE t \in Dispatchers
      <4>1. at' = [at EXCEPT ![t] = "check"] /\ ~NoteLoaded(t)
        BY <3>1, <3>3, DispatcherDuty DEF NoteLoaded
      <4> QED
        BY <3>1, <3>2, <3>3, <4>1, CalmMove, DispatcherDuty
    <3> QED
      BY <3>1, <3>2, <3>3, <1>2
  <2>3. ASSUME NEW t \in Threads, Halt(t) \/ Arm(t) \/ EodFlattenCheck(t) PROVE Calm
    <3>1. PICK op \in {"halt", "arm", "eod"} : \E new : Update(t, op, new)
      BY <2>3 DEF Halt, Arm, EodFlattenCheck
    <3>2. /\ book' = book /\ day' = day /\ rows' = rows /\ cur' = cur /\ at[t] = op
          /\ \A u \in Threads : u # t => loaded'[u] = loaded[u]
      BY <3>1, <1>3
    <3>3. t \notin Dispatchers
      BY <3>1, <3>2, DispatcherDuty DEF Duties
    <3>4. decision' = decision /\ \E p : at' = [at EXCEPT ![t] = p]
      BY <2>3 DEF Halt, Arm, EodFlattenCheck, GoTo
    <3> QED
      BY <3>2, <3>3, <3>4, <1>2
  <2>4. ASSUME NEW t \in Threads, FlattenAll(t) PROVE Calm
    <3>1. /\ UNCHANGED <<book, day, rows, cur, loaded, decision>> /\ at[t] = "flatten"
          /\ at' = [at EXCEPT ![t] = IF t \in Dispatchers THEN "note" ELSE "idle"]
      BY <2>4 DEF FlattenAll, GoTo
    <3>2. CASE t \in Dispatchers
      <4>1. decision'[t] # "sent" /\ ~loaded'[t] /\ ~NoteLoaded(t) /\ at' = [at EXCEPT ![t] = "note"]
        BY <3>1, <3>2 DEF OwnSetups, BooksDated, Updates, Locked, NoteLoaded
      <4> QED
        BY <3>1, <3>2, <4>1, CalmMove
    <3> QED
      BY <3>1, <3>2, <1>2
  <2>5. ASSUME NEW t \in {"hb", "op"}, NEW op, Start(t, op) PROVE Calm
    <3>1. t \in Threads \ Dispatchers
      BY DispatcherDuty DEF Threads
    <3> QED
      BY <2>5, <3>1, <1>2 DEF Start, GoTo, worldVars
  <2> QED
    BY <1>4, <2>1, <2>2, <2>3, <2>4, <2>5 DEF Service, Heartbeat, Request
<1>5. ASSUME NEW g \in Setups, Resolve(g) \/ Expire(g) PROVE Calm
  BY <1>1, <1>5 DEF Resolve, Expire, localVars
<1>6. CASE UNCHANGED vars
  BY <1>1, <1>6 DEF vars, localVars, worldVars
<1> QED
  BY <1>4, <1>5, <1>6, CalmDecision, CalmDispatch DEF Next, World

-----------------------------------------------------------------------------
(* What becomes of the bounds: no step but a pass of the check and a new day    *)
(* makes a version of the book that was not one before.                          *)
Versions == {book} \cup {Going(a) : a \in Dispatchers}

LEMMA BoundStep ==
  ASSUME TypeOK, Carries, OwnSetups, LossBound, [Next]_vars,
         NEW V \in Versions, NEW B \in SUBSET (V \cup Owns), NEW d \in Days
  PROVE  AtMost({r \in B : r[2] = d /\ trade'[r[1]] \in {"none", "live", "loss"}}, Cap)
PROOF
<1>1. V \cup Owns \in SUBSET Rows
  BY VersionsType DEF Versions
<1>2. AtMost(Risk(V \cup Owns, d), Cap)
  BY DEF LossBound, Versions
<1>3. {r \in B : r[2] = d /\ trade'[r[1]] \in {"none", "live", "loss"}} \in SUBSET Risk(V \cup Owns, d)
  BY <1>1, RiskStep
<1>4. Cap \in Int
  BY VersionsType
<1> QED
  BY <1>2, <1>3, <1>4, AtMostSubset

(* A version with fewer rows, next to one with more, is no farther from it. *)
LEMMA NearStep ==
  ASSUME TypeOK, Carries, OwnSetups, [Next]_vars,
         NEW B \in SUBSET Rows, NEW C, NEW E \in SUBSET B, NEW F, C \subseteq F, Near(B, C)
  PROVE  LET R == {r \in E : r[2] = day /\ trade'[r[1]] \in {"none", "live", "loss"}}
         IN  AtMost(R, DayLossN) \/ AtMost(R \ F, 1)
PROOF
<1> DEFINE R == {r \in E : r[2] = day /\ trade'[r[1]] \in {"none", "live", "loss"}}
<1>1. R \in SUBSET Risk(B, day)
  BY RiskStep
<1>2. R \ F \in SUBSET (Risk(B, day) \ C)
  BY <1>1
<1>3. DayLossN \in Int
  BY VersionsType
<1> HIDE DEF R
<1>4. ASSUME AtMost(Risk(B, day), DayLossN) PROVE AtMost(R, DayLossN)
  BY <1>1, <1>3, <1>4, AtMostSubset
<1>5. ASSUME AtMost(Risk(B, day) \ C, 1) PROVE AtMost(R \ F, 1)
  BY <1>2, <1>5, AtMostSubset
<1> QED
  BY <1>4, <1>5 DEF Near, R

(* Two dispatchers' versions stay near when one has no new rows, the other all of its own. *)
LEMMA NearKept ==
  ASSUME TypeOK, Carries, OwnSetups, LossBound, [Next]_vars, day' = day,
         NEW a \in Dispatchers, NEW b \in Dispatchers, a # b,
         Going(a)' \subseteq Going(a), Coming(b) \subseteq Coming(b)'
  PROVE  Near(Going(a), Coming(b))'
PROOF
<1> DEFINE R == {r \in Going(a)' : r[2] = day /\ trade'[r[1]] \in {"none", "live", "loss"}}
<1>1. Near(Going(a), Coming(b)) /\ Going(a) \in SUBSET Rows
  BY VersionsType DEF LossBound
<1>2. AtMost(R, DayLossN) \/ AtMost(R \ Coming(b)', 1)
  BY <1>1, NearStep
<1>3. Risk(Going(a), day)' = R
  BY DEF Risk
<1> HIDE DEF R
<1> QED
  BY <1>2, <1>3 DEF Near

(* The bounds follow when every version was one before and stays as near. *)
LEMMA BoundsKept ==
  ASSUME TypeOK, Carries, OwnSetups, LossBound, [Next]_vars, Owns' \subseteq Owns,
         \A a \in Dispatchers : Passed(a)' => Passed(a),
         \E V \in Versions : book' \subseteq V \cup Owns,
         \A a \in Dispatchers : \E V \in Versions : Going(a)' \subseteq V \cup Owns,
         \A a, b \in Dispatchers : a # b => Near(Going(a), Coming(b))'
  PROVE  LossBound'
PROOF
<1>1. ASSUME NEW d \in Days PROVE AtMost(Risk(book \cup Owns, d), Cap)'
  <2>1. PICK V \in Versions : book' \subseteq V \cup Owns
    OBVIOUS
  <2>2. book' \cup Owns' \in SUBSET (V \cup Owns)
    BY <2>1
  <2> QED
    BY <2>2, BoundStep DEF Risk, Cap
<1>2. ASSUME NEW a \in Dispatchers, NEW d \in Days PROVE AtMost(Risk(Going(a) \cup Owns, d), Cap)'
  <2>1. PICK V \in Versions : Going(a)' \subseteq V \cup Owns
    OBVIOUS
  <2>2. Going(a)' \cup Owns' \in SUBSET (V \cup Owns)
    BY <2>1
  <2> QED
    BY <2>2, BoundStep DEF Risk, Cap
<1>3. DayLossN = 0 => \A a \in Dispatchers : ~Passed(a)'
  BY DEF LossBound
<1> QED
  BY <1>1, <1>2, <1>3 DEF LossBound

(* A calm step. *)
LEMMA BoundCalm ==
  ASSUME TypeOK, Carries, OwnSetups, LossBound, [Next]_vars, Calm
  PROVE  LossBound'
PROOF
<1>1. ASSUME NEW a \in Dispatchers
      PROVE  /\ Passed(a)' => Passed(a)
             /\ Going(a)' \subseteq Going(a)
             /\ Coming(a)' = Coming(a)
  BY DEF Calm, Going, Coming, Own
<1>2. Owns' \subseteq Owns
  BY DEF Calm, Owns
<1>3. ASSUME NEW a \in Dispatchers, NEW b \in Dispatchers, a # b PROVE Near(Going(a), Coming(b))'
  <2>1. day' = day /\ Going(a)' \subseteq Going(a) /\ Coming(b) \subseteq Coming(b)'
    BY <1>1 DEF Calm
  <2> QED
    BY <1>3, <2>1, NearKept
<1>4. book' = book /\ book \in Versions /\ \A a \in Dispatchers : Going(a) \in Versions
  BY DEF Calm, Versions
<1>5. \E V \in Versions : book' \subseteq V \cup Owns
  BY <1>4
<1>6. \A a \in Dispatchers : \E V \in Versions : Going(a)' \subseteq V \cup Owns
  BY <1>1, <1>4
<1> QED
  BY <1>1, <1>2, <1>3, <1>5, <1>6, BoundsKept

(* note() loads the book: the version of the thread that loads does not change. *)
LEMMA BoundLoad ==
  ASSUME TypeOK, Carries, OwnSetups, LossBound, [Next]_vars, NEW a \in Dispatchers, NoteLoad(a)
  PROVE  LossBound'
PROOF
<1>0. a \in Threads
  BY DispatcherDuty
<1>1. /\ at[a] = "note" /\ ~loaded[a] /\ rows' = [rows EXCEPT ![a] = book]
      /\ loaded' = [loaded EXCEPT ![a] = TRUE]
      /\ UNCHANGED <<book, at, cur, decision, day>>
  BY DEF NoteLoad, worldVars
<1>2. \A b \in Dispatchers : Own(b)' = Own(b) /\ (Passed(b)' <=> Passed(b))
  BY <1>1 DEF Own, Passed, Noting
<1>3. Going(a)' = Going(a) /\ Coming(a) \subseteq Coming(a)'
  BY <1>0, <1>1, <1>2 DEF Going, Coming, NoteLoaded, TypeOK
<1>4. ASSUME NEW b \in Dispatchers, b # a PROVE Going(b)' = Going(b) /\ Coming(b)' = Coming(b)
  BY <1>1, <1>2, <1>4, DispatcherDuty DEF Going, Coming, NoteLoaded, TypeOK
<1>5. ASSUME NEW b \in Dispatchers, NEW c \in Dispatchers, b # c PROVE Near(Going(b), Coming(c))'
  <2>1. Going(b)' \subseteq Going(b) /\ Coming(c) \subseteq Coming(c)'
    BY <1>3, <1>4
  <2> QED
    BY <1>1, <1>5, <2>1, NearKept
<1>6. Owns' = Owns
  BY <1>2 DEF Owns
<1>7. book' = book /\ book \in Versions /\ \A b \in Dispatchers : Going(b) \in Versions
  BY <1>1 DEF Versions
<1>8. \E V \in Versions : book' \subseteq V \cup Owns
  BY <1>7
<1>9. \A b \in Dispatchers : \E V \in Versions : Going(b)' \subseteq V \cup Owns
  BY <1>3, <1>4, <1>7
<1> QED
  BY <1>2, <1>5, <1>6, <1>8, <1>9, BoundsKept

(* note() writes: the book becomes the thread's version, which is at most one   *)
(* row ahead of the other's or within the limit.                                *)
LEMMA BoundSave ==
  ASSUME TypeOK, Carries, OwnSetups, LossBound, [Next]_vars, NEW a \in Dispatchers, NoteSave(a)
  PROVE  LossBound'
PROOF
<1>0. a \in Threads
  BY DispatcherDuty
<1>1. /\ at[a] = "note" /\ loaded[a] /\ loaded' = [loaded EXCEPT ![a] = FALSE]
      /\ rows' = [rows EXCEPT ![a] = {}]
      /\ book' = IF decision[a] = "sent" THEN rows[a] \cup {<<cur[a], day>>} ELSE rows[a]
      /\ UNCHANGED <<cur, decision, day>>
  BY DEF NoteSave, worldVars
<1>2. /\ at'[a] \in {"note", "count", "finish", "idle"}
      /\ \A b \in Dispatchers : b # a => at'[b] = at[b]
  <2>1. CASE GoTo(a, "count")
    BY <1>0, <2>1, DispatcherDuty DEF GoTo, TypeOK
  <2>2. CASE Noted(a)
    <3>1. PICK p \in {"note", "finish", "idle"} : at' = [at EXCEPT ![a] = p]
      BY <2>2, NotedPlace
    <3> QED
      BY <1>0, <3>1, DispatcherDuty DEF TypeOK
  <2> QED
    BY <2>1, <2>2 DEF NoteSave
<1>3. /\ Passed(a)' => Passed(a)
      /\ \A b \in Dispatchers : b # a => (Passed(b)' <=> Passed(b))
  BY <1>1, <1>2 DEF Passed, Noting
<1>4. Own(a)' \subseteq Own(a) /\ \A b \in Dispatchers : b # a => Own(b)' = Own(b)
  BY <1>1, <1>3 DEF Own
<1>5. book' = rows[a] \cup Own(a) /\ Going(a) = book' /\ Coming(a) = book'
  BY <1>1 DEF Own, Passed, Noting, Going, Coming, NoteLoaded
<1>6. ~NoteLoaded(a)' /\ \A b \in Dispatchers : b # a => NoteLoaded(b)' = NoteLoaded(b) /\ rows'[b] = rows[b]
  BY <1>0, <1>1, <1>2, DispatcherDuty DEF NoteLoaded, TypeOK
<1>7. Going(a)' \subseteq Going(a) /\ Coming(a)' = Coming(a)
  BY <1>4, <1>5, <1>6 DEF Going, Coming
<1>8. ASSUME NEW b \in Dispatchers, b # a
      PROVE  \/ NoteLoaded(b)' /\ Going(b)' = Going(b) /\ Coming(b)' = Coming(b)
             \/ ~NoteLoaded(b)' /\ Going(b)' = book' \cup Own(b)' /\ Coming(b)' = book'
  BY <1>4, <1>6, <1>8 DEF Going, Coming
<1>9. ASSUME NEW b \in Dispatchers, NEW c \in Dispatchers, b # c PROVE Near(Going(b), Coming(c))'
  <2>1. ASSUME Going(b)' \subseteq Going(b), Coming(c)' = Coming(c) PROVE Near(Going(b), Coming(c))'
    BY <1>1, <1>9, <2>1, NearKept
  <2>2. ASSUME Going(b)' = book' \cup Own(b)', Coming(c)' = book' PROVE Near(Going(b), Coming(c))'
    <3>1. (\A x \in Dispatchers : Near(book \cup Own(x), book))'
      BY NearBook, PTL
    <3>2. Near(book \cup Own(b), book)'
      BY <3>1
    <3> QED
      BY <2>2, <3>2 DEF Near
  <2>3. Going(a)' = book' \cup Own(a)' /\ Coming(a)' = book'
    BY <1>6 DEF Going, Coming
  <2>4. b = a \/ c = a
    BY <1>9, DispatcherCount
  <2>5. CASE b = a
    BY <1>7, <1>8, <1>9, <2>1, <2>2, <2>3, <2>5
  <2>6. CASE c = a
    BY <1>7, <1>8, <1>9, <2>1, <2>2, <2>3, <2>6
  <2> QED
    BY <2>4, <2>5, <2>6
<1>10. Owns' \subseteq Owns
  BY <1>4 DEF Owns
<1>11. Going(a) \in Versions /\ \A b \in Dispatchers : Going(b) \in Versions
  BY DEF Versions
<1>12. \E V \in Versions : book' \subseteq V \cup Owns
  BY <1>5, <1>11
<1>13. ASSUME NEW b \in Dispatchers PROVE \E V \in Versions : Going(b)' \subseteq V \cup Owns
  <2>1. Own(b)' \subseteq Owns
    BY <1>10 DEF Owns
  <2> QED
    BY <1>5, <1>7, <1>8, <1>11, <2>1
<1> QED
  BY <1>3, <1>9, <1>10, <1>12, <1>13, BoundsKept

(* A restart: nobody has anything loaded or on its way. *)
LEMMA BoundCrash ==
  ASSUME TypeOK, Carries, OwnSetups, LossBound, [Next]_vars, Crash
  PROVE  LossBound'
PROOF
<1>1. ASSUME NEW a \in Dispatchers
      PROVE  ~Passed(a)' /\ Own(a)' = {} /\ Going(a)' = book' \cup Own(a)' /\ Coming(a)' = book'
  BY DispatcherDuty DEF Crash, Passed, Noting, Own, NoteLoaded, Going, Coming
<1>2. book' = book /\ book \in Versions
  BY DEF Crash, Versions
<1>3. ASSUME NEW a \in Dispatchers, NEW b \in Dispatchers, a # b PROVE Near(Going(a), Coming(b))'
  <2>1. (\A x \in Dispatchers : Near(book \cup Own(x), book))'
    BY NearBook, PTL
  <2>2. Near(book \cup Own(a), book)'
    BY <2>1
  <2> QED
    BY <1>1, <2>2 DEF Near
<1>4. Owns' \subseteq Owns
  BY <1>1 DEF Owns
<1>5. \E V \in Versions : book' \subseteq V \cup Owns
  BY <1>2
<1>6. \A a \in Dispatchers : \E V \in Versions : Going(a)' \subseteq V \cup Owns
  BY <1>1, <1>2
<1> QED
  BY <1>1, <1>3, <1>4, <1>5, <1>6, BoundsKept

(* A new day has no rows yet but those dispatchers are going to add. *)
LEMMA BoundDay ==
  ASSUME TypeOK, Carries, OwnSetups, BooksDated, LossBound, NewDay
  PROVE  LossBound'
PROOF
<1> USE DispatcherDuty
<1>0. [Next]_vars
  BY DEF Next, World
<1>1. /\ day' = day + 1 /\ day \in Nat
      /\ UNCHANGED <<file, book, at, loaded, rows, cur, decision, trade>>
  BY GuardStateAssumption DEF NewDay, localVars, TypeOK, Days
<1> DEFINE Base(a) == IF NoteLoaded(a) THEN rows[a] ELSE book
<1>2. ASSUME NEW a \in Dispatchers
      PROVE  /\ Passed(a)' <=> Passed(a)
             /\ Going(a)' = Base(a) \cup Own(a)' /\ Base(a) \in SUBSET Going(a)
             /\ \A r \in Base(a) : r[2] # day'
             /\ \A r \in Own(a)' : r[2] = day'
  <2>1. (Passed(a)' <=> Passed(a)) /\ (NoteLoaded(a)' <=> NoteLoaded(a))
    BY <1>1 DEF Passed, Noting, NoteLoaded
  <2>2. Going(a)' = Base(a) \cup Own(a)' /\ Base(a) \in SUBSET Going(a)
    BY <1>1, <2>1 DEF Going
  <2>3. ASSUME NEW r \in Base(a) PROVE r[2] # day'
    <3>1. r[2] <= day /\ r \in Rows
      BY DEF BooksDated, Dated, TypeOK
    <3>2. r[2] \in Nat
      BY <3>1, GuardStateAssumption DEF Rows, Days
    <3> QED
      BY <1>1, <3>1, <3>2
  <2>4. \A r \in Own(a)' : r[2] = day'
    BY DEF Own
  <2> QED
    BY <2>1, <2>2, <2>3, <2>4
<1>3. \A r \in book : r[2] # day'
  <2> SUFFICES ASSUME NEW r \in book PROVE r[2] # day'
    OBVIOUS
  <2>1. r[2] <= day /\ r \in Rows
    BY DEF BooksDated, Dated, TypeOK
  <2>2. r[2] \in Nat
    BY <2>1, GuardStateAssumption DEF Rows, Days
  <2> QED
    BY <1>1, <2>1, <2>2
<1>4. \A r \in Owns' : r[2] = day'
  BY <1>2 DEF Owns
<1>5. AtMost(Owns', Cap)
  <2>1. (AtMost(Owns, Cardinality(Dispatchers)))'
    BY OwnCount, PTL
  <2>2. CASE DayLossN = 0
    <3>1. \A a \in Dispatchers : Own(a)' = {}
      BY <1>2, <2>2 DEF LossBound, Own
    <3>2. Owns' = {}
      BY <3>1 DEF Owns
    <3>3. AtMost({}, 0) /\ 0 <= Cap /\ Cap \in Int
      BY AtMostSmall, VersionsType
    <3>4. AtMost({}, Cap)
      BY <3>3, AtMostWeaker
    <3> QED
      BY <3>2, <3>4
  <2>3. CASE DayLossN # 0
    <3>1. Cardinality(Dispatchers) <= Cap /\ Cardinality(Dispatchers) \in Int /\ Cap \in Int
      BY <2>3, DispatcherCount, VersionsType DEF Cap
    <3>2. AtMost(Owns', Cardinality(Dispatchers))
      BY <2>1 DEF AtMost
    <3> QED
      BY <3>1, <3>2, AtMostWeaker
  <2> QED
    BY <2>2, <2>3
<1> HIDE DEF Base
<1>6. ASSUME NEW B, \A r \in B : r[2] # day', NEW V \in Versions, B \in SUBSET V, NEW d \in Days
      PROVE  AtMost({r \in B \cup Owns' : r[2] = d /\ trade'[r[1]] \in {"none", "live", "loss"}}, Cap)
  <2> DEFINE R == {r \in B \cup Owns' : r[2] = d /\ trade'[r[1]] \in {"none", "live", "loss"}}
  <2>0. Cap \in Int
    BY VersionsType
  <2>1. CASE d = day'
    <3>1. R \in SUBSET Owns'
      BY <1>6, <2>1
    <3> QED
      BY <1>5, <2>0, <3>1, AtMostSubset
  <2>2. CASE d # day'
    <3>1. R = {r \in B : r[2] = d /\ trade'[r[1]] \in {"none", "live", "loss"}}
      BY <1>4, <2>2
    <3>2. B \in SUBSET (V \cup Owns)
      BY <1>6
    <3> QED
      BY <1>0, <3>1, <3>2, BoundStep
  <2> QED
    BY <2>1, <2>2
<1>7. ASSUME NEW d \in Days PROVE AtMost(Risk(book \cup Owns, d), Cap)'
  <2>1. book \in Versions
    BY DEF Versions
  <2> QED
    BY <1>1, <1>3, <1>6, <2>1 DEF Risk, Cap, AtMost
<1>8. ASSUME NEW a \in Dispatchers, NEW d \in Days PROVE AtMost(Risk(Going(a) \cup Owns, d), Cap)'
  <2>1. Going(a) \in Versions
    BY DEF Versions
  <2>2. Going(a)' \cup Owns' = Base(a) \cup Owns'
    BY <1>2 DEF Owns
  <2>3. AtMost({r \in Base(a) \cup Owns' : r[2] = d /\ trade'[r[1]] \in {"none", "live", "loss"}}, Cap)
    BY <1>2, <1>6, <2>1
  <2>4. Risk(Going(a) \cup Owns, d)' = {r \in Base(a) \cup Owns' : r[2] = d /\ trade'[r[1]] \in {"none", "live", "loss"}}
    BY <2>2 DEF Risk
  <2> QED
    BY <2>3, <2>4 DEF AtMost, Cap
<1>9. ASSUME NEW a \in Dispatchers, NEW b \in Dispatchers, a # b PROVE Near(Going(a), Coming(b))'
  <2>1. (\A x \in Dispatchers : AtMost(Own(x), 1))'
    BY OwnRows, PTL
  <2>2. AtMost(Own(a)', 1)
    BY <2>1 DEF AtMost
  <2>3. Risk(Going(a), day)' \ Coming(b)' \in SUBSET Own(a)'
    BY <1>2 DEF Risk
  <2>4. AtMost(Risk(Going(a), day)' \ Coming(b)', 1)
    BY <2>2, <2>3, AtMostSubset
  <2> QED
    BY <2>4 DEF Near, AtMost
<1>10. DayLossN = 0 => \A a \in Dispatchers : ~Passed(a)'
  BY <1>2 DEF LossBound
<1> QED
  BY <1>7, <1>8, <1>9, <1>10 DEF LossBound

(* A dispatcher passes the check: no row of the day is open and fewer than the  *)
(* limit are losses, and the other's version is no more than one row ahead.     *)
LEMMA BoundPass ==
  ASSUME TypeOK, Carries, OwnSetups, BooksDated, LossBound, [Next]_vars,
         NEW a \in Dispatchers, DayStats(a), GoTo(a, "begin")
  PROVE  LossBound'
PROOF
<1>0. a \in Threads
  BY DispatcherDuty
<1>1. /\ at[a] = "stats" /\ at'[a] = "begin"
      /\ \A b \in Dispatchers : b # a => at'[b] = at[b]
      /\ UNCHANGED <<file, book, loaded, rows, cur, day, trade>>
  BY <1>0, DispatcherDuty DEF DayStats, GoTo, TypeOK, worldVars
<1>2. ~OpenPos(book) /\ ~(DayLosses(book) >= DayLossN) /\ decision' = decision
  <2>1. ~Refuse(a) /\ ~GoTo(a, "latch day")
    BY <1>0, <1>1 DEF Refuse, GoTo, TypeOK
  <2>2. ~OpenPos(book)
    BY <2>1 DEF DayStats
  <2>3. ~(DayLosses(book) >= DayLossN)
    BY <2>1, <2>2 DEF DayStats
  <2> QED
    BY <2>1, <2>2, <2>3 DEF DayStats
<1>3. /\ DayLossN \in Nat /\ Cap \in Nat /\ day \in Days /\ book \in SUBSET Rows
      /\ Cardinality(Dispatchers) \in {1, 2} /\ Cap = DayLossN + Cardinality(Dispatchers) - 1
  BY VersionsType, DispatcherCount DEF Cap
<1>4. AtMost(Risk(book, day), DayLossN - 1) /\ DayLossN # 0
  <2> DEFINE L == {r \in Today(book) : trade[r[1]] = "loss"}
  <2>1. Risk(book, day) = L
    BY <1>2 DEF Risk, Today, OpenPos, BooksDated, Dated
  <2>2. AtMost(Risk(book \cup Owns, day), Cap)
    BY <1>3 DEF LossBound
  <2>3. Risk(book, day) \in SUBSET Risk(book \cup Owns, day)
    BY DEF Risk
  <2>4. IsFiniteSet(Risk(book, day))
    BY <2>2, <2>3, FS_Subset DEF AtMost
  <2>5. Cardinality(L) \in Nat
    BY <2>1, <2>4, FS_CardinalityType
  <2>6. DayLosses(book) = Cardinality(L)
    BY DEF DayLosses
  <2> HIDE DEF L
  <2>7. Cardinality(L) <= DayLossN - 1 /\ DayLossN # 0
    BY <1>2, <1>3, <2>5, <2>6
  <2> QED
    BY <2>1, <2>4, <2>7 DEF AtMost
<1>5. /\ ~NoteLoaded(a) /\ ~NoteLoaded(a)' /\ Own(a)' = {<<cur[a], day>>} /\ Own(a) = {}
      /\ Going(a) = book /\ Coming(a) = book
      /\ Going(a)' = book \cup Own(a)' /\ Coming(a)' = book
  BY <1>1 DEF NoteLoaded, Own, Passed, Noting, Going, Coming
<1>6. \A b \in Dispatchers : b # a =>
        Own(b)' = Own(b) /\ Going(b)' = Going(b) /\ Coming(b)' = Coming(b)
  BY <1>1, <1>2 DEF Own, Passed, Noting, NoteLoaded, Going, Coming
<1>8. AtMost(Own(a)', 1)
  BY <1>5, AtMostSmall
<1>9. Owns' = Owns \cup Own(a)'
  BY <1>5, <1>6 DEF Owns
<1>10. AtMost(Owns', Cardinality(Dispatchers))
  <2>1. (AtMost(Owns, Cardinality(Dispatchers)))'
    BY OwnCount, PTL
  <2> QED
    BY <2>1 DEF AtMost
<1>11. ASSUME NEW b \in Dispatchers PROVE AtMost(Risk(Going(b), day), DayLossN)
  <2>1. CASE b = a
    <3>1. DayLossN - 1 <= DayLossN /\ DayLossN \in Int /\ DayLossN - 1 \in Int
      BY <1>3
    <3> QED
      BY <1>4, <1>5, <2>1, <3>1, AtMostWeaker
  <2>2. CASE b # a
    <3>1. Near(Going(b), book)
      BY <1>5, <2>2 DEF LossBound
    <3>2. CASE AtMost(Risk(Going(b), day) \ book, 1)
      <4>1. Risk(Going(b), day) \in SUBSET (Risk(book, day) \cup (Risk(Going(b), day) \ book))
        BY DEF Risk
      <4>2. DayLossN - 1 \in Int /\ (DayLossN - 1) + 1 = DayLossN /\ DayLossN \in Int
        BY <1>3
      <4>3. AtMost(Risk(book, day) \cup (Risk(Going(b), day) \ book), (DayLossN - 1) + 1)
        BY <1>4, <3>2, <4>2, AtMostUnion
      <4>4. AtMost(Risk(book, day) \cup (Risk(Going(b), day) \ book), DayLossN)
        BY <4>2, <4>3
      <4> QED
        BY <4>1, <4>2, <4>4, AtMostSubset
    <3> QED
      BY <3>1, <3>2 DEF Near
  <2> QED
    BY <2>1, <2>2
<1>12. ASSUME NEW B, NEW n \in Int, AtMost(Risk(B, day), n), NEW m \in Int, NEW O, AtMost(O, m),
              n + m <= Cap, NEW C \in SUBSET (B \cup O), NEW d \in Days, d = day
       PROVE  AtMost(Risk(C, d), Cap)
  <2>1. Risk(C, d) \in SUBSET (Risk(B, day) \cup O)
    BY <1>12 DEF Risk
  <2>2. AtMost(Risk(B, day) \cup O, n + m)
    BY <1>12, AtMostUnion
  <2>3. AtMost(Risk(C, d), n + m)
    BY <2>1, <2>2, AtMostSubset
  <2> QED
    BY <1>3, <1>12, <2>3, AtMostWeaker
<1>13. ASSUME NEW V \in Versions, NEW d \in Days, d # day, NEW C \in SUBSET (V \cup Owns')
       PROVE  AtMost(Risk(C, d), Cap)
  <2>1. \A r \in Own(a)' : r[2] = day
    BY <1>5
  <2>2. Risk(C, d) \in SUBSET Risk(V \cup Owns, d)
    BY <1>9, <1>13, <2>1 DEF Risk
  <2>3. AtMost(Risk(V \cup Owns, d), Cap)
    BY DEF LossBound, Versions
  <2> QED
    BY <1>3, <2>2, <2>3, AtMostSubset
<1>14. book \in Versions /\ \A b \in Dispatchers : Going(b) \in Versions
  BY DEF Versions
<1>15. ASSUME NEW C \in SUBSET (book \cup Owns'), NEW d \in Days PROVE AtMost(Risk(C, d), Cap)
  <2>1. CASE d = day
    <3>1. /\ DayLossN - 1 \in Int /\ Cardinality(Dispatchers) \in Int
          /\ (DayLossN - 1) + Cardinality(Dispatchers) <= Cap
      BY <1>3
    <3> QED
      BY <1>4, <1>10, <1>12, <2>1, <3>1
  <2>2. CASE d # day
    BY <1>13, <1>14, <1>15, <2>2
  <2> QED
    BY <2>1, <2>2
<1>16. ASSUME NEW b \in Dispatchers, NEW d \in Days PROVE AtMost(Risk(Going(b)' \cup Owns', d), Cap)
  <2>1. CASE b = a
    <3>1. Going(b)' \cup Owns' \in SUBSET (book \cup Owns')
      BY <1>5, <1>9, <2>1
    <3> QED
      BY <1>15, <3>1
  <2>2. CASE b # a /\ d = day
    <3>1. Dispatchers = {a, b} /\ Cardinality(Dispatchers) = 2
      BY <2>2, DispatcherCount
    <3>2. Own(b) \in SUBSET Going(b) /\ Owns = Own(b)
      BY <1>5, <3>1 DEF Going, Owns
    <3>3. Going(b)' \cup Owns' \in SUBSET (Going(b) \cup Own(a)')
      BY <1>6, <1>9, <2>2, <3>2
    <3>4. DayLossN \in Int /\ 1 \in Int /\ DayLossN + 1 <= Cap
      BY <1>3, <3>1
    <3> QED
      BY <1>8, <1>11, <1>12, <2>2, <3>3, <3>4
  <2>3. CASE b # a /\ d # day
    <3>1. Going(b)' \cup Owns' \in SUBSET (Going(b) \cup Owns')
      BY <1>6, <2>3
    <3> QED
      BY <1>13, <1>14, <2>3, <3>1
  <2> QED
    BY <2>1, <2>2, <2>3
<1>17. ASSUME NEW d \in Days PROVE AtMost(Risk(book \cup Owns, d), Cap)'
  <2>1. AtMost(Risk(book \cup Owns', d), Cap)
    BY <1>15
  <2>2. Risk(book \cup Owns, d)' = Risk(book \cup Owns', d)
    BY <1>1 DEF Risk
  <2> QED
    BY <2>1, <2>2 DEF AtMost, Cap
<1>18. ASSUME NEW b \in Dispatchers, NEW d \in Days PROVE AtMost(Risk(Going(b) \cup Owns, d), Cap)'
  <2>1. AtMost(Risk(Going(b)' \cup Owns', d), Cap)
    BY <1>16
  <2>2. Risk(Going(b) \cup Owns, d)' = Risk(Going(b)' \cup Owns', d)
    BY <1>1 DEF Risk
  <2> QED
    BY <2>1, <2>2 DEF AtMost, Cap
<1>19. ASSUME NEW b \in Dispatchers, NEW c \in Dispatchers, b # c PROVE Near(Going(b), Coming(c))'
  <2>1. CASE b = a
    <3>1. Risk(Going(b), day)' \in SUBSET (Risk(book, day) \cup Own(a)')
      BY <1>1, <1>5, <2>1 DEF Risk
    <3>2. DayLossN - 1 \in Int /\ (DayLossN - 1) + 1 = DayLossN /\ DayLossN \in Int
      BY <1>3
    <3>3. AtMost(Risk(book, day) \cup Own(a)', (DayLossN - 1) + 1)
      BY <1>4, <1>8, <3>2, AtMostUnion
    <3>4. AtMost(Risk(book, day) \cup Own(a)', DayLossN)
      BY <3>2, <3>3
    <3>5. AtMost(Risk(Going(b), day)', DayLossN)
      BY <3>1, <3>2, <3>4, AtMostSubset
    <3> QED
      BY <3>5 DEF Near, AtMost
  <2>2. CASE b # a
    <3>1. Near(Going(b), Coming(c))
      BY <1>19 DEF LossBound
    <3>2. Going(b)' = Going(b) /\ Coming(c)' = Coming(c) /\ Risk(Going(b), day)' = Risk(Going(b), day)
      BY <1>1, <1>5, <1>6, <2>2 DEF Risk
    <3> QED
      BY <3>1, <3>2 DEF Near, AtMost
  <2> QED
    BY <2>1, <2>2
<1> QED
  BY <1>4, <1>17, <1>18, <1>19 DEF LossBound

(* The bounds are inductive. *)
LEMMA BoundStepAll ==
  ASSUME TypeOK, Carries, Duties, OwnSetups, BooksDated, LossBound, [Next]_vars
  PROVE  LossBound'
  BY CalmSteps, BoundCalm, BoundPass, BoundLoad, BoundSave, BoundDay, BoundCrash

(* They hold of the empty book. *)
LEMMA BoundInit == Init => OwnSetups /\ BooksDated /\ Duties /\ LossBound
PROOF
<1> SUFFICES ASSUME Init PROVE OwnSetups /\ BooksDated /\ Duties /\ LossBound
  OBVIOUS
<1>1. OwnSetups
  BY DispatcherDuty DEF Init, OwnSetups, Unsent, Noting
<1>2. BooksDated /\ Duties
  BY DEF Init, BooksDated, Dated, Duties, Duty, Places
<1>3. \A a \in Dispatchers : ~Passed(a) /\ Own(a) = {} /\ Going(a) = {} /\ Coming(a) = {}
  BY DispatcherDuty DEF Init, Passed, Noting, Own, NoteLoaded, Going, Coming
<1>4. Owns = {} /\ book = {}
  BY <1>3 DEF Owns, Init
<1>5. AtMost({}, Cap) /\ AtMost({}, DayLossN)
  <2>1. Cap \in Nat /\ DayLossN \in Nat
    BY GuardStateAssumption, DispatcherCount DEF Cap
  <2>2. AtMost({}, 0) /\ 0 <= Cap /\ 0 <= DayLossN /\ Cap \in Int /\ DayLossN \in Int
    BY <2>1, AtMostSmall
  <2> QED
    BY <2>2, AtMostWeaker
<1>6. \A d : Risk({}, d) = {}
  BY DEF Risk
<1>7. LossBound
  BY <1>3, <1>4, <1>5, <1>6 DEF LossBound, Near
<1> QED
  BY <1>1, <1>2, <1>7

(* No trading day books more losing setups than DAY_LOSS_N and one for each     *)
(* further dispatcher: not when both pass guard_ok together, nor when note()    *)
(* writes a stale book back, nor over restarts and carried positions.           *)
THEOREM LossesAreLimited == Spec => []LossLimit
PROOF
<1> DEFINE LossInv == TypeOK /\ Carries /\ Duties /\ OwnSetups /\ BooksDated /\ LossBound
<1>1. Init => LossInv
  BY InitType, BoundInit
<1>2. LossInv /\ [Next]_vars => LossInv'
  BY TypeInvariant, DutiesKept, OwnKept, BooksKept, BoundStepAll
<1>3. LossInv => LossLimit
  <2> SUFFICES ASSUME LossInv, NEW d \in Days
               PROVE  Cardinality({r \in book : r[2] = d /\ trade[r[1]] = "loss"}) <= Cap
    BY DEF LossLimit, Cap
  <2>1. AtMost(Risk(book \cup Owns, d), Cap) /\ Cap \in Int
    BY VersionsType DEF LossBound
  <2>2. {r \in book : r[2] = d /\ trade[r[1]] = "loss"} \in SUBSET Risk(book \cup Owns, d)
    BY DEF Risk
  <2>3. AtMost({r \in book : r[2] = d /\ trade[r[1]] = "loss"}, Cap)
    BY <2>1, <2>2, AtMostSubset
  <2> QED
    BY <2>3 DEF AtMost
<1> QED
  BY <1>1, <1>2, <1>3, PTL DEF Spec

(* A halt is lost only by a save that lifts it or is older than it. *)
LostHalt == \E t \in Threads : /\ at'[t] # at[t]
                               /\ at[t] \in {"arm", "latch day"} \/ copy[t].kill # "hard"

(* An update that hands on the kill it has read, or writes a hard one. *)
LEMMA HaltHandedOn ==
  ASSUME TypeOK, file.kill = "hard", file'.kill # "hard",
         NEW t \in Threads, NEW op, NEW new, NEW place, Update(t, op, new), GoTo(t, place),
         place # op,
         op \in {"arm", "latch day"} \/ new = file \/ new.kill = copy[t].kill
  PROVE  LostHalt
PROOF
<1>1. file' = new /\ at[t] = op /\ at'[t] = place
  BY DEF Update, GoTo, TypeOK
<1>2. at[t] \in {"arm", "latch day"} \/ copy[t].kill # "hard"
  BY <1>1
<1> QED
  BY <1>1, <1>2 DEF LostHalt

LEMMA HaltLost ==
  ASSUME TypeOK, [Next]_vars, file.kill = "hard", file'.kill # "hard"
  PROVE  LostHalt
PROOF
<1>0. \A t \in Threads : copy[t] \in States
  BY DEF TypeOK
<1>1. ASSUME NEW a \in Dispatchers, GuardDecision(a) PROVE LostHalt
  <2>0. a \in Threads
    BY DispatcherDuty
  <2>1. ASSUME NEW kind \in {"day", "hard"}, Latch(a, kind) PROVE LostHalt
    <3>1. file' = [copy[a] EXCEPT !.kill = kind, !.killDay = day] /\ file'.kill = kind
      BY <1>0, <2>0, <2>1 DEF Latch, Update, States
    <3>2. kind = "day"
      BY <2>1, <3>1
    <3>3. LatchOp[kind] = "latch day"
      BY <3>2 DEF LatchOp
    <3> QED
      BY <2>0, <2>1, <3>3, HaltHandedOn DEF Latch
  <2>2. CASE PendingGroup(a)
    <3>1. copy[a].kill # "hard" /\ ~GroupPending(copy[a])
      BY <1>0, <2>0, <2>2 DEF PendingGroup, States
    <3>2. at[a] = "group" /\ at'[a] = "stats"
      BY <2>0, <2>2, <3>1 DEF PendingGroup, GoTo, TypeOK
    <3> QED
      BY <2>0, <3>1, <3>2 DEF LostHalt
  <2> QED
    BY <1>1, <2>1, <2>2 DEF GuardDecision, Detect, RampQty, CheckKill, DayStats
<1>2. ASSUME NEW a \in Dispatchers, Dispatch(a) PROVE LostHalt
  <2>0. a \in Threads
    BY DispatcherDuty
  <2>1. CASE BeginSiblingBatch(a)
    <3>1. [copy[a] EXCEPT !.group = cur[a]].kill = copy[a].kill
      BY <1>0, <2>0 DEF States
    <3> QED
      BY <2>0, <2>1, <3>1, HaltHandedOn DEF BeginSiblingBatch, Refuse
  <2>2. CASE TouchSiblingBatch(a)
    BY <2>0, <2>2, HaltHandedOn DEF TouchSiblingBatch
  <2>3. CASE RollbackUncertain(a)
    BY <2>0, <2>3, HaltHandedOn DEF RollbackUncertain
  <2>4. CASE FinishSiblingBatch(a)
    <3>1. [copy[a] EXCEPT !.group = NoSetup].kill = copy[a].kill
      BY <1>0, <2>0 DEF States
    <3> QED
      BY <2>0, <2>4, <3>1, HaltHandedOn DEF FinishSiblingBatch
  <2>5. CASE CountSent(a)
    <3>1. [copy[a] EXCEPT !.sent = @ + 1].kill = copy[a].kill
      BY <1>0, <2>0 DEF States
    <3> QED
      BY <2>0, <2>5, <3>1, HaltHandedOn DEF CountSent, Noted
  <2> QED
    BY <1>2, <2>1, <2>2, <2>3, <2>4, <2>5 DEF Dispatch, Send, RollbackSiblingBatch, NoteLoad, NoteSave
<1>3. CASE Service
  <2>1. ASSUME NEW t \in Threads, Halt(t) PROVE FALSE
    BY <1>0, <2>1 DEF Halt, Update, States
  <2>2. ASSUME NEW t \in Threads, Beat(t) \/ Arm(t) PROVE LostHalt
    BY <2>2, HaltHandedOn DEF Beat, Arm
  <2>3. ASSUME NEW t \in Threads, EodFlattenCheck(t) PROVE LostHalt
    <3>1. [copy[t] EXCEPT !.eod = day].kill = copy[t].kill
      BY <1>0 DEF States
    <3> QED
      BY <2>3, <3>1, HaltHandedOn DEF EodFlattenCheck
  <2> QED
    BY <1>3, <2>1, <2>2, <2>3 DEF Service, Heartbeat, Request, Start, Load, FlattenAll
<1>4. CASE World
  BY <1>4 DEF World, Resolve, Expire, NewDay, Crash
<1>5. CASE UNCHANGED vars
  BY <1>5 DEF vars
<1> QED
  BY <1>1, <1>2, <1>3, <1>4, <1>5 DEF Next

(* A hard halt is lifted by ARM, replaced by the latch of the loss limit, or       *)
(* overwritten by a save of a thread that read guard_state.json before it; every   *)
(* other update hands it on.                                                       *)
THEOREM HaltAlwaysStands == Spec => HaltStands
PROOF
<1>1. TypeOK /\ [Next]_vars
        => [file.kill = "hard" /\ file'.kill # "hard" =>
              \E t \in Threads : /\ at'[t] # at[t]
                                 /\ at[t] \in {"arm", "latch day"} \/ copy[t].kill # "hard"]_vars
  BY HaltLost DEF LostHalt
<1> QED
  BY <1>1, GuardTypeCorrect, PTL DEF Spec, HaltStands

=============================================================================
