----------------------- MODULE GuardStateSetups_proof -----------------------
(***************************************************************************)
(* The setups of GuardState at the broker, as long as no save has undone   *)
(* another (~raced): none that may be live is forgotten, and there is no    *)
(* more than one of them for each dispatcher.  For any number of setups,   *)
(* days and restarts.                                                      *)
(*                                                                         *)
(*   - A dispatcher holds the reservation from begin_sibling_batch to the  *)
(*     end of note, or has given its setup up, or has booked it            *)
(*     (OrphansKept); so a live setup that nobody handles and the book     *)
(*     does not have is there only under a hard halt, or under the         *)
(*     reservation a restart left.                                         *)
(*   - The setups that live, or are about to, never number more than the   *)
(*     dispatchers (Counted): past guard_ok's group_pending there is no    *)
(*     such orphan, past its position_open no live row of the day.         *)
(***************************************************************************)
EXTENDS GuardStateSafety_proof

(* The dispatcher's reservation must be standing. *)
Reserving(a) == \/ at[a] \in {"send", "touch", "rollback", "uncertain", "latch hard"}
                \/ at[a] \in {"note", "count"} /\ decision[a] = "sent"
(* It is done with a setup that was not sent, or not wholly. *)
GivenUp(a) == \/ at[a] = "flatten"
              \/ at[a] \in {"note", "count", "finish"} /\ decision[a] = "blocked"
(* It has a row of it in the book. *)
Booked(a) == at[a] \in {"count", "finish"} /\ decision[a] = "sent"

Handled(g) == \E a \in Dispatchers : Handling(a, g)

(* A live setup of which only the reservation or a halt keeps the memory. *)
Orphan(g) == /\ trade[g] = "live" /\ ~Recorded(g) /\ g \notin letGo /\ ~Handled(g)
             /\ crashes = 0 \/ g \notin expired

OrphansKept ==
  /\ \A a \in Dispatchers : Reserving(a) => file.group = cur[a]
  /\ \A a \in Dispatchers : GivenUp(a) =>
       trade[cur[a]] # "live" \/ cur[a] \in letGo \/ file.kill = "hard"
  /\ \A a \in Dispatchers : Booked(a) => Recorded(cur[a])
  /\ \A a \in Dispatchers : at[a] = "rollback" => decision[a] = "blocked"
  /\ \A g \in Setups : Orphan(g) => file.kill = "hard" \/ (crashes > 0 /\ file.group = g)
Kept == raced \/ OrphansKept

-----------------------------------------------------------------------------
(* What only grows. *)
LEMMA OnlyGrows ==
  ASSUME TypeOK, [Next]_vars
  PROVE  /\ letGo \subseteq letGo' /\ expired \subseteq expired'
         /\ crashes' = 0 => crashes = 0
         /\ raced => raced'
PROOF
<1>0. crashes \in Nat
  BY GuardStateAssumption DEF TypeOK
<1>1. ASSUME NEW a \in Dispatchers, GuardDecision(a)
      PROVE  letGo \subseteq letGo' /\ expired' = expired /\ crashes' = crashes /\ (raced => raced')
  BY <1>1 DEF GuardDecision, Detect, RampQty, CheckKill, PendingGroup, DayStats, Latch,
              Update, Undoes, worldVars, history
<1>2. ASSUME NEW a \in Dispatchers, Dispatch(a)
      PROVE  letGo \subseteq letGo' /\ expired' = expired /\ crashes' = crashes /\ (raced => raced')
  BY <1>2 DEF Dispatch, BeginSiblingBatch, Send, TouchSiblingBatch, RollbackSiblingBatch,
              RollbackUncertain, FinishSiblingBatch, NoteLoad, NoteSave, CountSent,
              Update, Undoes, worldVars, history
<1>3. CASE Service
  <2>1. ASSUME NEW t \in Threads, Beat(t) \/ Halt(t) \/ Arm(t) \/ EodFlattenCheck(t)
        PROVE  letGo \subseteq letGo' /\ expired' = expired /\ crashes' = crashes /\ (raced => raced')
    BY <2>1 DEF Beat, Halt, Arm, EodFlattenCheck, Update, Undoes, worldVars
  <2>2. CASE Heartbeat \/ Request \/ \E t \in Threads : Load(t) \/ FlattenAll(t)
    BY <2>2 DEF Heartbeat, Request, Start, Load, FlattenAll, worldVars, history
  <2> QED
    BY <1>3, <2>1, <2>2 DEF Service
<1>4. CASE World
  BY <1>0, <1>4 DEF World, Resolve, Expire, NewDay, Crash, history
<1>5. CASE UNCHANGED vars
  BY <1>5 DEF vars, worldVars, history
<1> QED
  BY <1>1, <1>2, <1>3, <1>4, <1>5 DEF Next

(* The book loses no row and gains only those of a dispatcher in note(). *)
LEMMA BookGrows ==
  ASSUME TypeOK, [Next]_vars, ~raced'
  PROVE  /\ book \subseteq book'
         /\ \A r \in book' \ book : \E a \in Dispatchers : at[a] = "note" /\ r = <<cur[a], day>>
PROOF
<1>1. ASSUME NEW a \in Dispatchers, NoteSave(a)
      PROVE  rows[a] = book /\ at[a] = "note" /\ book' \in {book, book \cup {<<cur[a], day>>}}
  BY <1>1 DEF NoteSave
<1>2. ASSUME \A a \in Dispatchers : ~NoteSave(a) PROVE book' = book
  <2>1. ASSUME NEW a \in Dispatchers, GuardDecision(a) \/ Dispatch(a) PROVE book' = book
    BY <1>2, <2>1 DEF GuardDecision, Dispatch, Detect, RampQty, CheckKill, PendingGroup, DayStats, Latch,
                      BeginSiblingBatch, Send, TouchSiblingBatch, RollbackSiblingBatch, RollbackUncertain,
                      FinishSiblingBatch, NoteLoad, CountSent, Update
  <2>2. CASE Service
    BY <2>2 DEF Service, Heartbeat, Request, Start, Load, Beat, Halt, Arm, EodFlattenCheck,
                FlattenAll, Update
  <2>3. CASE World
    BY <2>3 DEF World, Resolve, Expire, NewDay, Crash
  <2>4. CASE UNCHANGED vars
    BY <2>4 DEF vars
  <2> QED
    BY <2>1, <2>2, <2>3, <2>4 DEF Next
<1> QED
  BY <1>1, <1>2

(* A save that undoes nothing writes the file back with its own change. *)
LEMMA CleanUpdate ==
  ASSUME NEW t, NEW op, NEW new, Update(t, op, new), ~raced'
  PROVE  /\ file' = new /\ (new = file \/ copy[t] = file)
         /\ file.kill = "hard" => file'.kill = "hard" \/ Live \subseteq letGo'
  BY DEF Update, Undoes

(* The reservation changes hands only when it is free, has expired or its own    *)
(* dispatcher finishes.                                                          *)
GroupFree == file.group = NoSetup \/ file.group \in expired
LEMMA GroupStep ==
  ASSUME TypeOK, [Next]_vars, ~raced'
  PROVE  \/ file'.group = file.group
         \/ GroupFree
         \/ \E a \in Dispatchers : at[a] = "finish" /\ file.group = cur[a]
PROOF
<1> DEFINE Result == \/ file'.group = file.group
                     \/ GroupFree
                     \/ \E a \in Dispatchers : at[a] = "finish" /\ file.group = cur[a]
<1>0. file \in States /\ \A t \in Threads : copy[t] \in States
  BY DEF TypeOK
<1>1. ASSUME NEW t, NEW op, NEW new, Update(t, op, new),
             new = file \/ new.group = copy[t].group
      PROVE  file'.group = file.group
  BY <1>1, CleanUpdate
<1>2. ASSUME NEW a \in Dispatchers, GuardDecision(a) PROVE Result
  <2>0. a \in Threads
    BY DispatcherDuty
  <2>1. ASSUME NEW kind \in {"day", "hard"}, Latch(a, kind) PROVE Result
    <3>1. [copy[a] EXCEPT !.kill = kind, !.killDay = day].group = copy[a].group
      BY <1>0, <2>0 DEF States
    <3> QED
      BY <1>1, <2>1, <3>1 DEF Latch
  <2>2. CASE PendingGroup(a)
    <3>1. CASE file' = file
      BY <3>1
    <3>2. CASE file' # file
      <4>1. copy[a] = file /\ ~GroupPending(copy[a])
        BY <2>2, <3>2 DEF PendingGroup
      <4> QED
        BY <4>1 DEF GroupPending, GroupFree
    <3> QED
      BY <3>1, <3>2
  <2> QED
    BY <1>2, <2>1, <2>2 DEF GuardDecision, Detect, RampQty, CheckKill, DayStats
<1>3. ASSUME NEW a \in Dispatchers, Dispatch(a) PROVE Result
  <2>0. a \in Threads
    BY DispatcherDuty
  <2>1. CASE BeginSiblingBatch(a)
    <3>1. CASE GroupPending(copy[a])
      BY <1>1, <2>1, <3>1 DEF BeginSiblingBatch
    <3>2. CASE ~GroupPending(copy[a])
      <4>1. PICK new : Update(a, "begin", new) /\ new = [copy[a] EXCEPT !.group = cur[a]]
        BY <2>1, <3>2 DEF BeginSiblingBatch
      <4>2. CASE new = file
        BY <4>1, <4>2, CleanUpdate
      <4>3. CASE copy[a] = file
        BY <3>2, <4>3 DEF GroupPending, GroupFree
      <4> QED
        BY <4>1, <4>2, <4>3, CleanUpdate
    <3> QED
      BY <3>1, <3>2
  <2>2. CASE FinishSiblingBatch(a)
    <3>1. CASE copy[a].group \in {NoSetup, cur[a]}
      <4>1. PICK new : Update(a, "finish", new) /\ at[a] = "finish"
        BY <2>2 DEF FinishSiblingBatch, Update
      <4>2. CASE new = file
        BY <4>1, <4>2, CleanUpdate
      <4>3. CASE copy[a] = file
        BY <3>1, <4>1, <4>3 DEF GroupFree
      <4> QED
        BY <4>1, <4>2, <4>3, CleanUpdate
    <3>2. CASE copy[a].group \notin {NoSetup, cur[a]}
      BY <1>1, <2>2, <3>2 DEF FinishSiblingBatch
    <3> QED
      BY <3>1, <3>2
  <2>3. CASE TouchSiblingBatch(a) \/ RollbackUncertain(a)
    BY <1>1, <2>3 DEF TouchSiblingBatch, RollbackUncertain
  <2>4. CASE CountSent(a)
    <3>1. [copy[a] EXCEPT !.sent = @ + 1].group = copy[a].group
      BY <1>0, <2>0 DEF States
    <3> QED
      BY <1>1, <2>4, <3>1 DEF CountSent
  <2> QED
    BY <1>3, <2>1, <2>2, <2>3, <2>4 DEF Dispatch, Send, RollbackSiblingBatch, NoteLoad, NoteSave
<1>4. CASE Service
  <2>1. ASSUME NEW t \in Threads, Beat(t) \/ Halt(t) \/ Arm(t) \/ EodFlattenCheck(t) PROVE Result
    <3>1. /\ [copy[t] EXCEPT !.kill = "hard", !.killDay = day].group = copy[t].group
          /\ [copy[t] EXCEPT !.kill = "off"].group = copy[t].group
          /\ [copy[t] EXCEPT !.eod = day].group = copy[t].group
      BY <1>0 DEF States
    <3> QED
      BY <1>1, <2>1, <3>1 DEF Beat, Halt, Arm, EodFlattenCheck
  <2> QED
    BY <1>4, <2>1 DEF Service, Heartbeat, Request, Start, Load, FlattenAll
<1>5. CASE World
  BY <1>5 DEF World, Resolve, Expire, NewDay, Crash
<1>6. CASE UNCHANGED vars
  BY <1>6 DEF vars
<1> QED
  BY <1>2, <1>3, <1>4, <1>5, <1>6 DEF Next

(* A hard halt ends only with the live setups let go. *)
LEMMA HaltStep ==
  ASSUME TypeOK, [Next]_vars, ~raced', file.kill = "hard"
  PROVE  file'.kill = "hard" \/ Live \subseteq letGo'
PROOF
<1>1. ASSUME NEW t, NEW op, NEW new, Update(t, op, new)
      PROVE  file'.kill = "hard" \/ Live \subseteq letGo'
  BY <1>1, CleanUpdate
<1>2. ASSUME NEW a \in Dispatchers, PendingGroup(a) PROVE file'.kill = "hard"
  <2>1. file' = file \/ (copy[a] = file /\ file' = [copy[a] EXCEPT !.group = NoSetup])
    BY <1>2 DEF PendingGroup
  <2> QED
    BY <2>1 DEF TypeOK, States
<1>3. ASSUME NEW a \in Dispatchers, GuardDecision(a)
      PROVE  file'.kill = "hard" \/ Live \subseteq letGo'
  BY <1>1, <1>2, <1>3 DEF GuardDecision, Detect, RampQty, CheckKill, DayStats, Latch
<1>4. ASSUME NEW a \in Dispatchers, Dispatch(a)
      PROVE  file'.kill = "hard" \/ Live \subseteq letGo'
  BY <1>1, <1>4 DEF Dispatch, BeginSiblingBatch, Send, TouchSiblingBatch, RollbackSiblingBatch,
                    RollbackUncertain, FinishSiblingBatch, NoteLoad, NoteSave, CountSent
<1>5. CASE Service
  BY <1>1, <1>5 DEF Service, Heartbeat, Request, Start, Load, Beat, Halt, Arm, EodFlattenCheck, FlattenAll
<1>6. CASE World
  BY <1>6 DEF World, Resolve, Expire, NewDay, Crash
<1>7. CASE UNCHANGED vars
  BY <1>7 DEF vars
<1> QED
  BY <1>3, <1>4, <1>5, <1>6, <1>7 DEF Next

(* Only the relay makes a setup live, its dispatcher's own. *)
LEMMA LiveStep ==
  ASSUME TypeOK, Carries, [Next]_vars, NEW g \in Setups, trade'[g] = "live", trade[g] # "live"
  PROVE  \E a \in Dispatchers : at[a] = "send" /\ cur[a] = g /\ at'[a] # "idle" /\ cur'[a] = g
PROOF
<1>1. ASSUME NEW a \in Dispatchers, GuardDecision(a) PROVE FALSE
  BY <1>1 DEF GuardDecision, Detect, RampQty, CheckKill, PendingGroup, DayStats, Latch, Update, worldVars
<1>2. ASSUME NEW a \in Dispatchers, NEW reply \in Replies, Send(a, reply)
      PROVE  at[a] = "send" /\ cur[a] = g /\ at'[a] # "idle" /\ cur'[a] = g
  BY <1>2, DispatcherDuty DEF Send, GoTo, TypeOK
<1>3. ASSUME NEW a \in Dispatchers, Dispatch(a), \A reply \in Replies : ~Send(a, reply) PROVE FALSE
  <2>1. CASE RollbackSiblingBatch(a)
    BY <2>1 DEF RollbackSiblingBatch, TypeOK
  <2> QED
    BY <1>3, <2>1 DEF Dispatch, BeginSiblingBatch, TouchSiblingBatch, RollbackUncertain,
                      FinishSiblingBatch, NoteLoad, NoteSave, CountSent, Update, worldVars
<1>4. CASE Service
  BY <1>4 DEF Service, Heartbeat, Request, Start, Load, Beat, Halt, Arm, EodFlattenCheck,
              FlattenAll, Update, worldVars
<1>5. CASE World
  BY <1>5 DEF World, Resolve, Expire, NewDay, Crash, TypeOK
<1>6. CASE UNCHANGED vars
  BY <1>6 DEF vars, worldVars
<1> QED
  BY <1>1, <1>2, <1>3, <1>4, <1>5, <1>6 DEF Next

(* Only a dispatcher's own steps and a restart change what it is doing. *)
Still(b) == /\ at'[b] = at[b] /\ decision'[b] = decision[b] /\ cur'[b] = cur[b]
            /\ at[b] = "group" => copy'[b] = copy[b]
LEMMA OneAtWork ==
  ASSUME TypeOK, Duties, [Next]_vars, NEW b \in Dispatchers
  PROVE  \/ Still(b) \/ Crash
         \/ GuardDecision(b) \/ Dispatch(b) \/ Beat(b) \/ FlattenAll(b)
PROOF
<1>0. b \in Threads /\ b # "hb" /\ b # "op"
  BY DispatcherDuty
<1>1. ASSUME NEW t, NEW op, NEW new, Update(t, op, new), t # b
      PROVE  copy'[b] = copy[b] /\ cur'[b] = cur[b]
  BY <1>0, <1>1 DEF Update, TypeOK
<1>2. ASSUME NEW t, NEW p, at' = [at EXCEPT ![t] = p], t # b PROVE at'[b] = at[b]
  BY <1>0, <1>2 DEF TypeOK
<1>3. ASSUME NEW t, NEW d, decision' = [decision EXCEPT ![t] = d], t # b PROVE decision'[b] = decision[b]
  BY <1>0, <1>3 DEF TypeOK
<1>4. ASSUME NEW a \in Dispatchers, a # b, GuardDecision(a) PROVE Still(b)
  <2>1. CASE \E kind \in {"day", "hard"} : Latch(a, kind)
    BY <1>1, <1>2, <1>3, <1>4, <2>1 DEF Latch, GoTo, Still
  <2>2. CASE \E g \in Setups : Detect(a, g)
    BY <1>0, <1>2, <1>4, <2>2 DEF Detect, GoTo, Still, TypeOK
  <2>3. CASE RampQty(a) \/ DayStats(a)
    BY <1>2, <1>3, <1>4, <2>3 DEF RampQty, DayStats, Refuse, GoTo, Still
  <2>4. CASE CheckKill(a) \/ PendingGroup(a)
    <3>1. copy'[b] = copy[b]
      BY <1>0, <1>4, <2>4 DEF CheckKill, PendingGroup, TypeOK
    <3> QED
      BY <1>2, <1>3, <1>4, <2>4, <3>1 DEF CheckKill, PendingGroup, Refuse, GoTo, Still
  <2> QED
    BY <1>4, <2>1, <2>2, <2>3, <2>4 DEF GuardDecision
<1>5. ASSUME NEW a \in Dispatchers, a # b, Dispatch(a) PROVE Still(b)
  <2>1. CASE BeginSiblingBatch(a)
    BY <1>1, <1>2, <1>3, <1>5, <2>1 DEF BeginSiblingBatch, Refuse, GoTo, Still
  <2>2. CASE \E reply \in Replies : Send(a, reply)
    BY <1>2, <1>3, <1>5, <2>2 DEF Send, GoTo, Still
  <2>3. CASE TouchSiblingBatch(a) \/ RollbackUncertain(a) \/ FinishSiblingBatch(a)
    BY <1>1, <1>2, <1>5, <2>3 DEF TouchSiblingBatch, RollbackUncertain, FinishSiblingBatch, GoTo, Still
  <2>4. CASE RollbackSiblingBatch(a) \/ NoteLoad(a)
    BY <1>2, <1>5, <2>4 DEF RollbackSiblingBatch, NoteLoad, GoTo, Still
  <2>5. CASE NoteSave(a) \/ CountSent(a)
    BY <1>1, <1>2, <1>5, <2>5 DEF NoteSave, CountSent, Noted, GoTo, Still
  <2> QED
    BY <1>5, <2>1, <2>2, <2>3, <2>4, <2>5 DEF Dispatch
<1>6. CASE Heartbeat \/ Request
  BY <1>0, <1>2, <1>6 DEF Heartbeat, Request, Start, GoTo, Still
<1>7. ASSUME NEW t \in Threads, Load(t) PROVE Still(b)
  BY <1>0, <1>7 DEF Load, Updates, Locked, Still, TypeOK
<1>8. ASSUME NEW t \in Threads, t # b, Beat(t) \/ Halt(t) \/ Arm(t) \/ EodFlattenCheck(t) \/ FlattenAll(t)
      PROVE  Still(b)
  <2>1. CASE Beat(t) \/ Halt(t) \/ Arm(t)
    BY <1>1, <1>2, <1>8, <2>1 DEF Beat, Halt, Arm, GoTo, Still
  <2>2. CASE EodFlattenCheck(t) \/ FlattenAll(t)
    BY <1>1, <1>2, <1>8, <2>2 DEF EodFlattenCheck, FlattenAll, GoTo, Still
  <2> QED
    BY <1>8, <2>1, <2>2
<1>9. ~(Halt(b) \/ Arm(b) \/ EodFlattenCheck(b))
  <2>1. at[b] \notin {"halt", "arm", "eod"}
    BY <1>0, DispatcherDuty DEF Duties
  <2> QED
    BY <2>1 DEF Halt, Arm, EodFlattenCheck, Update
<1>10. CASE Service
  BY <1>6, <1>7, <1>8, <1>9, <1>10 DEF Service
<1>11. CASE NewDay \/ \E g \in Setups : Resolve(g) \/ Expire(g)
  BY <1>11 DEF NewDay, Resolve, Expire, localVars, Still
<1>12. CASE UNCHANGED vars
  BY <1>12 DEF vars, localVars, Still
<1> QED
  BY <1>4, <1>5, <1>10, <1>11, <1>12 DEF Next, World

(* How a dispatcher comes to hold a reservation, to give its setup up and to     *)
(* book it, and that it leaves none of them unnoted.                             *)
Onward(b) ==
  /\ Reserving(b)' => cur'[b] = cur[b] /\ (Reserving(b) \/ file'.group = cur[b])
  /\ GivenUp(b)' => /\ cur'[b] = cur[b]
                    /\ GivenUp(b) \/ trade'[cur[b]] # "live" \/ cur[b] \in letGo' \/ file'.kill = "hard"
  /\ Booked(b)' => cur'[b] = cur[b] /\ (Booked(b) \/ \E r \in book' : r[1] = cur[b])
  /\ at'[b] = "rollback" => decision'[b] = "blocked"
  /\ at[b] # "idle" => \/ at'[b] # "idle" /\ cur'[b] = cur[b]
                       \/ GivenUp(b) \/ Booked(b) \/ \E r \in book' : r[1] = cur[b]

LEMMA OnwardDecision ==
  ASSUME TypeOK, Carries, OwnSetups, OrphansKept, NEW b \in Dispatchers, GuardDecision(b)
  PROVE  Onward(b)
PROOF
<1>0. b \in Threads /\ file \in States /\ copy[b] \in States
  BY DispatcherDuty DEF TypeOK
<1>1. ASSUME NEW p \in {"ramp", "beat", "group", "stats", "latch day", "begin"}, at' = [at EXCEPT ![b] = p],
             at[b] = "idle" \/ cur'[b] = cur[b]
      PROVE  Onward(b)
  <2>1. at'[b] = p
    BY <1>0, <1>1 DEF TypeOK
  <2> QED
    BY <1>1, <2>1 DEF Onward, Reserving, GivenUp, Booked
<1>2. ASSUME Refuse(b), at[b] \in Unsent, UNCHANGED <<trade, cur>> PROVE Onward(b)
  <2>1. at'[b] = "note" /\ decision'[b] = "blocked" /\ trade'[cur[b]] = "none"
    BY <1>0, <1>2 DEF Refuse, GoTo, TypeOK, OwnSetups
  <2> QED
    BY <1>2, <2>1 DEF Onward, Reserving, GivenUp, Booked
<1>3. CASE \E g \in Setups : Detect(b, g)
  BY <1>1, <1>3 DEF Detect, GoTo
<1>4. CASE RampQty(b)
  BY <1>1, <1>4 DEF RampQty, GoTo
<1>5. CASE CheckKill(b)
  <2>1. CASE Refuse(b)
    BY <1>2, <1>5, <2>1 DEF CheckKill, Unsent, worldVars
  <2>2. CASE GoTo(b, "group")
    BY <1>1, <1>5, <2>2 DEF CheckKill, GoTo
  <2> QED
    BY <1>5, <2>1, <2>2 DEF CheckKill
<1>6. CASE PendingGroup(b)
  <2>1. CASE Refuse(b)
    BY <1>2, <1>6, <2>1 DEF PendingGroup, Unsent, worldVars
  <2>2. CASE GoTo(b, "stats")
    BY <1>1, <1>6, <2>2 DEF PendingGroup, GoTo
  <2> QED
    BY <1>6, <2>1, <2>2 DEF PendingGroup
<1>7. CASE DayStats(b)
  <2>1. CASE Refuse(b)
    BY <1>2, <1>7, <2>1 DEF DayStats, Unsent, worldVars
  <2>2. CASE GoTo(b, "latch day") \/ GoTo(b, "begin")
    BY <1>1, <1>7, <2>2 DEF DayStats, GoTo
  <2> QED
    BY <1>7, <2>1, <2>2 DEF DayStats
<1>8. ASSUME NEW kind \in {"day", "hard"}, Latch(b, kind) PROVE Onward(b)
  <2>1. /\ at[b] = LatchOp[kind] /\ at'[b] = "flatten" /\ UNCHANGED <<trade, cur>>
        /\ file' = [copy[b] EXCEPT !.kill = kind, !.killDay = day]
    BY <1>0, <1>8 DEF Latch, Update, GoTo, TypeOK, worldVars
  <2>2. trade'[cur[b]] # "live" \/ file'.kill = "hard"
    <3>1. CASE kind = "day"
      <4>1. at[b] = "latch day"
        BY <2>1, <3>1 DEF LatchOp
      <4> QED
        BY <2>1, <4>1 DEF OwnSetups, Unsent
    <3>2. CASE kind = "hard"
      BY <1>0, <2>1, <3>2 DEF States
    <3> QED
      BY <3>1, <3>2
  <2> QED
    BY <2>1, <2>2 DEF Onward, Reserving, GivenUp, Booked
<1> QED
  BY <1>3, <1>4, <1>5, <1>6, <1>7, <1>8 DEF GuardDecision

LEMMA OnwardDispatch ==
  ASSUME TypeOK, Carries, OwnSetups, OrphansKept, NEW b \in Dispatchers, Dispatch(b)
  PROVE  Onward(b)
PROOF
<1>0. b \in Threads /\ copy[b] \in States /\ decision[b] \in {"sent", "blocked"}
  BY DispatcherDuty DEF TypeOK
<1>1. CASE BeginSiblingBatch(b)
  <2>1. CASE Refuse(b)
    <3>1. at'[b] = "note" /\ decision'[b] = "blocked" /\ trade'[cur[b]] = "none" /\ cur' = cur
      BY <1>0, <1>1, <2>1 DEF BeginSiblingBatch, Update, Refuse, GoTo, TypeOK, OwnSetups, Unsent, worldVars
    <3> QED
      BY <3>1 DEF Onward, Reserving, GivenUp, Booked
  <2>2. CASE ~Refuse(b)
    <3>1. at'[b] = "send" /\ cur' = cur /\ file' = [copy[b] EXCEPT !.group = cur[b]]
      BY <1>0, <1>1, <2>2 DEF BeginSiblingBatch, Update, GoTo, TypeOK
    <3>2. file'.group = cur[b]
      BY <1>0, <3>1 DEF States
    <3> QED
      BY <3>1, <3>2 DEF Onward, Reserving, GivenUp, Booked
  <2> QED
    BY <2>1, <2>2
<1>2. ASSUME NEW reply \in Replies, Send(b, reply) PROVE Onward(b)
  <2>1. at[b] = "send" /\ at'[b] \in {"touch", "finish"} /\ cur' = cur
    BY <1>0, <1>2 DEF Send, GoTo, TypeOK
  <2>2. CASE at'[b] = "finish"
    <3>1. reply = "rejected" \/ (reply = "lost" /\ b = "AB")
      BY <1>0, <1>2, <2>2, GuardStateAssumption DEF Send, GoTo, TypeOK
    <3>2. decision'[b] = "blocked"
      BY <1>0, <1>2, <3>1 DEF Send, TypeOK
    <3>3. trade'[cur[b]] # "live" \/ cur[b] \in letGo'
      <4>1. trade[cur[b]] = "none"
        BY <2>1 DEF OwnSetups, Unsent
      <4> QED
        BY <1>2, <3>1, <4>1 DEF Send
    <3> QED
      BY <2>1, <2>2, <3>2, <3>3 DEF Onward, Reserving, GivenUp, Booked
  <2>3. CASE at'[b] = "touch"
    BY <2>1, <2>3 DEF Onward, Reserving, GivenUp, Booked
  <2> QED
    BY <2>1, <2>2, <2>3
<1>3. CASE TouchSiblingBatch(b)
  <2>1. /\ at[b] = "touch" /\ cur' = cur /\ decision' = decision
        /\ at'[b] = IF decision[b] = "sent" THEN "note" ELSE "rollback"
    BY <1>0, <1>3 DEF TouchSiblingBatch, Update, GoTo, TypeOK
  <2> QED
    BY <1>0, <2>1 DEF Onward, Reserving, GivenUp, Booked
<1>4. CASE RollbackSiblingBatch(b)
  <2>1. /\ at[b] = "rollback" /\ cur' = cur /\ decision' = decision /\ decision[b] = "blocked"
        /\ at'[b] \in {"finish", "uncertain"}
    BY <1>0, <1>4 DEF RollbackSiblingBatch, GoTo, TypeOK, OrphansKept
  <2>2. CASE at'[b] = "finish"
    <3>1. trade' = [trade EXCEPT ![cur[b]] = "flat"]
      BY <1>0, <1>4, <2>2 DEF RollbackSiblingBatch, GoTo, TypeOK
    <3>2. cur[b] \in Setups
      BY <2>1 DEF Carries
    <3>3. trade'[cur[b]] = "flat"
      BY <3>1, <3>2 DEF TypeOK
    <3> QED
      BY <2>1, <2>2, <3>3 DEF Onward, Reserving, GivenUp, Booked
  <2>3. CASE at'[b] = "uncertain"
    BY <2>1, <2>3 DEF Onward, Reserving, GivenUp, Booked
  <2> QED
    BY <2>1, <2>2, <2>3
<1>5. CASE RollbackUncertain(b)
  <2>1. at[b] = "uncertain" /\ cur' = cur /\ at'[b] = "latch hard"
    BY <1>0, <1>5 DEF RollbackUncertain, Update, GoTo, TypeOK
  <2> QED
    BY <2>1 DEF Onward, Reserving, GivenUp, Booked
<1>6. CASE FinishSiblingBatch(b)
  <2>1. /\ at[b] = "finish" /\ cur' = cur /\ decision' = decision
        /\ at'[b] = IF decision[b] = "sent" THEN "idle" ELSE "note"
    BY <1>0, <1>6 DEF FinishSiblingBatch, Update, GoTo, TypeOK
  <2> QED
    BY <1>0, <2>1 DEF Onward, Reserving, GivenUp, Booked
<1>7. CASE NoteLoad(b)
  BY <1>7 DEF NoteLoad, Onward, Reserving, GivenUp, Booked
<1>8. CASE NoteSave(b)
  <2>1. at[b] = "note" /\ cur' = cur /\ decision' = decision
    BY <1>8 DEF NoteSave
  <2>2. decision[b] = "sent" => \E r \in book' : r[1] = cur[b]
    <3>1. decision[b] = "sent" => <<cur[b], day>> \in book'
      BY <1>8 DEF NoteSave
    <3> QED
      BY <3>1
  <2>3. at'[b] \in {"note", "finish", "idle"} \/ (at'[b] = "count" /\ decision[b] = "sent")
    <3>1. CASE GoTo(b, "count") /\ decision[b] = "sent"
      BY <1>0, <3>1 DEF GoTo, TypeOK
    <3>2. CASE Noted(b)
      BY <3>2, NotedPlace
    <3> QED
      BY <1>8, <3>1, <3>2 DEF NoteSave
  <2> QED
    BY <1>0, <2>1, <2>2, <2>3 DEF Onward, Reserving, GivenUp, Booked
<1>9. CASE CountSent(b)
  <2>1. at[b] = "count" /\ cur' = cur /\ decision' = decision
    BY <1>9 DEF CountSent, Update
  <2>2. at'[b] \in {"note", "finish", "idle"}
    BY <1>9, NotedPlace DEF CountSent
  <2> QED
    BY <1>0, <2>1, <2>2 DEF Onward, Reserving, GivenUp, Booked
<1> QED
  BY <1>1, <1>2, <1>3, <1>4, <1>5, <1>6, <1>7, <1>8, <1>9 DEF Dispatch

(* Every step of the system takes a dispatcher onward, but a restart. *)
LEMMA OnwardStep ==
  ASSUME TypeOK, Carries, Duties, OwnSetups, OrphansKept, [Next]_vars, ~Crash, NEW b \in Dispatchers
  PROVE  Onward(b)
PROOF
<1>0. b \in Threads /\ b # "hb"
  BY DispatcherDuty
<1>1. CASE Still(b)
  BY <1>1 DEF Still, Onward, Reserving, GivenUp, Booked, OrphansKept
<1>2. CASE Beat(b)
  <2>1. at[b] = "beat" /\ at'[b] = "check" /\ cur' = cur
    BY <1>0, <1>2 DEF Beat, Update, GoTo, TypeOK
  <2> QED
    BY <2>1 DEF Onward, Reserving, GivenUp, Booked
<1>3. CASE FlattenAll(b)
  <2>1. at[b] = "flatten" /\ at'[b] = "note" /\ cur' = cur /\ decision' = decision /\ decision[b] = "blocked"
    BY <1>0, <1>3 DEF FlattenAll, GoTo, TypeOK, OwnSetups
  <2> QED
    BY <2>1 DEF Onward, Reserving, GivenUp, Booked
<1> QED
  BY <1>1, <1>2, <1>3, OnwardDecision, OnwardDispatch, OneAtWork

-----------------------------------------------------------------------------
(* A new orphan is a live setup whose dispatcher has just let go of it.  *)
LEMMA OrphanSource ==
  ASSUME TypeOK, Carries, [Next]_vars, ~raced', NEW g \in Setups, Orphan(g)'
  PROVE  /\ trade[g] = "live" /\ ~Recorded(g) /\ g \notin letGo
         /\ crashes = 0 \/ g \notin expired
         /\ Orphan(g) \/ Handled(g)
PROOF
<1>1. /\ trade'[g] = "live" /\ ~(\E r \in book' : r[1] = g) /\ g \notin letGo'
      /\ \A a \in Dispatchers : ~(at'[a] # "idle" /\ cur'[a] = g)
      /\ crashes' = 0 \/ g \notin expired'
  BY DEF Orphan, Recorded, Handled, Handling
<1>2. trade[g] = "live"
  BY <1>1, LiveStep
<1>3. ~Recorded(g)
  BY <1>1, BookGrows DEF Recorded
<1>4. g \notin letGo /\ (crashes = 0 \/ g \notin expired)
  BY <1>1, OnlyGrows
<1> QED
  BY <1>2, <1>3, <1>4 DEF Orphan

(* What a dispatcher's place says of a setup at the broker. *)
LEMMA LivePlaces ==
  ASSUME TypeOK, Carries, Duties, OwnSetups, NEW a \in Dispatchers, at[a] # "idle", trade[cur[a]] = "live"
  PROVE  Reserving(a) \/ GivenUp(a) \/ Booked(a)
PROOF
<1>1. at[a] \in Places \ {"halt", "arm", "eod"} /\ decision[a] \in {"sent", "blocked"}
  BY DispatcherDuty DEF Duties, TypeOK
<1>2. at[a] \notin Unsent
  BY DEF OwnSetups
<1> QED
  BY <1>1, <1>2 DEF Places, Updates, Locked, Unsent, Reserving, GivenUp, Booked

(* The other dispatchers, the operator and the heartbeat leave a reservation.    *)
LEMMA ReservedStep ==
  ASSUME TypeOK, Carries, OwnSetups, OrphansKept, [Next]_vars, ~raced',
         NEW b \in Dispatchers, Reserving(b)
  PROVE  file'.group = cur[b]
PROOF
<1>1. file.group = cur[b] /\ at[b] # "idle" /\ at[b] # "finish"
  BY DEF OrphansKept, Reserving
<1>2. cur[b] \in Setups /\ cur[b] \notin expired /\ cur[b] # NoSetup
  BY <1>1, NoSetupAssumption DEF Carries, OwnSetups
<1>3. ~GroupFree
  BY <1>1, <1>2 DEF GroupFree
<1>4. ASSUME NEW a \in Dispatchers, at[a] = "finish", file.group = cur[a] PROVE FALSE
  BY <1>1, <1>2, <1>4 DEF OwnSetups
<1> QED
  BY <1>1, <1>3, <1>4, GroupStep

(* A setup that was given up, or that only a halt remembers, stays so. *)
LEMMA GivenUpStep ==
  ASSUME TypeOK, Carries, [Next]_vars, ~raced', NEW g \in Setups,
         trade[g] # "live" \/ g \in letGo \/ file.kill = "hard",
         \A a \in Dispatchers : at[a] = "send" => cur[a] # g
  PROVE  trade'[g] # "live" \/ g \in letGo' \/ file'.kill = "hard"
PROOF
<1>1. CASE trade[g] # "live"
  BY <1>1, LiveStep
<1>2. CASE g \in letGo
  BY <1>2, OnlyGrows
<1>3. CASE file.kill = "hard" /\ trade[g] = "live"
  BY <1>3, HaltStep DEF Live
<1> QED
  BY <1>1, <1>2, <1>3

(* Nothing that may be live is forgotten, whatever a dispatcher's step. *)
LEMMA KeptStep ==
  ASSUME TypeOK, Carries, Duties, OwnSetups, OrphansKept, [Next]_vars, ~raced', ~Crash
  PROVE  OrphansKept'
PROOF
<1>0. crashes \in Nat /\ crashes' \in Nat
  BY TypeInvariant, GuardStateAssumption DEF TypeOK
<1>1. ASSUME NEW b \in Dispatchers, Reserving(b)' PROVE (file.group = cur[b])'
  <2>1. cur'[b] = cur[b] /\ (Reserving(b) \/ file'.group = cur[b])
    BY <1>1, OnwardStep DEF Onward
  <2> QED
    BY <2>1, ReservedStep
<1>2. ASSUME NEW b \in Dispatchers, GivenUp(b)'
      PROVE  (trade[cur[b]] # "live" \/ cur[b] \in letGo \/ file.kill = "hard")'
  <2>1. /\ cur'[b] = cur[b]
        /\ GivenUp(b) \/ trade'[cur[b]] # "live" \/ cur[b] \in letGo' \/ file'.kill = "hard"
    BY <1>2, OnwardStep DEF Onward
  <2>2. CASE GivenUp(b)
    <3>1. at[b] # "idle" /\ at[b] # "send" /\ cur[b] \in Setups /\ cur[b] # NoSetup
      BY <2>2, NoSetupAssumption DEF GivenUp, Carries
    <3>2. \A a \in Dispatchers : at[a] = "send" => cur[a] # cur[b]
      BY <3>1 DEF OwnSetups
    <3>3. trade[cur[b]] # "live" \/ cur[b] \in letGo \/ file.kill = "hard"
      BY <2>2 DEF OrphansKept
    <3> QED
      BY <2>1, <3>1, <3>2, <3>3, GivenUpStep
  <2> QED
    BY <2>1, <2>2
<1>3. ASSUME NEW b \in Dispatchers, Booked(b)' PROVE Recorded(cur[b])'
  <2>1. cur'[b] = cur[b] /\ (Booked(b) \/ \E r \in book' : r[1] = cur[b])
    BY <1>3, OnwardStep DEF Onward
  <2>2. CASE Booked(b)
    BY <2>1, <2>2, BookGrows DEF OrphansKept, Recorded
  <2> QED
    BY <2>1, <2>2 DEF Recorded
<1>4. \A b \in Dispatchers : (at[b] = "rollback" => decision[b] = "blocked")'
  BY OnwardStep DEF Onward
<1>5. ASSUME NEW g \in Setups, Orphan(g)'
      PROVE  (file.kill = "hard" \/ (crashes > 0 /\ file.group = g))'
  <2>1. trade[g] = "live" /\ trade'[g] = "live" /\ ~Recorded(g) /\ g \notin letGo /\ g \notin letGo'
    BY <1>5, OrphanSource DEF Orphan
  <2>2. file.kill = "hard" => file'.kill = "hard"
    BY <2>1, HaltStep DEF Live
  <2>3. CASE Orphan(g)
    <3>1. CASE file.kill = "hard"
      BY <2>2, <3>1
    <3>2. CASE crashes > 0 /\ file.group = g
      <4>1. crashes' > 0 /\ g \notin expired /\ g # NoSetup
        BY <1>0, <2>3, <3>2, OnlyGrows, NoSetupAssumption DEF Orphan
      <4>2. ~GroupFree
        BY <3>2, <4>1 DEF GroupFree
      <4>3. ASSUME NEW a \in Dispatchers, at[a] = "finish", file.group = cur[a] PROVE FALSE
        BY <2>3, <3>2, <4>3 DEF Orphan, Handled, Handling
      <4> QED
        BY <3>2, <4>1, <4>2, <4>3, GroupStep
    <3> QED
      BY <2>3, <3>1, <3>2 DEF OrphansKept
  <2>4. CASE ~Orphan(g)
    <3>1. PICK a \in Dispatchers : at[a] # "idle" /\ cur[a] = g
      BY <1>5, <2>4, OrphanSource DEF Handled, Handling
    <3>2. ~(at'[a] # "idle" /\ cur'[a] = g) /\ ~(\E r \in book' : r[1] = g)
      BY <1>5 DEF Orphan, Recorded, Handled, Handling
    <3>3. GivenUp(a) \/ Booked(a)
      BY <3>1, <3>2, OnwardStep DEF Onward
    <3> QED
      BY <2>1, <2>2, <3>1, <3>3 DEF OrphansKept
  <2> QED
    BY <2>3, <2>4
<1> QED
  BY <1>1, <1>2, <1>3, <1>4, <1>5 DEF OrphansKept

(* A restart leaves what was under way to the reservation, the book or the halt. *)
LEMMA KeptCrash ==
  ASSUME TypeOK, Carries, Duties, OwnSetups, OrphansKept, Crash, ~raced'
  PROVE  OrphansKept'
PROOF
<1>0. [Next]_vars /\ crashes \in Nat /\ crashes' = crashes + 1 /\ file' = file
  BY GuardStateAssumption DEF Next, World, Crash, TypeOK
<1>1. \A a \in Dispatchers : at'[a] = "idle"
  BY DispatcherDuty DEF Crash
<1>2. ASSUME NEW g \in Setups, Orphan(g)'
      PROVE  (file.kill = "hard" \/ (crashes > 0 /\ file.group = g))'
  <2>1. /\ trade[g] = "live" /\ ~Recorded(g) /\ g \notin letGo
        /\ Orphan(g) \/ Handled(g)
    BY <1>0, <1>2, OrphanSource
  <2>2. CASE Orphan(g)
    BY <1>0, <2>2 DEF OrphansKept
  <2>3. CASE Handled(g)
    <3>1. PICK a \in Dispatchers : at[a] # "idle" /\ cur[a] = g
      BY <2>3 DEF Handled, Handling
    <3>2. file.group = g \/ file.kill = "hard"
      BY <2>1, <3>1, LivePlaces DEF OrphansKept
    <3> QED
      BY <1>0, <3>2
  <2> QED
    BY <2>1, <2>2, <2>3
<1> QED
  BY <1>1, <1>2 DEF OrphansKept, Reserving, GivenUp, Booked

KeptInv == TypeOK /\ Carries /\ Duties /\ OwnSetups /\ Kept

LEMMA KeptInit == Init => KeptInv
PROOF
<1> SUFFICES ASSUME Init PROVE KeptInv
  OBVIOUS
<1>1. OrphansKept
  BY DispatcherDuty DEF Init, OrphansKept, Reserving, GivenUp, Booked, Orphan
<1> QED
  BY <1>1, InitType, BoundInit DEF KeptInv, Kept

LEMMA KeptInvariant == KeptInv /\ [Next]_vars => KeptInv'
PROOF
<1> SUFFICES ASSUME KeptInv, [Next]_vars PROVE KeptInv'
  OBVIOUS
<1>1. CASE raced'
  BY <1>1, TypeInvariant, DutiesKept, OwnKept DEF KeptInv, Kept
<1>2. CASE ~raced'
  <2>1. OrphansKept
    BY <1>2, OnlyGrows DEF KeptInv, Kept
  <2>2. OrphansKept'
    BY <1>2, <2>1, KeptStep, KeptCrash DEF KeptInv
  <2> QED
    BY <2>2, TypeInvariant, DutiesKept, OwnKept DEF KeptInv, Kept
<1> QED
  BY <1>1, <1>2

(* Until its reservation expires, a setup that may be live is handled, booked or *)
(* reserved, or the account is halted, across refusals, rollbacks and restarts;  *)
(* unless a save has undone another thread's.                                    *)
THEOREM NoSetupForgotten == Spec => []LiveIsRemembered
PROOF
<1>1. KeptInv => LiveIsRemembered
  <2> SUFFICES ASSUME KeptInv, ~raced PROVE LiveIsRemembered
    BY DEF LiveIsRemembered
  <2>1. OrphansKept
    BY DEF KeptInv, Kept
  <2>2. \A a \in Dispatchers : at[a] \in {"send", "touch", "rollback"} => file.group = cur[a]
    BY <2>1 DEF OrphansKept, Reserving
  <2>3. ASSUME NEW g \in Live \ (expired \cup letGo)
        PROVE  \/ \E a \in Dispatchers : Handling(a, g)
               \/ Recorded(g) \/ file.group = g \/ file.kill = "hard"
    <3>1. CASE Orphan(g)
      BY <2>1, <3>1 DEF OrphansKept, Live
    <3>2. CASE ~Orphan(g)
      BY <2>3, <3>2 DEF Orphan, Handled, Live
    <3> QED
      BY <3>1, <3>2
  <2> QED
    BY <2>2, <2>3 DEF LiveIsRemembered
<1> QED
  BY <1>1, KeptInit, KeptInvariant, PTL DEF Spec

-----------------------------------------------------------------------------
(* Counting the setups at the broker.  Entering: those that are live and         *)
(* unrecorded, and those of dispatchers past guard_ok's group_pending.  Standing: *)
(* those, the live ones of the day's book, and those of dispatchers past          *)
(* position_open.  A dispatcher passes each check when there are none, and then   *)
(* there is one for each dispatcher at most.                                      *)
Engaged(a) == at[a] \in {"begin", "send"} \/ (at[a] # "idle" /\ trade[cur[a]] = "live")
Cleared(a) == at[a] = "stats" \/ (at[a] = "group" /\ ~GroupPending(copy[a]))
Orphans  == {g \in Setups : Orphan(g)}
Entering == Orphans \cup {cur[a] : a \in {b \in Dispatchers : Engaged(b) \/ Cleared(b)}}
Standing == Orphans \cup {g \in Live : <<g, day>> \in book}
                    \cup {cur[a] : a \in {b \in Dispatchers : Engaged(b)}}

OneEach == AtMost(Entering, Cardinality(Dispatchers)) /\ AtMost(Standing, Cardinality(Dispatchers))
Counted == raced \/ OneEach

(* A dispatcher that passes guard_ok's group_pending, or its position_open. *)
PassesGroup(a) == CheckKill(a) /\ at'[a] = "group" /\ ~GroupPending(file)
PassesOpen(a)  == DayStats(a) /\ at'[a] = "begin"

(* Only these checks bring a dispatcher further in. *)
LEMMA EngagedStep ==
  ASSUME TypeOK, Carries, Duties, OwnSetups, [Next]_vars, NEW b \in Dispatchers, Engaged(b)'
  PROVE  cur'[b] = cur[b] /\ (Engaged(b) \/ PassesOpen(b))
PROOF
<1>0. b \in Threads /\ b # "hb"
  BY DispatcherDuty
<1>1. at'[b] # "idle" /\ (at'[b] \in {"begin", "send"} \/ trade'[cur'[b]] = "live")
  BY DEF Engaged
<1>2. ~Crash
  BY <1>0, <1>1 DEF Crash
<1>3. ASSUME NEW g \in Setups, Detect(b, g) PROVE FALSE
  <2>1. at'[b] = "ramp" /\ cur'[b] = g /\ trade' = trade /\ g \in Setups \ offered
    BY <1>0, <1>3 DEF Detect, GoTo, TypeOK
  <2> QED
    BY <1>1, <2>1 DEF OwnSetups
<1>4. at[b] # "idle" /\ cur'[b] = cur[b] /\ (at'[b] \in {"begin", "send"} => at[b] \in {"begin", "send"} \/ PassesOpen(b))
  <2>1. CASE Still(b)
    BY <1>1, <2>1 DEF Still
  <2>2. CASE Beat(b) \/ FlattenAll(b)
    BY <1>0, <2>2 DEF Beat, FlattenAll, Update, GoTo, TypeOK
  <2>3. CASE GuardDecision(b)
    <3>1. ASSUME NEW kind \in {"day", "hard"}, Latch(b, kind)
          PROVE  at[b] # "idle" /\ at'[b] = "flatten" /\ cur' = cur
      <4>1. at[b] = LatchOp[kind] /\ at'[b] = "flatten" /\ cur' = cur
        BY <1>0, <3>1 DEF Latch, Update, GoTo, TypeOK
      <4>2. LatchOp["day"] # "idle" /\ LatchOp["hard"] # "idle"
        BY DEF LatchOp
      <4> QED
        BY <4>1, <4>2
    <3>2. CASE RampQty(b) \/ CheckKill(b) \/ PendingGroup(b)
      BY <1>0, <3>2 DEF RampQty, CheckKill, PendingGroup, Refuse, GoTo, TypeOK
    <3>3. CASE DayStats(b)
      <4>1. at[b] = "stats" /\ cur' = cur /\ (Refuse(b) \/ GoTo(b, "latch day") \/ GoTo(b, "begin"))
        BY <3>3 DEF DayStats
      <4>2. at'[b] \in {"note", "latch day", "begin"}
        BY <1>0, <4>1 DEF Refuse, GoTo, TypeOK
      <4> QED
        BY <3>3, <4>1, <4>2 DEF PassesOpen
    <3> QED
      BY <1>3, <2>3, <3>1, <3>2, <3>3 DEF GuardDecision
  <2>4. CASE Dispatch(b)
    <3>1. CASE BeginSiblingBatch(b)
      BY <1>0, <3>1 DEF BeginSiblingBatch, Refuse, Update, GoTo, TypeOK
    <3>2. CASE \E reply \in Replies : Send(b, reply)
      BY <1>0, <3>2 DEF Send, GoTo, TypeOK
    <3>3. CASE TouchSiblingBatch(b) \/ RollbackUncertain(b) \/ FinishSiblingBatch(b)
      BY <1>0, <3>3 DEF TouchSiblingBatch, RollbackUncertain, FinishSiblingBatch, Update, GoTo, TypeOK
    <3>4. CASE RollbackSiblingBatch(b) \/ NoteLoad(b)
      BY <1>0, <3>4 DEF RollbackSiblingBatch, NoteLoad, GoTo, TypeOK
    <3>5. CASE NoteSave(b) \/ CountSent(b)
      <4>1. at'[b] \in {"note", "finish", "idle", "count"}
        BY <1>0, <3>5, NotedPlace DEF NoteSave, CountSent, GoTo, TypeOK
      <4> QED
        BY <3>5, <4>1 DEF NoteSave, CountSent, Update
    <3> QED
      BY <2>4, <3>1, <3>2, <3>3, <3>4, <3>5 DEF Dispatch
  <2> QED
    BY <1>2, <2>1, <2>2, <2>3, <2>4, OneAtWork
<1>5. CASE at'[b] \in {"begin", "send"}
  BY <1>4, <1>5 DEF Engaged
<1>6. CASE trade'[cur'[b]] = "live"
  <2>1. cur[b] \in Setups /\ cur[b] # NoSetup
    BY <1>4, NoSetupAssumption DEF Carries
  <2>2. CASE trade[cur[b]] = "live"
    BY <1>4, <2>2 DEF Engaged
  <2>3. CASE trade[cur[b]] # "live"
    <3>1. PICK a \in Dispatchers : at[a] = "send" /\ cur[a] = cur[b]
      BY <1>4, <1>6, <2>1, <2>3, LiveStep
    <3>2. a = b
      BY <2>1, <3>1 DEF OwnSetups
    <3> QED
      BY <1>4, <3>1, <3>2 DEF Engaged
  <2> QED
    BY <2>2, <2>3
<1> QED
  BY <1>1, <1>5, <1>6

(* A reservation does not expire while a dispatcher is at work. *)
LEMMA ExpiredStep ==
  ASSUME TypeOK, [Next]_vars, NEW b \in Dispatchers, at[b] # "idle"
  PROVE  expired' = expired
PROOF
<1>1. ASSUME NEW a \in Dispatchers, GuardDecision(a) PROVE expired' = expired
  BY <1>1 DEF GuardDecision, Detect, RampQty, CheckKill, PendingGroup, DayStats, Latch, Update, worldVars
<1>2. ASSUME NEW a \in Dispatchers, Dispatch(a) PROVE expired' = expired
  BY <1>2 DEF Dispatch, BeginSiblingBatch, Send, TouchSiblingBatch, RollbackSiblingBatch,
              RollbackUncertain, FinishSiblingBatch, NoteLoad, NoteSave, CountSent, Update, worldVars
<1>3. CASE Service
  BY <1>3 DEF Service, Heartbeat, Request, Start, Load, Beat, Halt, Arm, EodFlattenCheck,
              FlattenAll, Update, worldVars
<1>4. CASE World
  BY <1>4 DEF World, Resolve, Expire, NewDay, Crash
<1>5. CASE UNCHANGED vars
  BY <1>5 DEF vars, worldVars
<1> QED
  BY <1>1, <1>2, <1>3, <1>4, <1>5 DEF Next

LEMMA ClearedStep ==
  ASSUME TypeOK, Carries, Duties, OwnSetups, [Next]_vars, NEW b \in Dispatchers, Cleared(b)'
  PROVE  cur'[b] = cur[b] /\ (Cleared(b) \/ PassesGroup(b))
PROOF
<1>0. b \in Threads /\ b # "hb"
  BY DispatcherDuty
<1>1. at'[b] \in {"stats", "group"} /\ (at'[b] = "group" => ~(copy'[b].group # NoSetup /\ copy'[b].group \notin expired'))
  BY DEF Cleared, GroupPending
<1>2. ~Crash
  BY <1>0, <1>1 DEF Crash
<1>3. CASE Still(b)
  <2>1. at[b] = "group" => copy'[b] = copy[b] /\ expired' = expired
    BY <1>0, <1>3, ExpiredStep DEF Still
  <2> QED
    BY <1>1, <1>3, <2>1 DEF Still, Cleared, GroupPending
<1>4. CASE Beat(b) \/ FlattenAll(b)
  BY <1>0, <1>1, <1>4 DEF Beat, FlattenAll, Update, GoTo, TypeOK
<1>5. CASE GuardDecision(b)
  <2>1. CASE CheckKill(b)
    <3>1. at'[b] = "group" /\ copy' = [copy EXCEPT ![b] = file] /\ cur' = cur /\ expired' = expired
      BY <1>0, <1>1, <2>1 DEF CheckKill, Refuse, GoTo, TypeOK, worldVars
    <3>2. copy'[b] = file
      BY <1>0, <3>1 DEF TypeOK
    <3> QED
      BY <1>1, <2>1, <3>1, <3>2 DEF PassesGroup, GroupPending
  <2>2. CASE PendingGroup(b)
    BY <1>0, <1>1, <2>2 DEF PendingGroup, Refuse, GoTo, TypeOK, Cleared
  <2>3. CASE DayStats(b)
    <3>1. Refuse(b) \/ GoTo(b, "latch day") \/ GoTo(b, "begin")
      BY <2>3 DEF DayStats
    <3>2. at'[b] \in {"note", "latch day", "begin"}
      BY <1>0, <3>1 DEF Refuse, GoTo, TypeOK
    <3> QED
      BY <1>1, <3>2
  <2>4. CASE RampQty(b) \/ (\E g \in Setups : Detect(b, g)) \/ \E kind \in {"day", "hard"} : Latch(b, kind)
    BY <1>0, <1>1, <2>4 DEF RampQty, Detect, Latch, GoTo, TypeOK
  <2> QED
    BY <1>5, <2>1, <2>2, <2>3, <2>4 DEF GuardDecision
<1>6. CASE Dispatch(b)
  <2>1. at'[b] \notin {"stats", "group"}
    <3>1. CASE BeginSiblingBatch(b) \/ \E reply \in Replies : Send(b, reply)
      BY <1>0, <3>1 DEF BeginSiblingBatch, Refuse, Send, GoTo, TypeOK
    <3>2. CASE TouchSiblingBatch(b) \/ RollbackUncertain(b) \/ FinishSiblingBatch(b)
               \/ RollbackSiblingBatch(b) \/ NoteLoad(b)
      BY <1>0, <3>2 DEF TouchSiblingBatch, RollbackUncertain, FinishSiblingBatch,
                        RollbackSiblingBatch, NoteLoad, GoTo, TypeOK
    <3>3. CASE NoteSave(b) \/ CountSent(b)
      BY <1>0, <3>3, NotedPlace DEF NoteSave, CountSent, GoTo, TypeOK
    <3> QED
      BY <1>6, <3>1, <3>2, <3>3 DEF Dispatch
  <2> QED
    BY <1>1, <2>1
<1> QED
  BY <1>2, <1>3, <1>4, <1>5, <1>6, OneAtWork

(* Where the orphans of the next state come from. *)
LEMMA OrphansMove ==
  ASSUME TypeOK, Carries, [Next]_vars, ~raced'
  PROVE  Orphans' \subseteq Orphans \cup {cur[a] : a \in {b \in Dispatchers : Engaged(b)}}
PROOF
<1> SUFFICES ASSUME NEW g \in Setups, Orphan(g)'
             PROVE  g \in Orphans \cup {cur[a] : a \in {b \in Dispatchers : Engaged(b)}}
  BY DEF Orphans
<1>1. trade[g] = "live" /\ (Orphan(g) \/ Handled(g))
  BY OrphanSource
<1>2. CASE Orphan(g)
  BY <1>2 DEF Orphans
<1>3. CASE Handled(g)
  <2>1. PICK a \in Dispatchers : at[a] # "idle" /\ cur[a] = g
    BY <1>3 DEF Handled, Handling
  <2>2. Engaged(a)
    BY <1>1, <2>1 DEF Engaged
  <2> QED
    BY <2>1, <2>2
<1> QED
  BY <1>1, <1>2, <1>3

(* Without a check passed the sets do not grow; passing position_open leads from  *)
(* the one set into the other.                                                    *)
LEMMA EnteringMove ==
  ASSUME TypeOK, Carries, Duties, OwnSetups, [Next]_vars, ~raced',
         \A a \in Dispatchers : ~PassesGroup(a)
  PROVE  Entering' \subseteq Entering
PROOF
<1>1. Orphans' \subseteq Entering
  BY OrphansMove DEF Entering
<1>2. ASSUME NEW b \in Dispatchers, Engaged(b)' \/ Cleared(b)'
      PROVE  cur'[b] = cur[b] /\ (Engaged(b) \/ Cleared(b))
  <2>1. PassesOpen(b) => Cleared(b)
    BY DEF PassesOpen, DayStats, Cleared
  <2> QED
    BY <1>2, <2>1, EngagedStep, ClearedStep
<1>3. {cur[a] : a \in {b \in Dispatchers : Engaged(b) \/ Cleared(b)}}' \subseteq Entering
  BY <1>2 DEF Entering
<1> QED
  BY <1>1, <1>3 DEF Entering

LEMMA StandingMove ==
  ASSUME TypeOK, Carries, Duties, OwnSetups, BooksDated, [Next]_vars, ~raced',
         \A a \in Dispatchers : ~PassesOpen(a)
  PROVE  Standing' \subseteq Standing
PROOF
<1>1. Orphans' \subseteq Standing
  BY OrphansMove DEF Standing
<1>2. {cur[a] : a \in {b \in Dispatchers : Engaged(b)}}' \subseteq Standing
  <2>1. \A b \in Dispatchers : Engaged(b)' => cur'[b] = cur[b] /\ Engaged(b)
    BY EngagedStep
  <2> QED
    BY <2>1 DEF Standing
<1>3. ASSUME NEW g \in Setups, trade'[g] = "live", <<g, day'>> \in book' PROVE g \in Standing
  <2>1. CASE \E a \in Dispatchers : Engaged(a) /\ cur[a] = g
    BY <2>1 DEF Standing
  <2>2. CASE ~ \E a \in Dispatchers : Engaged(a) /\ cur[a] = g
    <3>1. trade[g] = "live"
      BY <1>3, <2>2, LiveStep DEF Engaged
    <3>2. <<g, day'>> \in book
      <4>1. ASSUME NEW a \in Dispatchers, at[a] = "note", <<g, day'>> = <<cur[a], day>> PROVE FALSE
        BY <2>2, <3>1, <4>1 DEF Engaged
      <4> QED
        BY <1>3, <4>1, BookGrows
    <3>3. day' = day
      <4>1. day' <= day
        BY <3>2 DEF BooksDated, Dated
      <4> QED
        BY <4>1, DayStep
    <3> QED
      BY <3>1, <3>2, <3>3 DEF Standing, Live
  <2> QED
    BY <2>1, <2>2
<1>4. {g \in Live : <<g, day>> \in book}' \subseteq Standing
  BY <1>3 DEF Live
<1> QED
  BY <1>1, <1>2, <1>4 DEF Standing

(* Past position_open no setup of the day's book is live. *)
LEMMA PassOpenStep ==
  ASSUME TypeOK, Carries, Duties, OwnSetups, [Next]_vars, ~raced', NEW a \in Dispatchers, PassesOpen(a)
  PROVE  Standing' \subseteq Entering
PROOF
<1>0. a \in Threads
  BY DispatcherDuty
<1>1. Orphans' \subseteq Entering
  BY OrphansMove DEF Entering
<1>2. ~OpenPos(book) /\ UNCHANGED <<book, trade, day>>
  <2>1. at'[a] # "note"
    BY DEF PassesOpen
  <2>2. ~Refuse(a)
    BY <1>0, <2>1 DEF Refuse, GoTo, TypeOK
  <2>3. ~OpenPos(book)
    BY <2>2 DEF PassesOpen, DayStats
  <2> QED
    BY <2>3 DEF PassesOpen, DayStats, worldVars
<1>3. {g \in Live : <<g, day>> \in book}' = {}
  BY <1>2 DEF OpenPos, Today, Live
<1>4. ASSUME NEW b \in Dispatchers, Engaged(b)' PROVE cur'[b] = cur[b] /\ (Engaged(b) \/ Cleared(b))
  BY <1>4, EngagedStep DEF PassesOpen, DayStats, Cleared
<1>5. {cur[x] : x \in {b \in Dispatchers : Engaged(b)}}' \subseteq Entering
  BY <1>4 DEF Entering
<1> QED
  BY <1>1, <1>3, <1>5 DEF Standing

(* Past group_pending there is no orphan: it would hold the reservation, or the  *)
(* account would be halted.                                                      *)
LEMMA PassGroupStep ==
  ASSUME TypeOK, Carries, Duties, OwnSetups, OrphansKept, [Next]_vars, ~raced',
         NEW a \in Dispatchers, PassesGroup(a)
  PROVE  AtMost(Entering', Cardinality(Dispatchers))
PROOF
<1>0. a \in Threads
  BY DispatcherDuty
<1>1. ~KillActive(file) /\ ~GroupPending(file) /\ cur' = cur /\ at[a] = "check" /\ at'[a] = "group"
      /\ \A b \in Dispatchers : b # a => at'[b] = at[b]
  <2>1. ~Refuse(a)
    BY <1>0 DEF PassesGroup, Refuse, GoTo, TypeOK
  <2>2. ~KillActive(file) /\ GoTo(a, "group")
    BY <2>1 DEF PassesGroup, CheckKill
  <2> QED
    BY <1>0, <2>2 DEF PassesGroup, CheckKill, GoTo, TypeOK
<1>2. ASSUME NEW g \in Setups, Orphan(g)' PROVE FALSE
  <2>1. Orphan(g) \/ Handled(g)
    BY <1>2, OrphanSource
  <2>2. ~(\E b \in Dispatchers : at'[b] # "idle" /\ cur'[b] = g)
    BY <1>2 DEF Orphan, Handled, Handling
  <2>3. ~Handled(g)
    BY <1>1, <2>2 DEF Handled, Handling
  <2>4. Orphan(g) /\ (file.kill = "hard" \/ (crashes > 0 /\ file.group = g))
    BY <2>1, <2>3 DEF OrphansKept
  <2>5. file.kill # "hard"
    BY <1>1 DEF KillActive
  <2>6. crashes > 0 /\ file.group = g /\ g \notin expired /\ g # NoSetup
    BY <2>4, <2>5, NoSetupAssumption DEF Orphan
  <2> QED
    BY <1>1, <2>6 DEF GroupPending
<1>3. Entering' \in SUBSET {cur[b] : b \in Dispatchers}
  BY <1>1, <1>2 DEF Entering, Orphans
<1> QED
  BY <1>3, OnePerDispatcher

(* The counts are kept. *)
LEMMA OneEachStep ==
  ASSUME TypeOK, Carries, Duties, OwnSetups, BooksDated, OrphansKept, OneEach, [Next]_vars, ~raced'
  PROVE  OneEach'
PROOF
<1>0. Cardinality(Dispatchers) \in Int
  BY DispatcherCount
<1>1. AtMost(Entering', Cardinality(Dispatchers))
  <2>1. CASE \E a \in Dispatchers : PassesGroup(a)
    BY <2>1, PassGroupStep
  <2>2. CASE \A a \in Dispatchers : ~PassesGroup(a)
    BY <1>0, <2>2, EnteringMove, AtMostSubset DEF OneEach
  <2> QED
    BY <2>1, <2>2
<1>2. AtMost(Standing', Cardinality(Dispatchers))
  <2>1. CASE \E a \in Dispatchers : PassesOpen(a)
    BY <1>0, <2>1, PassOpenStep, AtMostSubset DEF OneEach
  <2>2. CASE \A a \in Dispatchers : ~PassesOpen(a)
    BY <1>0, <2>2, StandingMove, AtMostSubset DEF OneEach
  <2> QED
    BY <2>1, <2>2
<1> QED
  BY <1>1, <1>2 DEF OneEach, AtMost

CountedInv == KeptInv /\ BooksDated /\ Counted

LEMMA CountedInit == Init => CountedInv
PROOF
<1> SUFFICES ASSUME Init PROVE CountedInv
  OBVIOUS
<1>1. Entering = {} /\ Standing = {}
  BY DispatcherDuty DEF Init, Entering, Standing, Orphans, Orphan, Engaged, Cleared, Live
<1>2. AtMost({}, Cardinality(Dispatchers))
  BY AtMostSmall, AtMostWeaker, DispatcherCount
<1> QED
  BY <1>1, <1>2, KeptInit, BoundInit DEF CountedInv, Counted, OneEach

LEMMA CountedInvariant == CountedInv /\ [Next]_vars => CountedInv'
PROOF
<1> SUFFICES ASSUME CountedInv, [Next]_vars PROVE CountedInv'
  OBVIOUS
<1>1. KeptInv' /\ BooksDated'
  BY KeptInvariant, BooksKept DEF CountedInv, KeptInv
<1>2. CASE raced'
  BY <1>1, <1>2 DEF CountedInv, Counted
<1>3. CASE ~raced'
  <2>1. OrphansKept /\ OneEach
    BY <1>3, OnlyGrows DEF CountedInv, KeptInv, Kept, Counted
  <2>2. OneEach'
    BY <1>3, <2>1, OneEachStep DEF CountedInv, KeptInv
  <2> QED
    BY <1>1, <2>2 DEF CountedInv, Counted
<1> QED
  BY <1>2, <1>3

(* A dispatcher has one setup at the broker at a time, across refusals, rollbacks, *)
(* halts, expired reservations, restarts and the other dispatcher; unless a save   *)
(* has undone another thread's.                                                    *)
THEOREM OneSetupPerDispatcher == Spec => []OneSetupEach
PROOF
<1>1. CountedInv => OneSetupEach
  <2> SUFFICES ASSUME CountedInv, ~raced
               PROVE  Cardinality({g \in Live : Answered(g)}) <= Cardinality(Dispatchers)
    BY DEF OneSetupEach
  <2>1. AtMost(Standing, Cardinality(Dispatchers))
    BY DEF CountedInv, Counted, OneEach
  <2>2. ASSUME NEW g \in Live, Answered(g) PROVE g \in Standing
    <3>1. CASE <<g, day>> \in book
      BY <3>1 DEF Standing
    <3>2. CASE Orphan(g)
      BY <3>2 DEF Standing, Orphans, Live
    <3>3. CASE <<g, day>> \notin book /\ ~Orphan(g)
      <4>1. PICK a \in Dispatchers : at[a] # "idle" /\ cur[a] = g
        BY <2>2, <3>3 DEF Answered, Orphan, Live, Handled, Handling
      <4>2. Engaged(a)
        BY <4>1 DEF Engaged, Live
      <4> QED
        BY <4>1, <4>2 DEF Standing
    <3> QED
      BY <3>1, <3>2, <3>3
  <2>3. {g \in Live : Answered(g)} \in SUBSET Standing
    BY <2>2
  <2> QED
    BY <2>1, <2>3, AtMostSubset, DispatcherCount DEF AtMost
<1> QED
  BY <1>1, CountedInit, CountedInvariant, PTL DEF Spec

=============================================================================
