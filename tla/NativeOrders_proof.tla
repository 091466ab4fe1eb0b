------------------------- MODULE NativeOrders_proof -------------------------
(* Type correctness of NativeOrders, for every value of its constants.  The    *)
(* safety proofs of NativeOrdersSafety_proof rest on it.                       *)
EXTENDS NativeOrders, TLAPS

-----------------------------------------------------------------------------
(* The values that threads start from and return to are well typed. *)
LEMMA BlankTypes ==
  /\ NoLife \in Lifecycles /\ "none" \in JStates /\ NoObs \in Observations
  /\ NoFills \in [Orders -> 0..Qty] /\ 0 \in Ages
  BY NativeOrdersAssumption
     DEF NoLife, Lifecycles, EntryStates, KidStates, JStates, Terminal, Resolved, NoObs,
         Observations, NoFills, Ages

(* Leaving an action or a row keeps the types of the threads. *)
LEMMA AbandonTypes ==
  ASSUME TypeThreads, NEW t \in Threads, Abandon(t), UNCHANGED <<todo, snapVars, outdated>>
  PROVE  TypeThreads'
<1> USE DEF TypeThreads, Abandon, Goto, HasRow
<1>1. /\ pc' \in [Threads -> Places] /\ op' \in [Threads -> {"none", "cancel", "close"}]
      /\ cur' \in [Threads -> Orders \cup {NoOrder}]
  BY DEF Places
<1>2. life' \in [Threads -> Lifecycles] /\ verdict' \in [Threads -> JStates]
  BY BlankTypes
<1>3. ASSUME NEW u \in Threads, HasRow(u)'
      PROVE  cur'[u] \in Orders
  BY <1>3
<1> QED
  BY <1>1, <1>2, <1>3 DEF snapVars

LEMMA SettleTypes ==
  ASSUME TypeThreads, NEW t \in Threads, cur[t] \in Orders, NEW s \in JStates, NEW w \in Places,
         verdict' = [verdict EXCEPT ![t] = s], Goto(t, w),
         UNCHANGED <<cur, op, life, todo, snapVars>>, outdated' \subseteq Threads \X Orders
  PROVE  TypeThreads'
  BY DEF TypeThreads, Places, HasRow, Goto, snapVars

LEMMA PublishTypes ==
  ASSUME TypeBook, TypeThreads, NEW t \in Threads, NEW o \in Orders, NEW s \in LocalStates,
         NEW holds \in BOOLEAN, Publish(t, o, s, holds)
  PROVE  TypeBook' /\ outdated' \subseteq Threads \X Orders
  BY DEF TypeBook, TypeThreads, Publish

LEMMA FailTypes ==
  ASSUME TypeJournal, TypeThreads, NEW t \in Threads, Fail(t), UNCHANGED <<todo, snapVars, outdated>>
  PROVE  TypeThreads' /\ failed' \in [Orders -> BOOLEAN]
  BY AbandonTypes DEF Fail, TypeJournal

LEMMA DecideTypes ==
  ASSUME TypeOK, NEW t \in Threads, Decide(t)
  PROVE  TypeOK'
  <1>1. TypeBroker' /\ TypeDispatch'
    BY DEF TypeOK, TypeBroker, TypeDispatch, Decide, brokerVars, subVars, boundVars
  <1>2. acts' \in [Orders -> [ActionIds -> ActStates]]
    BY DEF Decide, Acknowledge, TypeOK, TypeJournal, ActStates
  <1>3. cur[t] \in Orders
    BY DEF Decide, TypeOK, TypeThreads, Places, HasRow
  <1>4. UNCHANGED <<todo, snapVars>>
    BY DEF Decide
  <1>5. failed' \in [Orders -> BOOLEAN] /\ TypeThreads' /\ TypeBook'
   <2>1. CASE Refuse(t)
     BY <2>1, <1>4, FailTypes DEF Refuse, TypeOK, localVars, TypeBook
   <2>2. ASSUME NEW s \in JStates, SettleOnly(t, s) PROVE failed' \in [Orders -> BOOLEAN] /\ TypeThreads' /\ TypeBook'
     <3>1. outdated' \subseteq Threads \X Orders
       BY <2>2 DEF SettleOnly, TypeOK, TypeThreads
     <3> QED
       BY <2>2, <3>1, <1>3, <1>4, SettleTypes DEF SettleOnly, Settle, TypeOK, TypeJournal, localVars, TypeBook, Places
   <2>3. ASSUME NEW s \in JStates, Settle(t, s), NEW ls \in LocalStates, NEW holds \in BOOLEAN, Publish(t, cur[t], ls, holds) 
        PROVE failed' \in [Orders -> BOOLEAN] /\ TypeThreads' /\ TypeBook'
     <3>1. TypeBook' /\ outdated' \subseteq Threads \X Orders
       BY <2>3, <1>3, PublishTypes DEF TypeOK
     <3>2. TypeThreads'
       BY <2>3, <1>3, <1>4, <3>1, SettleTypes DEF TypeOK, Settle, Places
     <3> QED
       BY <2>3, <3>1, <3>2 DEF TypeOK, Settle, TypeJournal
   <2>4. {"NO_FILL", "OPEN", "CLOSED", "CLOSED_PENDING_COSTS", "WAITING_BROKER_FILL", "WAITING_CHILD_CANCEL", "WAITING_NO_FILL_EVIDENCE", "RECONCILIATION_REQUIRED"} \subseteq JStates /\ {"NO_FILL", "EXITING", "OPEN", "MISMATCH", "CLOSED"} \subseteq LocalStates
     BY DEF JStates, Terminal, Resolved, LocalStates, Owning, LocalTerminal
   <2>5. CASE DecideUnfilled(t, cur[t])
     <3>1. CASE EndedUnfilled(t) /\ life[t].kids # "Done"
       <4>1. /\ verdict' = [verdict EXCEPT ![t] = "WAITING_CHILD_CANCEL"] /\ Goto(t, "kids")
             /\ UNCHANGED <<failed, cur, op, life, localVars, outdated>>
         BY <2>5, <3>1 DEF DecideUnfilled
       <4>2. TypeThreads'
         BY <4>1, <2>4, <1>3, <1>4, SettleTypes DEF TypeOK, TypeThreads, Places, HasRow
       <4> QED
         BY <4>1, <4>2 DEF TypeOK, TypeJournal, TypeBook, localVars
     <3>2. CASE ~EndedUnfilled(t)
        BY <2>5, <3>2, <2>4, <2>2 DEF DecideUnfilled
     <3>3. CASE EndedUnfilled(t) /\ life[t].kids = "Done"
        BY <2>5, <3>3, <2>4, <2>2, <2>3 DEF DecideUnfilled, SettleOnly
     <3> QED BY <3>1, <3>2, <3>3
   <2>6. CASE DecideOpen(t, cur[t])
      BY <2>6, <2>1, <2>2, <2>3, <2>4 DEF DecideOpen
   <2>7. CASE DecideFlat(t, cur[t])
      BY <2>7, <2>1, <2>2, <2>3, <2>4 DEF DecideFlat
   <2> QED BY <2>5, <2>6, <2>7 DEF Decide
  <1>6. TypeJournal'
    BY <1>2, <1>5 DEF TypeJournal, TypeOK, Decide
  <1> QED BY <1>1,<1>5, <1>6 DEF TypeOK

LEMMA ForgetTypes ==
  ASSUME TypeThreads, NEW T \in SUBSET Threads, Forget(T)
  PROVE  TypeThreads'
<1> USE BlankTypes DEF TypeThreads, Forget, HasRow
<1>1. /\ pc' \in [Threads -> Places] /\ op' \in [Threads -> {"none", "cancel", "close"}]
  BY DEF Places
<1>2. /\ cur' \in [Threads -> Orders \cup {NoOrder}] /\ todo' \in [Threads -> SUBSET Orders]
  OBVIOUS
<1>3. /\ snapPos' \in [Threads -> [Orders -> 0..Qty]]
      /\ snapIn' \in [Threads -> [Orders -> 0..Qty]]
      /\ snapOut' \in [Threads -> [Orders -> 0..Qty]]
  OBVIOUS
<1>4. snapAge' \in [Threads -> Ages]
  OBVIOUS
<1>5. outdated' \subseteq Threads \X Orders
  OBVIOUS
<1>6. life' \in [Threads -> Lifecycles] /\ verdict' \in [Threads -> JStates]
  OBVIOUS
<1>7. ASSUME NEW u \in Threads, HasRow(u)'
      PROVE  cur'[u] \in Orders
  BY <1>7
<1> QED
  BY <1>1, <1>2, <1>3, <1>4, <1>5, <1>6, <1>7

(* An action is reserved in the journal and posted. *)
LEMMA PostTypes ==
  ASSUME TypeBroker, NEW o \in Orders, NEW a \in ActionIds,
         net' = net \cup {<<a, o>>}, UNCHANGED <<marketVars, accepted>>
  PROVE  TypeBroker'
  BY DEF TypeBroker, marketVars, MsgKinds

LEMMA ActsTypes ==
  ASSUME TypeJournal, NEW o \in Orders, NEW a \in ActionIds, NEW s \in ActStates,
         acts' = [acts EXCEPT ![o][a] = s]
  PROVE  acts' \in [Orders -> [ActionIds -> ActStates]]
  BY DEF TypeJournal

LEMMA ActionNames ==
  /\ \A t : CancelId(t) \in ActionIds /\ CloseId(t) \in ActionIds
  /\ "child-cancel" \in ActionIds
  /\ {"SENDING", "UNKNOWN", "ACKNOWLEDGED"} \subseteq ActStates
  BY DEF CancelId, CloseId, ActionIds, CancelIds, CloseIds, ActStates

LEMMA OutcomeTypes ==
  ASSUME TypeJournal, NEW o \in Orders, NEW a \in ActionIds, Outcome(a, o)
  PROVE  acts' \in [Orders -> [ActionIds -> ActStates]]
  BY ActsTypes, ActionNames DEF Outcome

LEMMA ReturnedTypes ==
  ASSUME TypeThreads, NEW t \in Threads, cur[t] \in Orders, Returned(t),
         UNCHANGED <<todo, snapVars, outdated>>
  PROVE  TypeThreads'
<1>1. CASE t = "rec" /\ op[t] = "cancel"
  BY <1>1 DEF Returned, Goto, TypeThreads, Places, HasRow, snapVars
<1>2. CASE ~(t = "rec" /\ op[t] = "cancel")
  BY <1>2, AbandonTypes DEF Returned
<1> QED
  BY <1>1, <1>2
(* Type correctness of the actions that touch several groups of variables. *)

LEMMA TickTypes ==
  ASSUME TypeOK, Tick
  PROVE  TypeJournal'
  <2> SUFFICES since' \in [Orders -> SinceAges \cup {Never}]
    BY DEF Tick, TypeOK, TypeJournal
  <2>1. ASSUME NEW n \in SinceAges PROVE Older(n, AgeCap + 1) \in SinceAges
    BY NativeOrdersAssumption, <2>1 DEF Older, SinceAges
  <2> QED
    BY <2>1 DEF Tick, TypeOK, TypeJournal

LEMMA PollStartTypes ==
  ASSUME TypeOK, NEW t \in Threads, NEW o, NEW what \in (Callers \cup {"none"}) \ {"exit"}, PollStart(t, o, what)
  PROVE  TypeThreads'
  <2>1. o \in Orders \cup {NoOrder} /\ what \in {"none", "cancel", "close"}
    BY NativeOrdersAssumption DEF PollStart
  <2>2. ASSUME NEW p \in Orders PROVE Position(p) \in 0..Qty
    BY NativeOrdersAssumption DEF Position, TypeOK, TypeBroker
  <2>3. /\ snapIn' \in [Threads -> [Orders -> 0..Qty]]
        /\ snapOut' \in [Threads -> [Orders -> 0..Qty]]
        /\ snapPos' \in [Threads -> [Orders -> 0..Qty]]
        /\ snapAge' \in [Threads -> Ages]
    BY <2>2, BlankTypes DEF TypeOK, TypeThreads, TypeBroker, PollStart
  <2> QED
    BY <2>1, <2>3 DEF TypeOK, TypeThreads, PollStart, Places, HasRow

LEMMA PollEndTypes ==
  ASSUME TypeOK, NEW t \in Threads, PollEnd(t)
  PROVE  TypeThreads' /\ TypeJournal'
  <2>1. ASSUME NEW p \in Orders PROVE Position(p) \in 0..Qty
    BY NativeOrdersAssumption DEF Position, TypeOK, TypeBroker
  <2>2. /\ snapIn' \in [Threads -> [Orders -> 0..Qty]]
        /\ snapOut' \in [Threads -> [Orders -> 0..Qty]]
        /\ snapPos' \in [Threads -> [Orders -> 0..Qty]]
        /\ snapAge' \in [Threads -> Ages]
    <3>1. [p \in Orders |-> Position(p)] \in [Orders -> 0..Qty]
      BY <2>1
    <3>2. /\ shownIn \in [Orders -> 0..Qty] /\ shownOut \in [Orders -> 0..Qty]
          /\ snapIn \in [Threads -> [Orders -> 0..Qty]]
          /\ snapOut \in [Threads -> [Orders -> 0..Qty]]
          /\ snapPos \in [Threads -> [Orders -> 0..Qty]]
          /\ snapAge \in [Threads -> Ages]
      BY DEF TypeOK, TypeThreads, TypeBroker
    <3> QED
      BY <3>1, <3>2, BlankTypes DEF PollEnd
  <2>3. pc' \in [Threads -> Places] /\ todo' \in [Threads -> SUBSET Orders]
    BY DEF TypeOK, TypeThreads, PollEnd, Places, HasRow
  <2>4. outdated' \subseteq Threads \X Orders
    BY DEF TypeOK, TypeThreads, PollEnd
  <2>5. ASSUME NEW u \in Threads, HasRow(u)'
        PROVE  cur'[u] \in Orders
    BY <2>5 DEF TypeOK, TypeThreads, PollEnd, Places, HasRow
  <2>6. obs' \in [Orders -> Observations]
    <3>1. ASSUME NEW r \in Observations PROVE [r EXCEPT !.src = "none"] \in Observations
      BY DEF Observations
    <3> QED
      BY <3>1 DEF TypeOK, TypeJournal, PollEnd
  <2> QED
    BY <2>2, <2>3, <2>4, <2>5, <2>6 DEF TypeOK, TypeThreads, TypeJournal, PollEnd

LEMMA ReadLifeTypes ==
  ASSUME TypeOK, NEW t \in Threads, ReadLife(t)
  PROVE  TypeThreads' /\ TypeJournal'
  <2>1. cur[t] \in Orders
    BY DEF ReadLife, TypeOK, TypeThreads, Places, HasRow
  <2>2. CASE entry[cur[t]] = "none" \/ kids[cur[t]] = "none"
    BY <2>1, <2>2, FailTypes DEF ReadLife, TypeOK, TypeJournal
  <2>3. CASE ~(entry[cur[t]] = "none" \/ kids[cur[t]] = "none")
    <3> DEFINE reps == IF Ended(entry[cur[t]]) /\ cache[cur[t]] # "none" THEN {cache[cur[t]] = "fill"}
                       ELSE {filled[cur[t]] > 0}
                            \cup (IF LateReports THEN {shownIn[cur[t]] > 0} ELSE {})
    <3>0. reps \subseteq BOOLEAN
      <4>1. (cache[cur[t]] = "fill") \in BOOLEAN
        OBVIOUS
      <4>2. (filled[cur[t]] > 0) \in BOOLEAN
        OBVIOUS
      <4>3. (shownIn[cur[t]] > 0) \in BOOLEAN
        OBVIOUS
      <4> QED
        BY <4>1, <4>2, <4>3, Zenon
    <3>1. PICK rep \in reps :
            /\ life' = [life EXCEPT ![t] = [entry |-> entry[cur[t]], kids |-> kids[cur[t]], rep |-> rep]]
            /\ cache' = IF Ended(entry[cur[t]])
                        THEN [cache EXCEPT ![cur[t]] = IF rep THEN "fill" ELSE "no fill"]
                        ELSE cache
      BY <2>3 DEF ReadLife
    <3> HIDE DEF reps
    <3>2. life' \in [Threads -> Lifecycles]
      BY <3>0, <3>1, <2>1 DEF TypeOK, TypeThreads, TypeBroker, Lifecycles
    <3>3. cache' \in [Orders -> {"none", "fill", "no fill"}]
      BY <3>1, <2>1 DEF TypeOK, TypeJournal
    <3> QED
      BY <2>1, <2>3, <3>2, <3>3 DEF ReadLife, TypeOK, TypeThreads, TypeJournal, Goto, Places, HasRow, snapVars
  <2> QED
    BY <2>2, <2>3

LEMMA ReadFailsTypes ==
  ASSUME TypeOK, NEW t \in Threads, ReadFails(t)
  PROVE  TypeThreads' /\ TypeJournal'
    BY FailTypes DEF ReadFails, TypeOK, TypeJournal

LEMMA CancelKidsTypes ==
  ASSUME TypeOK, NEW t \in Threads, CancelKids(t)
  PROVE  TypeBroker' /\ TypeJournal'
  <2>1. cur[t] \in Orders
    BY DEF CancelKids, TypeOK, TypeThreads, Places, HasRow
  <2>2. CASE acts[cur[t]]["child-cancel"] = "none"
    BY <2>1, <2>2, ActsTypes, PostTypes, ActionNames DEF CancelKids, TypeOK, TypeJournal
  <2>3. CASE acts[cur[t]]["child-cancel"] # "none"
    BY <2>1, <2>3 DEF CancelKids, TypeOK, TypeJournal, TypeBroker, marketVars
  <2> QED
    BY <2>2, <2>3

LEMMA KidsReplyTypes ==
  ASSUME TypeOK, NEW t \in Threads, KidsReply(t)
  PROVE  TypeJournal'
  <2>1. cur[t] \in Orders
    BY DEF KidsReply, TypeOK, TypeThreads, Places, HasRow
  <2> QED
    BY <2>1, OutcomeTypes, ActionNames DEF KidsReply, TypeOK, TypeJournal

LEMMA StoreTypes ==
  ASSUME TypeOK, NEW t \in Threads, Store(t)
  PROVE  TypeJournal' /\ TypeThreads'
  <2>1. cur[t] \in Orders
    BY DEF Store, TypeOK, TypeThreads, Places, HasRow
  <2>2. snapIn[t][cur[t]] \in 0..Qty /\ snapOut[t][cur[t]] \in 0..Qty /\ snapAge[t] \in Ages
    BY <2>1 DEF TypeOK, TypeThreads
  <2>3. SnapOut(t, cur[t]) \in 0..Qty
    BY <2>2, NativeOrdersAssumption DEF SnapOut
  <2>4. Ended(life[t].entry) \in BOOLEAN
    BY DEF Ended
  <2>5. obs' \in [Orders -> Observations]
    BY <2>1, <2>2, <2>3, <2>4 DEF Store, TypeOK, TypeJournal, Observations
  <2>6. since' \in [Orders -> SinceAges \cup {Never}]
    <3>1. snapAge[t] \in SinceAges
      BY <2>2, NativeOrdersAssumption DEF Ages, SinceAges
    <3> QED
      BY <2>1, <3>1 DEF Store, EvidenceSince, TypeOK, TypeJournal
  <2>7. jstate' \in [Orders -> JStates]
    BY <2>1 DEF Store, TypeOK, TypeJournal, TypeThreads
  <2>8. TypeJournal'
    BY <2>1, <2>5, <2>6, <2>7 DEF Store, TypeOK, TypeJournal
  <2>9. pc' \in [Threads -> Places] /\ cur' \in [Threads -> Orders \cup {NoOrder}]
    BY DEF Store, TypeOK, TypeThreads, Goto, Places, HasRow
  <2>10. life' \in [Threads -> Lifecycles] /\ verdict' \in [Threads -> JStates]
    BY BlankTypes DEF Store, TypeOK, TypeThreads
  <2>11. ASSUME NEW u \in Threads, HasRow(u)'
         PROVE  cur'[u] \in Orders
    BY <2>1, <2>11 DEF Store, TypeOK, TypeThreads, Goto, HasRow
  <2> QED
    BY <2>8, <2>9, <2>10, <2>11 DEF Store, TypeOK, TypeThreads, snapVars

LEMMA CostsTypes ==
  ASSUME TypeOK, Costs
  PROVE  TypeJournal' /\ TypeThreads'
  <2>1. jstate' \in [Orders -> JStates]
    BY DEF Costs, TypeOK, TypeJournal, JStates, Terminal, Resolved
  <2>2. pc' \in [Threads -> Places] /\ todo' \in [Threads -> SUBSET Orders]
    BY DEF Costs, TypeOK, TypeThreads, TypeJournal, Goto, Places, HasRow
  <2>3. ASSUME NEW u \in Threads, HasRow(u)'
        PROVE  cur'[u] \in Orders
    BY <2>3 DEF Costs, TypeOK, TypeThreads, Goto, HasRow
  <2> QED
    BY <2>1, <2>2, <2>3 DEF Costs, TypeOK, TypeJournal, TypeThreads, snapVars

LEMMA ActTypes ==
  ASSUME TypeOK, NEW t \in Threads, Act(t)
  PROVE  TypeThreads'
  <2>1. CASE ~receipt[cur[t]] \/ snapAge[t] > 0
    BY <2>1, AbandonTypes DEF Act, TypeOK
  <2>2. CASE ~(~receipt[cur[t]] \/ snapAge[t] > 0)
    BY <2>2 DEF Act, TypeOK, TypeThreads, Goto, Places, HasRow, snapVars
  <2> QED
    BY <2>1, <2>2

LEMMA DoTypes ==
  ASSUME TypeOK, NEW t \in Threads, Do(t)
  PROVE  TypeBroker' /\ TypeJournal' /\ TypeThreads'
  <2>1. cur[t] \in Orders
    BY DEF Do, TypeOK, TypeThreads, Places, HasRow
  <2>2. CASE Returned(t) /\ UNCHANGED <<acts, net>>
    BY <2>1, <2>2, ReturnedTypes DEF Do, TypeOK, TypeBroker, TypeJournal, marketVars
  <2>3. ASSUME NEW a \in ActionIds, Reserve(t, a) PROVE TypeBroker' /\ TypeJournal' /\ TypeThreads'
    <3>1. TypeBroker'
      BY <2>1, <2>3, PostTypes DEF Do, Reserve, TypeOK
    <3>2. TypeJournal'
      BY <2>1, <2>3, ActsTypes, ActionNames DEF Do, Reserve, TypeOK, TypeJournal
    <3>3. TypeThreads'
      BY <2>1, <2>3 DEF Do, Reserve, TypeOK, TypeThreads, Goto, Places, HasRow, snapVars
    <3> QED
      BY <3>1, <3>2, <3>3
  <2> QED
    BY <2>2, <2>3, ActionNames DEF Do, DoCancel, DoClose

LEMMA ActReplyTypes ==
  ASSUME TypeOK, NEW t \in Threads, ActReply(t)
  PROVE  TypeJournal' /\ TypeThreads'
  <2>1. cur[t] \in Orders
    BY DEF ActReply, TypeOK, TypeThreads, Places, HasRow
  <2>2. TypeThreads'
    BY <2>1, ReturnedTypes DEF ActReply, TypeOK
  <2> QED
    BY <2>1, <2>2, OutcomeTypes, ActionNames DEF ActReply, TypeOK, TypeJournal

LEMMA ReleaseTypes ==
  ASSUME TypeOK, NEW t \in Threads, Release(t)
  PROVE  TypeThreads'
  BY ForgetTypes DEF Release, TypeOK

LEMMA CrashTypes ==
  ASSUME TypeOK, Crash
  PROVE  TypeThreads'
  BY ForgetTypes DEF Crash, TypeOK

(* Every variable keeps its type. *)
LEMMA TypeStep ==
  ASSUME TypeOK, [Next]_vars
  PROVE  TypeOK'
<1> USE NativeOrdersAssumption
<1>1. ASSUME NEW o \in Orders, DeliverEntry(o) PROVE TypeOK'
  <2>1. TypeJournal' /\ TypeBook' /\ TypeThreads' /\ TypeDispatch'
    BY <1>1 DEF TypeOK, DeliverEntry, TypeJournal, TypeBook, TypeThreads, TypeDispatch,
                  journalVars, localVars, threadVars, snapVars, subVars, boundVars, HasRow
  <2>2. TypeBroker'
    BY <1>1 DEF TypeOK, TypeBroker, DeliverEntry, brokerVars, marketVars,
                  EntryStates, KidStates, MsgKinds, ActionIds, CancelIds, CloseIds
  <2> QED
    BY <2>1, <2>2 DEF TypeOK
<1>2. ASSUME NEW o \in Orders, Fill(o) PROVE TypeOK'
  <2>1. TypeJournal' /\ TypeBook' /\ TypeThreads' /\ TypeDispatch'
    BY <1>2 DEF TypeOK, Fill, TypeJournal, TypeBook, TypeThreads, TypeDispatch,
                  journalVars, localVars, threadVars, snapVars, subVars, boundVars, HasRow
  <2>2. TypeBroker'
    BY <1>2 DEF TypeOK, TypeBroker, Fill, brokerVars, marketVars,
                  EntryStates, KidStates, MsgKinds, ActionIds, CancelIds, CloseIds
  <2> QED
    BY <2>1, <2>2 DEF TypeOK
<1>3. ASSUME NEW o \in Orders, EndEntry(o) PROVE TypeOK'
  <2>1. TypeJournal' /\ TypeBook' /\ TypeThreads' /\ TypeDispatch'
    BY <1>3 DEF TypeOK, EndEntry, TypeJournal, TypeBook, TypeThreads, TypeDispatch,
                  journalVars, localVars, threadVars, snapVars, subVars, boundVars, HasRow
  <2>2. TypeBroker'
    BY <1>3 DEF TypeOK, TypeBroker, EndEntry, brokerVars, marketVars,
                  EntryStates, KidStates, MsgKinds, ActionIds, CancelIds, CloseIds
  <2> QED
    BY <2>1, <2>2 DEF TypeOK
<1>4. ASSUME NEW o \in Orders, BracketExit(o) PROVE TypeOK'
  <2>1. TypeJournal' /\ TypeBook' /\ TypeThreads' /\ TypeDispatch'
    BY <1>4 DEF TypeOK, BracketExit, TypeJournal, TypeBook, TypeThreads, TypeDispatch,
                  journalVars, localVars, threadVars, snapVars, subVars, boundVars, HasRow
  <2>2. TypeBroker'
    BY <1>4 DEF TypeOK, TypeBroker, BracketExit, brokerVars, marketVars,
                  EntryStates, KidStates, MsgKinds, ActionIds, CancelIds, CloseIds
  <2> QED
    BY <2>1, <2>2 DEF TypeOK
<1>5. ASSUME NEW o \in Orders, KidsLapse(o) PROVE TypeOK'
  <2>1. TypeJournal' /\ TypeBook' /\ TypeThreads' /\ TypeDispatch'
    BY <1>5 DEF TypeOK, KidsLapse, TypeJournal, TypeBook, TypeThreads, TypeDispatch,
                  journalVars, localVars, threadVars, snapVars, subVars, boundVars, HasRow
  <2>2. TypeBroker'
    BY <1>5 DEF TypeOK, TypeBroker, KidsLapse, brokerVars, marketVars,
                  EntryStates, KidStates, MsgKinds, ActionIds, CancelIds, CloseIds
  <2> QED
    BY <2>1, <2>2 DEF TypeOK
<1>6. ASSUME NEW o \in Orders, Show(o) PROVE TypeOK'
  <2>1. TypeJournal' /\ TypeBook' /\ TypeThreads' /\ TypeDispatch'
    BY <1>6 DEF TypeOK, Show, TypeJournal, TypeBook, TypeThreads, TypeDispatch,
                  journalVars, localVars, threadVars, snapVars, subVars, boundVars, HasRow
  <2>2. TypeBroker'
    BY <1>6 DEF TypeOK, TypeBroker, Show, brokerVars, marketVars,
                  EntryStates, KidStates, MsgKinds, ActionIds, CancelIds, CloseIds
  <2> QED
    BY <2>1, <2>2 DEF TypeOK
<1>7. ASSUME NEW o \in Orders, NEW a \in ActionIds, DeliverCancel(a, o) PROVE TypeOK'
  <2>1. TypeJournal' /\ TypeBook' /\ TypeThreads' /\ TypeDispatch'
    BY <1>7 DEF TypeOK, DeliverCancel, TypeJournal, TypeBook, TypeThreads, TypeDispatch,
                  journalVars, localVars, threadVars, snapVars, subVars, boundVars, HasRow
  <2>2. TypeBroker'
    BY <1>7 DEF TypeOK, TypeBroker, DeliverCancel, brokerVars, marketVars,
                  EntryStates, KidStates, MsgKinds, ActionIds, CancelIds, CloseIds
  <2> QED
    BY <2>1, <2>2 DEF TypeOK
<1>8. ASSUME NEW o \in Orders, NEW a \in ActionIds, DeliverClose(a, o) PROVE TypeOK'
  <2>1. TypeJournal' /\ TypeBook' /\ TypeThreads' /\ TypeDispatch'
    BY <1>8 DEF TypeOK, DeliverClose, TypeJournal, TypeBook, TypeThreads, TypeDispatch,
                  journalVars, localVars, threadVars, snapVars, subVars, boundVars, HasRow
  <2>2. TypeBroker'
    BY <1>8 DEF TypeOK, TypeBroker, DeliverClose, Position, brokerVars, marketVars,
                  EntryStates, KidStates, MsgKinds, ActionIds, CancelIds, CloseIds
  <2> QED
    BY <2>1, <2>2 DEF TypeOK
<1>9. ASSUME NEW m \in net, Lose(m) PROVE TypeOK'
  <2>1. TypeJournal' /\ TypeBook' /\ TypeThreads' /\ TypeDispatch'
    BY <1>9 DEF TypeOK, Lose, TypeJournal, TypeBook, TypeThreads, TypeDispatch,
                  journalVars, localVars, threadVars, snapVars, subVars, boundVars, HasRow
  <2>2. TypeBroker'
    BY <1>9 DEF TypeOK, TypeBroker, Lose, brokerVars, marketVars,
                  EntryStates, KidStates, MsgKinds, ActionIds, CancelIds, CloseIds
  <2> QED
    BY <2>1, <2>2 DEF TypeOK
<1>10. CASE Tick
  <2>1. TypeBroker' /\ TypeBook' /\ TypeDispatch'
    BY <1>10 DEF TypeOK, Tick, TypeBroker, TypeBook, TypeDispatch,
                  brokerVars, marketVars, localVars, subVars, boundVars
  <2>2. TypeJournal'
    BY <1>10, TickTypes
  <2>3. TypeThreads'
    BY <1>10 DEF TypeOK, TypeThreads, Tick, Older, Ages, threadVars, snapVars,
                  Threads, Places, HasRow
  <2> QED
    BY <2>1, <2>2, <2>3 DEF TypeOK
<1>11. ASSUME NEW o \in Orders, Claim(o) PROVE TypeOK'
  <2>1. TypeBroker' /\ TypeJournal' /\ TypeThreads'
    BY <1>11 DEF TypeOK, Claim, TypeBroker, TypeJournal, TypeThreads,
                  brokerVars, marketVars, journalVars, threadVars, snapVars, HasRow
  <2>2. TypeBook'
    BY <1>11 DEF TypeOK, TypeBook, Claim, localVars,
                  LocalStates, Owning, LocalTerminal
  <2>3. TypeDispatch'
    BY <1>11 DEF TypeOK, TypeDispatch, Claim, subVars, boundVars
  <2> QED
    BY <2>1, <2>2, <2>3 DEF TypeOK
<1>12. CASE SubmitCheck
  <2>1. TypeBroker' /\ TypeJournal' /\ TypeBook' /\ TypeThreads'
    BY <1>12 DEF TypeOK, SubmitCheck, TypeBroker, TypeJournal, TypeBook, TypeThreads,
                  brokerVars, marketVars, journalVars, localVars, threadVars, snapVars, HasRow
  <2>2. TypeDispatch'
    BY <1>12 DEF TypeOK, TypeDispatch, SubmitCheck, subVars, boundVars
  <2> QED
    BY <2>1, <2>2 DEF TypeOK
<1>13. CASE SubmitReserve
  <2>1. TypeBook' /\ TypeThreads'
    BY <1>13 DEF TypeOK, SubmitReserve, TypeBook, TypeThreads,
                  localVars, threadVars, snapVars, HasRow
  <2>2. TypeBroker'
    BY <1>13 DEF TypeOK, TypeBroker, SubmitReserve, TypeDispatch, brokerVars, marketVars,
                  EntryStates, KidStates, MsgKinds, ActionIds, CancelIds, CloseIds
  <2>3. TypeJournal'
    BY <1>13 DEF TypeOK, TypeJournal, SubmitReserve, JStates, journalVars
  <2>4. TypeDispatch'
    BY <1>13 DEF TypeOK, TypeDispatch, SubmitReserve, subVars, boundVars
  <2> QED
    BY <2>1, <2>2, <2>3, <2>4 DEF TypeOK
<1>14. CASE SubmitRefused
  <2>1. TypeBroker' /\ TypeJournal' /\ TypeThreads'
    BY <1>14 DEF TypeOK, SubmitRefused, TypeBroker, TypeJournal, TypeThreads,
                  brokerVars, marketVars, journalVars, threadVars, snapVars, HasRow
  <2>2. TypeBook'
    BY <1>14 DEF TypeOK, TypeBook, SubmitRefused, localVars,
                  LocalStates, Owning, LocalTerminal
  <2>3. TypeDispatch'
    BY <1>14 DEF TypeOK, TypeDispatch, SubmitRefused, subVars, boundVars
  <2> QED
    BY <2>1, <2>2, <2>3 DEF TypeOK
<1>15. CASE SubmitReply
  <2>1. TypeBroker' /\ TypeBook' /\ TypeThreads'
    BY <1>15 DEF TypeOK, SubmitReply, TypeBroker, TypeBook, TypeThreads,
                  brokerVars, marketVars, localVars, threadVars, snapVars, HasRow
  <2>2. TypeJournal'
    BY <1>15 DEF TypeOK, TypeJournal, SubmitReply, JStates, journalVars
  <2>3. TypeDispatch'
    BY <1>15 DEF TypeOK, TypeDispatch, SubmitReply, subVars, boundVars
  <2> QED
    BY <2>1, <2>2, <2>3 DEF TypeOK
<1>16. CASE SubmitRecord
  <2>1. TypeBroker' /\ TypeJournal' /\ TypeThreads'
    BY <1>16 DEF TypeOK, SubmitRecord, TypeBroker, TypeJournal, TypeThreads,
                  brokerVars, marketVars, journalVars, threadVars, snapVars, HasRow
  <2>2. TypeBook'
    BY <1>16 DEF TypeOK, TypeBook, SubmitRecord, localVars,
                  LocalStates, Owning, LocalTerminal
  <2>3. TypeDispatch'
    BY <1>16 DEF TypeOK, TypeDispatch, SubmitRecord, subVars, boundVars
  <2> QED
    BY <2>1, <2>2, <2>3 DEF TypeOK
<1>17. ASSUME NEW t \in Threads, NEW o, NEW what \in (Callers \cup {"none"}) \ {"exit"},
             PollStart(t, o, what) PROVE TypeOK'
  <2>1. TypeBroker' /\ TypeJournal' /\ TypeDispatch'
    BY <1>17 DEF TypeOK, PollStart, TypeBroker, TypeJournal, TypeDispatch,
                  brokerVars, marketVars, journalVars, subVars, boundVars
  <2>2. TypeThreads'
    BY <1>17, PollStartTypes
  <2>3. TypeBook'
    BY <1>17 DEF TypeOK, TypeBook, PollStart, localVars,
                  LocalStates, Owning, LocalTerminal
  <2> QED
    BY <2>1, <2>2, <2>3 DEF TypeOK
<1>18. ASSUME NEW t \in Threads, PollEnd(t) PROVE TypeOK'
  <2>1. TypeBroker' /\ TypeBook' /\ TypeDispatch'
    BY <1>18 DEF TypeOK, PollEnd, TypeBroker, TypeBook, TypeDispatch,
                  brokerVars, marketVars, localVars, subVars, boundVars
  <2>2. TypeJournal' /\ TypeThreads'
    BY <1>18, PollEndTypes
  <2> QED
    BY <2>1, <2>2 DEF TypeOK
<1>19. CASE NextRow
  <2>1. TypeBroker' /\ TypeJournal' /\ TypeBook' /\ TypeDispatch'
    BY <1>19 DEF TypeOK, NextRow, TypeBroker, TypeJournal, TypeBook, TypeDispatch,
                  brokerVars, marketVars, journalVars, localVars, subVars, boundVars
  <2>2. TypeThreads'
    BY <1>19 DEF TypeOK, TypeThreads, NextRow, Goto, threadVars, snapVars,
                  Threads, Places, HasRow
  <2> QED
    BY <2>1, <2>2 DEF TypeOK
<1>20. ASSUME NEW t \in Threads, ReadLife(t) PROVE TypeOK'
  <2>1. TypeBroker' /\ TypeBook' /\ TypeDispatch'
    BY <1>20 DEF TypeOK, ReadLife, TypeBroker, TypeBook, TypeDispatch,
                  brokerVars, marketVars, localVars, subVars, boundVars
  <2>2. TypeJournal' /\ TypeThreads'
    BY <1>20, ReadLifeTypes
  <2> QED
    BY <2>1, <2>2 DEF TypeOK
<1>21. ASSUME NEW t \in Threads, ReadFails(t) PROVE TypeOK'
  <2>1. TypeBroker' /\ TypeBook' /\ TypeDispatch'
    BY <1>21 DEF TypeOK, ReadFails, TypeBroker, TypeBook, TypeDispatch,
                  brokerVars, marketVars, localVars, subVars, boundVars
  <2>2. TypeJournal' /\ TypeThreads'
    BY <1>21, ReadFailsTypes
  <2> QED
    BY <2>1, <2>2 DEF TypeOK
<1>22. ASSUME NEW t \in Threads, Decide(t) PROVE TypeOK'
  BY <1>22, DecideTypes
<1>23. ASSUME NEW t \in Threads, CancelKids(t) PROVE TypeOK'
  <2>1. TypeBook' /\ TypeDispatch'
    BY <1>23 DEF TypeOK, CancelKids, TypeBook, TypeDispatch,
                  localVars, subVars, boundVars
  <2>2. TypeBroker' /\ TypeJournal'
    BY <1>23, CancelKidsTypes
  <2>3. TypeThreads'
    BY <1>23 DEF TypeOK, TypeThreads, CancelKids, Goto, threadVars, snapVars,
                  Threads, Places, HasRow
  <2> QED
    BY <2>1, <2>2, <2>3 DEF TypeOK
<1>24. ASSUME NEW t \in Threads, KidsReply(t) PROVE TypeOK'
  <2>1. TypeBroker' /\ TypeBook' /\ TypeDispatch'
    BY <1>24 DEF TypeOK, KidsReply, TypeBroker, TypeBook, TypeDispatch,
                  brokerVars, marketVars, localVars, subVars, boundVars
  <2>2. TypeJournal'
    BY <1>24, KidsReplyTypes
  <2>3. TypeThreads'
    BY <1>24 DEF TypeOK, TypeThreads, KidsReply, Goto, threadVars, snapVars,
                  Threads, Places, HasRow
  <2> QED
    BY <2>1, <2>2, <2>3 DEF TypeOK
<1>25. ASSUME NEW t \in Threads, Store(t) PROVE TypeOK'
  <2>1. TypeBroker' /\ TypeBook' /\ TypeDispatch'
    BY <1>25 DEF TypeOK, Store, TypeBroker, TypeBook, TypeDispatch,
                  brokerVars, marketVars, localVars, subVars, boundVars
  <2>2. TypeJournal' /\ TypeThreads'
    BY <1>25, StoreTypes
  <2> QED
    BY <2>1, <2>2 DEF TypeOK
<1>26. CASE Costs
  <2>1. TypeBroker' /\ TypeBook'
    BY <1>26 DEF TypeOK, Costs, TypeBroker, TypeBook,
                  brokerVars, marketVars, localVars
  <2>2. TypeJournal' /\ TypeThreads'
    BY <1>26, CostsTypes
  <2>3. TypeDispatch'
    BY <1>26 DEF TypeOK, TypeDispatch, Costs, subVars, boundVars
  <2> QED
    BY <2>1, <2>2, <2>3 DEF TypeOK
<1>27. ASSUME NEW o \in Orders, QueueExit(o) PROVE TypeOK'
  <2>1. TypeBroker' /\ TypeBook' /\ TypeThreads' /\ TypeDispatch'
    BY <1>27 DEF TypeOK, QueueExit, TypeBroker, TypeBook, TypeThreads, TypeDispatch,
                  brokerVars, marketVars, localVars, threadVars, snapVars, subVars, boundVars, HasRow
  <2>2. TypeJournal'
    BY <1>27 DEF TypeOK, TypeJournal, QueueExit, journalVars
  <2> QED
    BY <2>1, <2>2 DEF TypeOK
<1>28. CASE DrainExit
  <2>1. TypeBroker' /\ TypeBook' /\ TypeDispatch'
    BY <1>28 DEF TypeOK, DrainExit, TypeBroker, TypeBook, TypeDispatch,
                  brokerVars, marketVars, localVars, subVars, boundVars
  <2>2. TypeJournal'
    BY <1>28 DEF TypeOK, TypeJournal, DrainExit, journalVars
  <2>3. TypeThreads'
    BY <1>28 DEF TypeOK, TypeThreads, DrainExit, Goto, threadVars, snapVars,
                  Threads, Places, HasRow
  <2> QED
    BY <2>1, <2>2, <2>3 DEF TypeOK
<1>29. ASSUME NEW t \in Threads, Act(t) PROVE TypeOK'
  <2>1. TypeBroker' /\ TypeJournal' /\ TypeBook' /\ TypeDispatch'
    BY <1>29 DEF TypeOK, Act, TypeBroker, TypeJournal, TypeBook, TypeDispatch,
                  brokerVars, marketVars, journalVars, localVars, subVars, boundVars
  <2>2. TypeThreads'
    BY <1>29, ActTypes
  <2> QED
    BY <2>1, <2>2 DEF TypeOK
<1>30. ASSUME NEW t \in Threads, Do(t) PROVE TypeOK'
  <2>1. TypeBook' /\ TypeDispatch'
    BY <1>30 DEF TypeOK, Do, TypeBook, TypeDispatch,
                  localVars, subVars, boundVars
  <2>2. TypeBroker' /\ TypeJournal' /\ TypeThreads'
    BY <1>30, DoTypes
  <2> QED
    BY <2>1, <2>2 DEF TypeOK
<1>31. ASSUME NEW t \in Threads, ActReply(t) PROVE TypeOK'
  <2>1. TypeBroker' /\ TypeBook' /\ TypeDispatch'
    BY <1>31 DEF TypeOK, ActReply, TypeBroker, TypeBook, TypeDispatch,
                  brokerVars, marketVars, localVars, subVars, boundVars
  <2>2. TypeJournal' /\ TypeThreads'
    BY <1>31, ActReplyTypes
  <2> QED
    BY <2>1, <2>2 DEF TypeOK
<1>32. ASSUME NEW t \in Threads, Release(t) PROVE TypeOK'
  <2>1. TypeBroker' /\ TypeJournal' /\ TypeBook' /\ TypeDispatch'
    BY <1>32 DEF TypeOK, Release, TypeBroker, TypeJournal, TypeBook, TypeDispatch,
                  brokerVars, marketVars, journalVars, localVars, subVars, boundVars
  <2>2. TypeThreads'
    BY <1>32, ReleaseTypes
  <2> QED
    BY <2>1, <2>2 DEF TypeOK
<1>33. CASE Crash
  <2>1. TypeBroker' /\ TypeJournal' /\ TypeBook'
    BY <1>33 DEF TypeOK, Crash, TypeBroker, TypeJournal, TypeBook,
                  brokerVars, marketVars, journalVars, localVars
  <2>2. TypeThreads'
    BY <1>33, CrashTypes
  <2>3. TypeDispatch'
    BY <1>33 DEF TypeOK, TypeDispatch, Crash, subVars, boundVars
  <2> QED
    BY <2>1, <2>2, <2>3 DEF TypeOK
<1>34. CASE UNCHANGED vars
  BY <1>34 DEF TypeOK, TypeBroker, TypeJournal, TypeBook, TypeThreads, TypeDispatch, vars,
       brokerVars, journalVars, localVars, threadVars, snapVars, subVars, boundVars, HasRow
<1> QED
  BY <1>1, <1>2, <1>3, <1>4, <1>5, <1>6, <1>7, <1>8, <1>9, <1>10, <1>11, <1>12, <1>13, <1>14, <1>15, <1>16, <1>17, <1>18, <1>19, <1>20, <1>21, <1>22, <1>23, <1>24, <1>25, <1>26, <1>27, <1>28, <1>29, <1>30, <1>31, <1>32, <1>33, <1>34
     DEF Next, Broker, Dispatcher, RecStep, ThreadStep, PollStartRec, PollStartMgr, Threads

LEMMA TypeInit == Init => TypeOK
<1> SUFFICES ASSUME Init PROVE TypeOK
  OBVIOUS
<1> USE NativeOrdersAssumption, BlankTypes DEF Init
<1>1. TypeBroker
  BY DEF TypeBroker, EntryStates, KidStates, NoFills
<1>2. TypeJournal
  BY DEF TypeJournal, JStates, ActStates
<1>3. TypeBook
  BY DEF TypeBook, LocalStates
<1>4. TypeThreads
  BY DEF TypeThreads, Places, HasRow
<1>5. TypeDispatch
  BY DEF TypeDispatch
<1> QED
  BY <1>1, <1>2, <1>3, <1>4, <1>5 DEF TypeOK

(* The journal, the book, the broker and every thread stay well typed, and a   *)
(* thread that works on a row always has one.                                  *)
THEOREM TypeCorrect == Spec => []TypeOK
  BY TypeInit, TypeStep, PTL DEF Spec
=============================================================================
