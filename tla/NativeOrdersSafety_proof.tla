---------------------- MODULE NativeOrdersSafety_proof ----------------------
(***************************************************************************)
(* Safety of NativeOrders: everything follows from one inductive           *)
(* invariant, IInv.  Its argument:                                         *)
(*                                                                         *)
(*   - what the broker has of an order is in the journal, and so is what   *)
(*     threads and requests point at (AtBroker, Journaled, Carries);       *)
(*   - an exit happens only after the entry has ended, and then closes all *)
(*     that was filled, because closes are posted only on evidence of an   *)
(*     ended entry (OnWire), and meet only their own order;                *)
(*   - so a verdict that finishes an order is reached only when nothing of *)
(*     it is exposed (Finished), and that stays so;                        *)
(*   - a new order is posted only when every other one is finished and no  *)
(*     close is in doubt (Quiet), so it is alone (Alone).                  *)
(*                                                                         *)
(* Execution reports are assumed not to lag the status of their order      *)
(* (LateReports = FALSE); native_late shows what happens otherwise.        *)
(***************************************************************************)
EXTENDS NativeOrders_proof

AtBroker(o) ==
  /\ shownIn[o] <= filled[o] /\ shownOut[o] <= exited[o]
  /\ entry[o] = "none" => filled[o] = 0
  /\ <<"entry", o>> \in net => entry[o] = "none"
  /\ jstate[o] = "none" => entry[o] = "none" /\ <<"entry", o>> \notin net
  /\ exited[o] > 0 => Ended(entry[o]) /\ exited[o] = filled[o]

Journaled(o) ==
  /\ o \in exitReq \/ receipt[o] \/ <<"entry", o>> \in accepted => jstate[o] # "none"
  /\ jstate[o] # "none" => local[o] \in Owning \cup LocalTerminal
  /\ obs[o].ended => Ended(entry[o])
  /\ cache[o] = "no fill" => Ended(entry[o]) /\ filled[o] = 0

Finished(o) ==
  /\ local[o] \in LocalTerminal => ~Exposed(o) /\ jstate[o] # "none"
  /\ jstate[o] \in Terminal => local[o] \in LocalTerminal
  /\ "NO_FILL" \in {local[o], jstate[o]} => filled[o] = 0

OnWire(o) ==
  /\ \A a \in ActionIds : <<a, o>> \in net \cup accepted => acts[o][a] # "none"
  /\ \A a \in MsgKinds : <<a, o>> \notin net \cap accepted
  /\ \A a \in CloseIds : <<a, o>> \in net =>
       Ended(entry[o]) /\ acts[o][a] \in {"SENDING", "UNKNOWN"}
  /\ <<"child-cancel", o>> \in net => Ended(entry[o]) /\ filled[o] = 0

Carries(t) ==
  /\ cur[t] \in Orders => jstate[cur[t]] # "none"
  /\ \A o \in todo[t] : jstate[o] # "none"
  /\ pc[t] \notin {"decide", "kids", "kidswait", "store"} => life[t] = NoLife
  /\ pc[t] \in {"kids", "kidswait", "store"} <=> verdict[t] # "none"
  /\ \A o \in Orders : snapIn[t][o] <= filled[o] /\ snapOut[t][o] <= exited[o]
  /\ Ended(life[t].entry) =>
       /\ entry[cur[t]] = life[t].entry
       /\ life[t].entry = "Cancelled" /\ ~life[t].rep => filled[cur[t]] = 0
  /\ pc[t] = "kids" => Ended(entry[cur[t]]) /\ filled[cur[t]] = 0
  /\ verdict[t] \in Terminal =>
       /\ local[cur[t]] \in LocalTerminal
       /\ verdict[t] = "NO_FILL" => filled[cur[t]] = 0
  /\ verdict[t] # "CLOSED"

Quiet ==
  /\ spc \in {"prepared", "checked"} => jstate[scur] = "none" /\ local[scur] = "PREPARED"
  /\ spc = "checked" =>
       /\ \A p \in Orders : jstate[p] = "none" \/ local[p] \in LocalTerminal
       /\ \A p \in Orders, a \in CloseIds : <<a, p>> \notin net

Alone == \A o, p \in Orders :
  Exposed(p) /\ jstate[o] # "none" => o = p \/ local[o] \in LocalTerminal

IInv ==
  /\ \A o \in Orders : AtBroker(o) /\ Journaled(o) /\ Finished(o) /\ OnWire(o)
  /\ \A t \in Threads : Carries(t)
  /\ Quiet /\ Alone /\ CloseHitsOwnPosition

-----------------------------------------------------------------------------
(* What no step undoes: rows stay, an ended entry keeps its fills, a book's    *)
(* outcome is final, and only a reservation exposes an order.                  *)
Forward == \A o \in Orders :
  /\ jstate[o] # "none" => jstate'[o] # "none"
  /\ Ended(entry[o]) => entry'[o] = entry[o] /\ filled'[o] = filled[o]
  /\ filled[o] <= filled'[o] /\ exited[o] <= exited'[o]
  /\ local[o] \in LocalTerminal => local'[o] = local[o] /\ filled'[o] = filled[o]
  /\ Exposed(o)' => Exposed(o) \/ (o = scur /\ spc = "checked")

(* A step of the broker exposes nothing; one of the process, but for a          *)
(* reservation, does not change what is exposed or reserved.                   *)
Ebbing == UNCHANGED <<jstate, local>> /\ \A o \in Orders : Exposed(o)' => Exposed(o)
Steady == \A o \in Orders :
  /\ Exposed(o)' <=> Exposed(o)
  /\ jstate'[o] = "none" <=> jstate[o] = "none"
  /\ local[o] \in LocalTerminal => local'[o] = local[o]

ThreadIdle(t) ==
  /\ pc'[t] = pc[t] /\ cur'[t] = cur[t] /\ todo'[t] = todo[t]
  /\ snapIn'[t] = snapIn[t] /\ snapOut'[t] = snapOut[t]
  /\ life'[t] = life[t] /\ verdict'[t] = verdict[t]

(* A thread that does not move keeps what it carries. *)
LEMMA CarriesOn ==
  ASSUME TypeOK, TypeOK', Forward, NEW t \in Threads, Carries(t), ThreadIdle(t)
  PROVE  Carries(t)'
<1>1. \A o \in Orders : /\ filled[o] \in Int /\ filled'[o] \in Int /\ exited[o] \in Int /\ exited'[o] \in Int
                        /\ snapIn[t][o] \in Int /\ snapOut[t][o] \in Int
  BY NativeOrdersAssumption DEF TypeOK, TypeBroker, TypeThreads
<1>2. (\A o \in Orders : snapIn[t][o] <= filled[o] /\ snapOut[t][o] <= exited[o])'
  BY <1>1 DEF Forward, Carries, ThreadIdle
<1>3. life[t] # NoLife \/ verdict[t] # "none" \/ pc[t] = "kids" => cur[t] \in Orders
  BY DEF Carries, TypeOK, TypeThreads, HasRow
<1>4. ~Ended(NoLife.entry) /\ "none" \notin Terminal
  BY DEF NoLife, Ended, Terminal, Resolved
<1>5. todo[t] \subseteq Orders
  BY DEF TypeOK, TypeThreads
<1>6. (cur[t] \in Orders => jstate[cur[t]] # "none")' /\ (\A o \in todo[t] : jstate[o] # "none")'
  BY <1>5 DEF Forward, Carries, ThreadIdle
<1>7. (Ended(life[t].entry) =>
       /\ entry[cur[t]] = life[t].entry
       /\ life[t].entry = "Cancelled" /\ ~life[t].rep => filled[cur[t]] = 0)'
  BY <1>3, <1>4 DEF Forward, Carries, ThreadIdle, Ended
<1>8. (pc[t] = "kids" => Ended(entry[cur[t]]) /\ filled[cur[t]] = 0)'
  BY <1>3, <1>4 DEF Forward, Carries, ThreadIdle, Ended
<1>9. (verdict[t] \in Terminal => /\ local[cur[t]] \in LocalTerminal
                                  /\ verdict[t] = "NO_FILL" => filled[cur[t]] = 0)'
  <2> SUFFICES ASSUME verdict[t] \in Terminal
               PROVE  /\ local'[cur[t]] \in LocalTerminal
                      /\ verdict[t] = "NO_FILL" => filled'[cur[t]] = 0
    BY DEF ThreadIdle
  <2>1. cur[t] \in Orders /\ local[cur[t]] \in LocalTerminal
    BY <1>3, <1>4 DEF Carries
  <2> QED BY <2>1 DEF Forward, Carries
<1> QED
  BY <1>2, <1>6, <1>7, <1>8, <1>9 DEF Carries, ThreadIdle

-----------------------------------------------------------------------------
(* Contracts are counted in integers, and no more is closed than was filled. *)
Counted == \A o \in Orders :
  /\ filled[o] \in Int /\ exited[o] \in Int /\ shownIn[o] \in Int /\ shownOut[o] \in Int
  /\ 0 <= exited[o] /\ exited[o] <= filled[o]

LEMMA Counts ==
  ASSUME TypeOK, TypeOK'
  PROVE  Counted /\ Counted'
  BY NativeOrdersAssumption DEF TypeOK, TypeBroker, Counted

LEMMA Names ==
  /\ ActionIds \subseteq MsgKinds /\ CloseIds \subseteq ActionIds /\ CancelIds \subseteq ActionIds
  /\ "entry" \in MsgKinds /\ "entry" \notin ActionIds /\ "child-cancel" \in ActionIds
  /\ "child-cancel" \notin CloseIds \cup CancelIds /\ CloseIds \cap CancelIds = {}
  /\ "none" \notin Terminal \cup LocalTerminal \cup Owning /\ "NO_FILL" \in Terminal \cap LocalTerminal
  /\ Owning \cap LocalTerminal = {}
  BY DEF ActionIds, MsgKinds, CloseIds, CancelIds, Terminal, Resolved, LocalTerminal, Owning

(* A step that leaves the rows and the dispatcher alone and starts no close    *)
(* keeps the relations between orders.                                         *)
LEMMA RelationsKept ==
  ASSUME IInv, Forward, UNCHANGED <<jstate, local, subVars>>,
         \A o \in Orders : Exposed(o)' => Exposed(o),
         \A o \in Orders, a \in CloseIds : <<a, o>> \in net' => <<a, o>> \in net
  PROVE  (Quiet /\ Alone /\ CloseHitsOwnPosition)'
<1>1. Quiet'
  BY DEF IInv, Quiet, subVars
<1>2. Alone'
  BY DEF IInv, Alone
<1>3. CloseHitsOwnPosition'
  BY DEF IInv, CloseHitsOwnPosition
<1> QED
  BY <1>1, <1>2, <1>3

LEMMA IdleThreads ==
  ASSUME IInv, TypeOK, TypeOK', Forward, UNCHANGED threadVars
  PROVE  (\A t \in Threads : Carries(t))'
  BY CarriesOn DEF IInv, ThreadIdle, threadVars, snapVars

(* A step of the broker leaves everything of the process alone, takes messages *)
(* off the wire and exposes nothing; what is left to show is AtBroker.         *)
LEMMA BrokerKeeps ==
  ASSUME IInv, TypeOK, TypeOK',
         UNCHANGED <<journalVars, localVars, threadVars, subVars>>,
         net' \subseteq net, accepted' \subseteq accepted \cup (net \ net'),
         \A o \in Orders :
           /\ AtBroker(o)' /\ (Exposed(o)' => Exposed(o))
           /\ Ended(entry[o]) => entry'[o] = entry[o] /\ filled'[o] = filled[o]
           /\ filled[o] <= filled'[o] /\ exited[o] <= exited'[o]
           /\ ~Exposed(o) => filled'[o] = filled[o]
  PROVE  IInv' /\ Ebbing
<1>1. UNCHANGED <<jstate, receipt, obs, cache, acts, exitReq, local>> /\ UNCHANGED threadVars
      /\ UNCHANGED subVars
  BY DEF journalVars, localVars
<1>2. \A o \in Orders : AtBroker(o) /\ Journaled(o) /\ Finished(o) /\ OnWire(o)
  BY DEF IInv
<1>3. Forward
  BY <1>1, <1>2 DEF Forward, Finished
<1>4. ASSUME NEW o \in Orders PROVE Journaled(o)'
  <2>1. <<"entry", o>> \in net => jstate[o] # "none"
    BY <1>2 DEF AtBroker
  <2>2. Ended(entry[o]) => Ended(entry'[o]) /\ filled'[o] = filled[o]
    BY <1>3 DEF Forward
  <2> QED
    BY <1>1, <1>2, <2>1, <2>2 DEF Journaled
<1>5. ASSUME NEW o \in Orders PROVE Finished(o)'
  BY <1>1, <1>2, <1>3, Names DEF Finished, Forward
<1>6. ASSUME NEW o \in Orders PROVE OnWire(o)'
  <2>1. Ended(entry[o]) => Ended(entry'[o]) /\ filled'[o] = filled[o]
    BY <1>3 DEF Forward
  <2> QED
    BY <1>1, <1>2, <2>1, Names DEF OnWire
<1>7. (\A t \in Threads : Carries(t))'
  BY <1>1, <1>3, IdleThreads
<1>8. (Quiet /\ Alone /\ CloseHitsOwnPosition)'
  BY <1>1, <1>3, RelationsKept
<1>9. Ebbing
  BY <1>1 DEF Ebbing
<1> QED
  BY <1>4, <1>5, <1>6, <1>7, <1>8, <1>9 DEF IInv

LEMMA DeliverEntry_Keeps ==
  ASSUME IInv, TypeOK, TypeOK', NEW x \in Orders, DeliverEntry(x)
  PROVE  IInv' /\ Ebbing
<1>0. Counted /\ Counted'
  BY Counts
<1>1. \A o \in Orders : AtBroker(o) /\ OnWire(o)
  BY DEF IInv
<1>2. \A o \in Orders : Exposed(o)' => Exposed(o)
  BY <1>0, <1>1, Names DEF DeliverEntry, Exposed, Position, Counted, AtBroker, TypeOK, TypeBroker
<1>3. ASSUME NEW o \in Orders
      PROVE  /\ Ended(entry[o]) => entry'[o] = entry[o] /\ filled'[o] = filled[o]
             /\ filled[o] <= filled'[o] /\ exited[o] <= exited'[o]
             /\ ~Exposed(o) => filled'[o] = filled[o]
  BY <1>0, <1>1 DEF DeliverEntry, AtBroker, Exposed, Position, Counted, TypeOK, TypeBroker, Ended
<1>4. ASSUME NEW o \in Orders PROVE AtBroker(o)'
  BY <1>0, <1>1, Names DEF DeliverEntry, journalVars, AtBroker, Position, Counted, TypeOK, TypeBroker, Ended
<1>5. /\ UNCHANGED <<journalVars, localVars, threadVars, subVars>>
      /\ net' \subseteq net /\ accepted' \subseteq accepted \cup (net \ net')
  BY DEF DeliverEntry
<1> QED
  BY <1>2, <1>3, <1>4, <1>5, BrokerKeeps

LEMMA DeliverCancel_Keeps ==
  ASSUME IInv, TypeOK, TypeOK', NEW x \in Orders, NEW a \in ActionIds, DeliverCancel(a, x)
  PROVE  IInv' /\ Ebbing
<1>0. Counted /\ Counted'
  BY Counts
<1>1. \A o \in Orders : AtBroker(o) /\ OnWire(o)
  BY DEF IInv
<1>2. \A o \in Orders : Exposed(o)' => Exposed(o)
  BY <1>0, <1>1, Names DEF DeliverCancel, Exposed, Position, Counted, AtBroker, TypeOK, TypeBroker
<1>3. ASSUME NEW o \in Orders
      PROVE  /\ Ended(entry[o]) => entry'[o] = entry[o] /\ filled'[o] = filled[o]
             /\ filled[o] <= filled'[o] /\ exited[o] <= exited'[o]
             /\ ~Exposed(o) => filled'[o] = filled[o]
  BY <1>0, <1>1 DEF DeliverCancel, AtBroker, Exposed, Position, Counted, TypeOK, TypeBroker, Ended
<1>4. ASSUME NEW o \in Orders PROVE AtBroker(o)'
  BY <1>0, <1>1, Names DEF DeliverCancel, journalVars, AtBroker, Position, Counted, TypeOK, TypeBroker, Ended
<1>5. /\ UNCHANGED <<journalVars, localVars, threadVars, subVars>>
      /\ net' \subseteq net /\ accepted' \subseteq accepted \cup (net \ net')
  BY DEF DeliverCancel
<1> QED
  BY <1>2, <1>3, <1>4, <1>5, BrokerKeeps

LEMMA DeliverClose_Keeps ==
  ASSUME IInv, TypeOK, TypeOK', NEW x \in Orders, NEW a \in ActionIds, DeliverClose(a, x)
  PROVE  IInv' /\ Ebbing
<1>0. Counted /\ Counted'
  BY Counts
<1>1. \A o \in Orders : AtBroker(o) /\ OnWire(o)
  BY DEF IInv
<1>2. \A o \in Orders : Exposed(o)' => Exposed(o)
  BY <1>0, <1>1, Names DEF DeliverClose, Exposed, Position, Counted, AtBroker, TypeOK, TypeBroker
<1>3. ASSUME NEW o \in Orders
      PROVE  /\ Ended(entry[o]) => entry'[o] = entry[o] /\ filled'[o] = filled[o]
             /\ filled[o] <= filled'[o] /\ exited[o] <= exited'[o]
             /\ ~Exposed(o) => filled'[o] = filled[o]
  BY <1>0, <1>1 DEF DeliverClose, AtBroker, Exposed, Position, Counted, TypeOK, TypeBroker, Ended
<1>4. ASSUME NEW o \in Orders PROVE AtBroker(o)'
  <2>1. filled[o] > 0 => Ended(entry[o])
    <3>1. CASE o = x
      BY <3>1, <1>1 DEF DeliverClose, OnWire
    <3>2. CASE o # x
      <4>1. ~(filled[o] - exited[o] > 0)
        BY <3>2 DEF DeliverClose, IInv, CloseHitsOwnPosition, Exposed, Position
      <4>2. exited[o] > 0 => Ended(entry[o])
        BY <1>1 DEF AtBroker
      <4> QED
        BY <4>1, <4>2, <1>0 DEF Counted
    <3> QED
      BY <3>1, <3>2
  <2> QED
    BY <2>1, <1>0, <1>1, Names DEF DeliverClose, journalVars, AtBroker, Counted, TypeOK, TypeBroker
<1>5. /\ UNCHANGED <<journalVars, localVars, threadVars, subVars>>
      /\ net' \subseteq net /\ accepted' \subseteq accepted \cup (net \ net')
  BY DEF DeliverClose
<1> QED
  BY <1>2, <1>3, <1>4, <1>5, BrokerKeeps

LEMMA Lose_Keeps ==
  ASSUME IInv, TypeOK, TypeOK', NEW x \in net, Lose(x)
  PROVE  IInv' /\ Ebbing
<1>0. Counted /\ Counted'
  BY Counts
<1>1. \A o \in Orders : AtBroker(o) /\ OnWire(o)
  BY DEF IInv
<1>2. \A o \in Orders : Exposed(o)' => Exposed(o)
  BY <1>0, <1>1, Names DEF Lose, marketVars, Exposed, Position, Counted, AtBroker, TypeOK, TypeBroker
<1>3. ASSUME NEW o \in Orders
      PROVE  /\ Ended(entry[o]) => entry'[o] = entry[o] /\ filled'[o] = filled[o]
             /\ filled[o] <= filled'[o] /\ exited[o] <= exited'[o]
             /\ ~Exposed(o) => filled'[o] = filled[o]
  BY <1>0, <1>1 DEF Lose, marketVars, AtBroker, Exposed, Position, Counted, TypeOK, TypeBroker, Ended
<1>4. ASSUME NEW o \in Orders PROVE AtBroker(o)'
  BY <1>0, <1>1, Names DEF Lose, marketVars, journalVars, AtBroker, Position, Counted, TypeOK, TypeBroker, Ended
<1>5. /\ UNCHANGED <<journalVars, localVars, threadVars, subVars>>
      /\ net' \subseteq net /\ accepted' \subseteq accepted \cup (net \ net')
  BY DEF Lose
<1> QED
  BY <1>2, <1>3, <1>4, <1>5, BrokerKeeps

LEMMA Fill_Keeps ==
  ASSUME IInv, TypeOK, TypeOK', NEW x \in Orders, Fill(x)
  PROVE  IInv' /\ Ebbing
<1>0. Counted /\ Counted'
  BY Counts
<1>1. \A o \in Orders : AtBroker(o) /\ OnWire(o)
  BY DEF IInv
<1>2. \A o \in Orders : Exposed(o)' => Exposed(o)
  BY <1>0, <1>1, Names DEF Fill, Exposed, Position, Counted, AtBroker, TypeOK, TypeBroker
<1>3. ASSUME NEW o \in Orders
      PROVE  /\ Ended(entry[o]) => entry'[o] = entry[o] /\ filled'[o] = filled[o]
             /\ filled[o] <= filled'[o] /\ exited[o] <= exited'[o]
             /\ ~Exposed(o) => filled'[o] = filled[o]
  BY <1>0, <1>1 DEF Fill, AtBroker, Exposed, Position, Counted, TypeOK, TypeBroker, Ended
<1>4. ASSUME NEW o \in Orders PROVE AtBroker(o)'
  BY <1>0, <1>1, Names DEF Fill, journalVars, AtBroker, Position, Counted, TypeOK, TypeBroker, Ended
<1>5. /\ UNCHANGED <<journalVars, localVars, threadVars, subVars>>
      /\ net' \subseteq net /\ accepted' \subseteq accepted \cup (net \ net')
  BY DEF Fill
<1> QED
  BY <1>2, <1>3, <1>4, <1>5, BrokerKeeps

LEMMA EndEntry_Keeps ==
  ASSUME IInv, TypeOK, TypeOK', NEW x \in Orders, EndEntry(x)
  PROVE  IInv' /\ Ebbing
<1>0. Counted /\ Counted'
  BY Counts
<1>1. \A o \in Orders : AtBroker(o) /\ OnWire(o)
  BY DEF IInv
<1>2. \A o \in Orders : Exposed(o)' => Exposed(o)
  BY <1>0, <1>1, Names DEF EndEntry, Exposed, Position, Counted, AtBroker, TypeOK, TypeBroker
<1>3. ASSUME NEW o \in Orders
      PROVE  /\ Ended(entry[o]) => entry'[o] = entry[o] /\ filled'[o] = filled[o]
             /\ filled[o] <= filled'[o] /\ exited[o] <= exited'[o]
             /\ ~Exposed(o) => filled'[o] = filled[o]
  BY <1>0, <1>1 DEF EndEntry, AtBroker, Exposed, Position, Counted, TypeOK, TypeBroker, Ended
<1>4. ASSUME NEW o \in Orders PROVE AtBroker(o)'
  BY <1>0, <1>1, Names DEF EndEntry, journalVars, AtBroker, Position, Counted, TypeOK, TypeBroker, Ended
<1>5. /\ UNCHANGED <<journalVars, localVars, threadVars, subVars>>
      /\ net' \subseteq net /\ accepted' \subseteq accepted \cup (net \ net')
  BY DEF EndEntry
<1> QED
  BY <1>2, <1>3, <1>4, <1>5, BrokerKeeps

LEMMA BracketExit_Keeps ==
  ASSUME IInv, TypeOK, TypeOK', NEW x \in Orders, BracketExit(x)
  PROVE  IInv' /\ Ebbing
<1>0. Counted /\ Counted'
  BY Counts
<1>1. \A o \in Orders : AtBroker(o) /\ OnWire(o)
  BY DEF IInv
<1>2. \A o \in Orders : Exposed(o)' => Exposed(o)
  BY <1>0, <1>1, Names DEF BracketExit, Exposed, Position, Counted, AtBroker, TypeOK, TypeBroker
<1>3. ASSUME NEW o \in Orders
      PROVE  /\ Ended(entry[o]) => entry'[o] = entry[o] /\ filled'[o] = filled[o]
             /\ filled[o] <= filled'[o] /\ exited[o] <= exited'[o]
             /\ ~Exposed(o) => filled'[o] = filled[o]
  BY <1>0, <1>1 DEF BracketExit, AtBroker, Exposed, Position, Counted, TypeOK, TypeBroker, Ended
<1>4. ASSUME NEW o \in Orders PROVE AtBroker(o)'
  BY <1>0, <1>1, Names DEF BracketExit, journalVars, AtBroker, Position, Counted, TypeOK, TypeBroker, Ended
<1>5. /\ UNCHANGED <<journalVars, localVars, threadVars, subVars>>
      /\ net' \subseteq net /\ accepted' \subseteq accepted \cup (net \ net')
  BY DEF BracketExit
<1> QED
  BY <1>2, <1>3, <1>4, <1>5, BrokerKeeps

LEMMA KidsLapse_Keeps ==
  ASSUME IInv, TypeOK, TypeOK', NEW x \in Orders, KidsLapse(x)
  PROVE  IInv' /\ Ebbing
<1>0. Counted /\ Counted'
  BY Counts
<1>1. \A o \in Orders : AtBroker(o) /\ OnWire(o)
  BY DEF IInv
<1>2. \A o \in Orders : Exposed(o)' => Exposed(o)
  BY <1>0, <1>1, Names DEF KidsLapse, Exposed, Position, Counted, AtBroker, TypeOK, TypeBroker
<1>3. ASSUME NEW o \in Orders
      PROVE  /\ Ended(entry[o]) => entry'[o] = entry[o] /\ filled'[o] = filled[o]
             /\ filled[o] <= filled'[o] /\ exited[o] <= exited'[o]
             /\ ~Exposed(o) => filled'[o] = filled[o]
  BY <1>0, <1>1 DEF KidsLapse, AtBroker, Exposed, Position, Counted, TypeOK, TypeBroker, Ended
<1>4. ASSUME NEW o \in Orders PROVE AtBroker(o)'
  BY <1>0, <1>1, Names DEF KidsLapse, journalVars, AtBroker, Position, Counted, TypeOK, TypeBroker, Ended
<1>5. /\ UNCHANGED <<journalVars, localVars, threadVars, subVars>>
      /\ net' \subseteq net /\ accepted' \subseteq accepted \cup (net \ net')
  BY DEF KidsLapse
<1> QED
  BY <1>2, <1>3, <1>4, <1>5, BrokerKeeps

LEMMA Show_Keeps ==
  ASSUME IInv, TypeOK, TypeOK', NEW x \in Orders, Show(x)
  PROVE  IInv' /\ Ebbing
<1>0. Counted /\ Counted'
  BY Counts
<1>1. \A o \in Orders : AtBroker(o) /\ OnWire(o)
  BY DEF IInv
<1>2. \A o \in Orders : Exposed(o)' => Exposed(o)
  BY <1>0, <1>1, Names DEF Show, Exposed, Position, Counted, AtBroker, TypeOK, TypeBroker
<1>3. ASSUME NEW o \in Orders
      PROVE  /\ Ended(entry[o]) => entry'[o] = entry[o] /\ filled'[o] = filled[o]
             /\ filled[o] <= filled'[o] /\ exited[o] <= exited'[o]
             /\ ~Exposed(o) => filled'[o] = filled[o]
  BY <1>0, <1>1 DEF Show, AtBroker, Exposed, Position, Counted, TypeOK, TypeBroker, Ended
<1>4. ASSUME NEW o \in Orders PROVE AtBroker(o)'
  BY <1>0, <1>1, Names DEF Show, journalVars, AtBroker, Position, Counted, TypeOK, TypeBroker, Ended
<1>5. /\ UNCHANGED <<journalVars, localVars, threadVars, subVars>>
      /\ net' \subseteq net /\ accepted' \subseteq accepted \cup (net \ net')
  BY DEF Show
<1> QED
  BY <1>2, <1>3, <1>4, <1>5, BrokerKeeps

LEMMA Tick_Keeps ==
  ASSUME IInv, TypeOK, TypeOK', Tick
  PROVE  IInv' /\ Ebbing
<1>1. UNCHANGED <<brokerVars, jstate, receipt, obs, cache, acts, exitReq, local, spc, scur>>
      /\ UNCHANGED <<pc, cur, todo, snapIn, snapOut, life, verdict>>
  BY DEF Tick, localVars, subVars
<1>2. \A o \in Orders : (AtBroker(o) /\ Journaled(o) /\ Finished(o) /\ OnWire(o))'
  BY <1>1 DEF IInv, AtBroker, Journaled, Finished, OnWire, Exposed, Position, brokerVars, Ended
<1>3. Forward
  <2>1. \A o \in Orders : filled[o] <= filled[o] /\ exited[o] <= exited[o]
    BY Counts DEF Counted
  <2> QED
    BY <1>1, <2>1 DEF Forward, Exposed, Position, brokerVars
<1>4. \A t \in Threads : Carries(t)'
  BY <1>1, <1>3, CarriesOn DEF IInv, ThreadIdle
<1>5. (Quiet /\ Alone /\ CloseHitsOwnPosition)'
  BY <1>1 DEF IInv, Quiet, Alone, CloseHitsOwnPosition, Exposed, Position, brokerVars
<1> QED
  BY <1>1, <1>2, <1>4, <1>5 DEF IInv, Ebbing, Exposed, Position, brokerVars

-----------------------------------------------------------------------------
(* Steps of the threads. *)

(* A step that touches neither the broker nor a row undoes nothing. *)
LEMMA SameBooks ==
  ASSUME TypeOK, TypeOK', UNCHANGED <<brokerVars, jstate, local>>
  PROVE  Forward
<1>1. \A o \in Orders : filled[o] <= filled[o] /\ exited[o] <= exited[o]
  BY Counts DEF Counted
<1> QED
  BY <1>1 DEF Forward, Exposed, Position, brokerVars

LEMMA BooksKept ==
  ASSUME IInv, TypeOK, TypeOK', UNCHANGED <<brokerVars, jstate, acts, local>>,
         UNCHANGED subVars \/ spc' = "idle",
         \A o \in Orders : Journaled(o)', \A t \in Threads : Carries(t)'
  PROVE  IInv' /\ Steady
<1>1. \A o \in Orders : (AtBroker(o) /\ Finished(o) /\ OnWire(o))'
  BY DEF IInv, AtBroker, Finished, OnWire, Exposed, Position, brokerVars, Ended
<1>2. Quiet'
  BY DEF IInv, Quiet, brokerVars, subVars
<1>3. (Alone /\ CloseHitsOwnPosition)'
  BY DEF IInv, Alone, CloseHitsOwnPosition, Exposed, Position, brokerVars
<1>4. Steady
  BY DEF Steady, Exposed, Position, brokerVars
<1> QED
  BY <1>1, <1>2, <1>3, <1>4 DEF IInv

LEMMA JournalKept ==
  ASSUME IInv, UNCHANGED <<brokerVars, jstate, local, receipt, obs, cache, exitReq>>
  PROVE  \A o \in Orders : Journaled(o)'
  BY DEF IInv, Journaled, brokerVars, Ended

LEMMA OthersCarry ==
  ASSUME IInv, TypeOK, TypeOK', Forward, NEW t \in Threads, Carries(t)',
         \A u \in Threads \ {t} : ThreadIdle(u)
  PROVE  \A u \in Threads : Carries(u)'
  BY CarriesOn DEF IInv

(* A thread that leaves its row forgets what it read of it. *)
LEMMA AbandonCarries ==
  ASSUME TypeOK, TypeOK', Forward, NEW t \in Threads, Carries(t), Abandon(t),
         UNCHANGED <<todo, snapIn, snapOut>>
  PROVE  Carries(t)' /\ \A u \in Threads \ {t} : ThreadIdle(u)
<1>1. \A u \in Threads \ {t} : ThreadIdle(u)
  BY DEF ThreadIdle, Abandon, Goto, TypeOK, TypeThreads
<1>2. /\ cur'[t] \notin Orders /\ life'[t] = NoLife /\ verdict'[t] = "none"
      /\ pc'[t] \in {"rows", "drain", "done"}
  BY NoOrderAssumption DEF Abandon, Goto, TypeOK, TypeThreads
<1>3. ~Ended(NoLife.entry) /\ "none" \notin Terminal
  BY DEF NoLife, Ended, Terminal, Resolved
<1>4. \A o \in Orders : /\ filled[o] \in Int /\ filled'[o] \in Int /\ exited[o] \in Int /\ exited'[o] \in Int
                        /\ snapIn[t][o] \in Int /\ snapOut[t][o] \in Int
  BY NativeOrdersAssumption DEF TypeOK, TypeBroker, TypeThreads
<1>5. \A o \in Orders : snapIn'[t][o] <= filled'[o] /\ snapOut'[t][o] <= exited'[o]
  BY <1>4 DEF Forward, Carries
<1>6. \A o \in todo'[t] : jstate'[o] # "none"
  BY DEF Forward, Carries, TypeOK, TypeThreads
<1> QED
  BY <1>1, <1>2, <1>3, <1>5, <1>6 DEF Carries

(* A thread that only walks on, with nothing read of its row. *)
Blank == {"idle", "polling", "rows", "read", "drain", "act", "do", "wait", "done"}
LEMMA MoveCarries ==
  ASSUME TypeOK, TypeOK', Forward, NEW t \in Threads, Carries(t),
         pc[t] \in Blank, pc'[t] \in Blank,
         cur'[t] = cur[t] \/ (cur'[t] \in Orders => jstate'[cur'[t]] # "none"),
         \A o \in todo'[t] : jstate'[o] # "none",
         life'[t] \in {life[t], NoLife}, verdict'[t] \in {verdict[t], "none"},
         \A o \in Orders : snapIn'[t][o] <= filled'[o] /\ snapOut'[t][o] <= exited'[o]
  PROVE  Carries(t)'
<1>1. ~Ended(NoLife.entry) /\ "none" \notin Terminal
  BY DEF NoLife, Ended, Terminal, Resolved
<1>2. life'[t] = NoLife /\ verdict'[t] = "none"
  BY DEF Carries, Blank
<1>3. cur'[t] \in Orders => jstate'[cur'[t]] # "none"
  BY DEF Carries, Forward
<1>4. pc'[t] \notin {"decide", "kids", "kidswait", "store"}
  BY DEF Blank
<1> QED
  BY <1>1, <1>2, <1>3, <1>4 DEF Carries

(* What a snapshot showed has happened. *)
LEMMA SnapsKept ==
  ASSUME TypeOK, TypeOK', Forward, NEW t \in Threads, Carries(t),
         snapIn'[t] = snapIn[t], snapOut'[t] = snapOut[t], todo'[t] \subseteq todo[t]
  PROVE  /\ \A o \in Orders : snapIn'[t][o] <= filled'[o] /\ snapOut'[t][o] <= exited'[o]
         /\ \A o \in todo'[t] : jstate'[o] # "none"
<1>1. \A o \in Orders : /\ filled[o] \in Int /\ filled'[o] \in Int /\ exited[o] \in Int /\ exited'[o] \in Int
                        /\ snapIn[t][o] \in Int /\ snapOut[t][o] \in Int
  BY NativeOrdersAssumption DEF TypeOK, TypeBroker, TypeThreads
<1>2. todo'[t] \subseteq Orders
  BY DEF TypeOK, TypeThreads
<1> QED
  BY <1>1, <1>2 DEF Forward, Carries

LEMMA ReadFails_Keeps ==
  ASSUME IInv, TypeOK, TypeOK', NEW t \in Threads, ReadFails(t)
  PROVE  IInv' /\ Steady
<1>1. Forward
  BY SameBooks DEF ReadFails, localVars
<1>2. \A u \in Threads : Carries(u)'
  BY <1>1, AbandonCarries, OthersCarry DEF IInv, ReadFails, Fail, snapVars
<1>3. \A o \in Orders : Journaled(o)'
  BY JournalKept DEF ReadFails, localVars
<1> QED
  BY <1>2, <1>3, BooksKept DEF ReadFails, localVars

LEMMA Act_Keeps ==
  ASSUME IInv, TypeOK, TypeOK', NEW t \in Threads, Act(t)
  PROVE  IInv' /\ Steady
<1>1. Forward
  BY SameBooks DEF Act, localVars, journalVars
<1>2. \A u \in Threads : Carries(u)'
  <2>1. CASE Abandon(t)
    BY <2>1, <1>1, AbandonCarries, OthersCarry DEF IInv, Act, snapVars
  <2>2. CASE ~Abandon(t)
    <3>1. /\ pc[t] = "act" /\ pc'[t] \in {"read", "do"}
          /\ UNCHANGED <<cur, op, life, verdict, todo, snapVars>>
          /\ \A u \in Threads \ {t} : ThreadIdle(u)
      BY <2>2 DEF Act, Goto, ThreadIdle, snapVars, TypeOK, TypeThreads
    <3>2. Carries(t)'
      BY <3>1, <1>1, MoveCarries, SnapsKept DEF IInv, snapVars, Blank
    <3> QED
      BY <3>1, <3>2, <1>1, OthersCarry
  <2> QED
    BY <2>1, <2>2
<1>3. \A o \in Orders : Journaled(o)'
  BY JournalKept DEF Act, localVars, journalVars
<1> QED
  BY <1>2, <1>3, BooksKept DEF Act, localVars, journalVars

-----------------------------------------------------------------------------
(* Steps of the dispatcher. *)

(* What the broker has not been sent cannot be exposed. *)
LEMMA UnsentIsUnexposed ==
  ASSUME TypeOK, TypeOK', NEW o \in Orders, AtBroker(o), jstate[o] = "none"
  PROVE  ~Exposed(o) /\ filled[o] = 0 /\ exited[o] = 0
  BY Counts DEF AtBroker, Exposed, Position, Counted

LEMMA Claim_Keeps ==
  ASSUME IInv, TypeOK, TypeOK', NEW x \in Orders, Claim(x)
  PROVE  IInv' /\ Steady
<1>1. /\ UNCHANGED <<brokerVars, jstate, receipt, obs, cache, acts, exitReq>>
      /\ UNCHANGED threadVars
      /\ local'[x] \in {"PREPARED", "BLOCKED"} /\ \A o \in Orders \ {x} : local'[o] = local[o]
  BY DEF Claim, journalVars, TypeOK, TypeBook
<1>2. local[x] = "none" /\ jstate[x] = "none"
  BY Names DEF Claim, IInv, Journaled
<1>3. x \in Orders /\ {"PREPARED", "BLOCKED"} \cap LocalTerminal = {} /\ "none" \notin LocalTerminal
  BY DEF LocalTerminal
<1>4. Forward
  <2>1. \A o \in Orders : filled[o] <= filled[o] /\ exited[o] <= exited[o]
    BY Counts DEF Counted
  <2> QED
    BY <1>1, <1>2, <1>3, <2>1 DEF Forward, Exposed, Position, brokerVars
<1>5. \A o \in Orders : (AtBroker(o) /\ Journaled(o) /\ OnWire(o))'
  BY <1>1, <1>2 DEF IInv, AtBroker, Journaled, OnWire, Ended, brokerVars
<1>6. \A o \in Orders : Finished(o)'
  BY <1>1, <1>2, <1>3, Names DEF IInv, Finished, Exposed, Position, brokerVars
<1>7. Quiet'
  BY <1>1, <1>2 DEF IInv, Quiet, Claim, subVars, TypeOK, TypeBook
<1>8. (Alone /\ CloseHitsOwnPosition)'
  BY <1>1, <1>2 DEF IInv, Alone, CloseHitsOwnPosition, Exposed, Position, brokerVars
<1>9. Steady
  BY <1>1, <1>2, <1>3 DEF Steady, Exposed, Position, brokerVars
<1> QED
  BY <1>1, <1>4, <1>5, <1>6, <1>7, <1>8, <1>9, IdleThreads DEF IInv

LEMMA SubmitCheck_Keeps ==
  ASSUME IInv, TypeOK, TypeOK', SubmitCheck
  PROVE  IInv' /\ Steady
<1>1. UNCHANGED <<brokerVars, jstate, local, receipt, obs, cache, exitReq, acts>>
      /\ UNCHANGED threadVars
  BY DEF SubmitCheck, journalVars, localVars
<1>2. Forward
  BY <1>1, SameBooks
<1>3. \A o \in Orders : (AtBroker(o) /\ Journaled(o) /\ Finished(o) /\ OnWire(o))'
  BY <1>1 DEF IInv, AtBroker, Journaled, Finished, OnWire, Exposed, Position, Ended, brokerVars
<1>4. \A p \in Orders : jstate[p] = "none" \/ local[p] \in LocalTerminal
  BY DEF SubmitCheck, EntryBlocked, Unresolved, Terminal, IInv, Finished, TypeOK, TypeJournal
<1>5. \A p \in Orders, a \in CloseIds : <<a, p>> \notin net
  BY Names DEF SubmitCheck, EntryBlocked, IInv, OnWire
<1>6. Quiet'
  BY <1>1, <1>4, <1>5 DEF SubmitCheck, IInv, Quiet, brokerVars
<1>7. (Alone /\ CloseHitsOwnPosition)'
  BY <1>1 DEF IInv, Alone, CloseHitsOwnPosition, Exposed, Position, brokerVars
<1>8. Steady
  BY <1>1 DEF Steady, Exposed, Position, brokerVars
<1> QED
  BY <1>1, <1>2, <1>3, <1>6, <1>7, <1>8, IdleThreads DEF IInv

LEMMA SubmitReserve_Keeps ==
  ASSUME IInv, TypeOK, TypeOK', SubmitReserve
  PROVE  IInv'
<1>1. /\ UNCHANGED <<marketVars, accepted, receipt, obs, cache, acts, exitReq, local>>
      /\ UNCHANGED threadVars
      /\ jstate' = [jstate EXCEPT ![scur] = "SENDING"] /\ net' = net \cup {<<"entry", scur>>}
      /\ spc = "checked" /\ jstate[scur] = "none" /\ spc' = "posted" /\ scur' = scur
  BY DEF SubmitReserve, localVars
<1>2. scur \in Orders /\ local[scur] = "PREPARED"
  BY <1>1 DEF IInv, Quiet, TypeOK, TypeDispatch
<1>3. \A p \in Orders : jstate[p] = "none" \/ local[p] \in LocalTerminal
  BY <1>1 DEF IInv, Quiet
<1>4. \A p \in Orders, a \in CloseIds : <<a, p>> \notin net
  BY <1>1 DEF IInv, Quiet
<1>5. jstate'[scur] = "SENDING" /\ \A o \in Orders \ {scur} : jstate'[o] = jstate[o]
  BY <1>1, <1>2 DEF TypeOK, TypeJournal
<1>6. \A o \in Orders : ~Exposed(o)
  BY <1>3, UnsentIsUnexposed DEF IInv, Finished
<1>7. \A o \in Orders : Exposed(o)' => o = scur
  BY <1>1, <1>6 DEF Exposed, Position, marketVars
<1>8. Forward
  <2>1. \A o \in Orders : filled[o] <= filled[o] /\ exited[o] <= exited[o]
    BY Counts DEF Counted
  <2> QED
    BY <1>1, <1>5, <1>7, <2>1 DEF Forward, marketVars
<1>9. \A o \in Orders : AtBroker(o)'
  <2>1. \A o \in Orders : <<"entry", o>> \in net' => entry[o] = "none"
    BY <1>1, <1>2 DEF IInv, AtBroker
  <2> QED
    BY <1>1, <1>5, <2>1 DEF IInv, AtBroker, Ended, marketVars
<1>10. \A o \in Orders : Journaled(o)'
  BY <1>1, <1>2, <1>5 DEF IInv, Journaled, Ended, marketVars, Owning
<1>11. \A o \in Orders : Finished(o)'
  <2>1. "SENDING" \notin Terminal /\ "SENDING" # "NO_FILL" /\ "PREPARED" \notin LocalTerminal
    BY DEF Terminal, Resolved, LocalTerminal
  <2>2. \A o \in Orders : jstate'[o] = jstate[o] \/ o = scur
    BY <1>5
  <2>3. ASSUME NEW o \in Orders, o = scur PROVE Finished(o)'
    BY <1>1, <1>2, <1>5, <2>1, <2>3 DEF Finished
  <2>4. ASSUME NEW o \in Orders, o # scur PROVE Finished(o)'
    BY <2>4, <1>1, <1>5, <1>7 DEF IInv, Finished, marketVars
  <2> QED
    BY <2>3, <2>4
<1>12. \A o \in Orders : OnWire(o)'
  <2>1. \A a \in ActionIds \cup CloseIds \cup {"child-cancel"}, o \in Orders :
          <<a, o>> \in net' => <<a, o>> \in net
    BY <1>1, Names
  <2>2. <<"entry", scur>> \notin accepted
    BY <1>1, <1>2 DEF IInv, Journaled
  <2>3. \A a \in MsgKinds, o \in Orders : <<a, o>> \notin net' \cap accepted
    BY <1>1, <2>2 DEF IInv, OnWire
  <2> SUFFICES ASSUME NEW o \in Orders PROVE OnWire(o)'
    OBVIOUS
  <2>4. OnWire(o) /\ acts'[o] = acts[o] /\ entry'[o] = entry[o] /\ filled'[o] = filled[o]
    BY <1>1 DEF IInv, marketVars
  <2>5. \A a \in ActionIds : <<a, o>> \in net' \cup accepted' => acts'[o][a] # "none"
    BY <1>1, <2>1, <2>4 DEF OnWire
  <2>6. \A a \in CloseIds : <<a, o>> \in net' =>
          Ended(entry'[o]) /\ acts'[o][a] \in {"SENDING", "UNKNOWN"}
    BY <2>1, <2>4 DEF OnWire
  <2> QED
    BY <1>1, <2>1, <2>3, <2>4, <2>5, <2>6 DEF OnWire, Ended
<1>13. Quiet'
  BY <1>1 DEF Quiet
<1>14. Alone'
  BY <1>1, <1>3, <1>5, <1>7 DEF Alone
<1>15. CloseHitsOwnPosition'
  BY <1>1, <1>4, Names DEF CloseHitsOwnPosition
<1> QED
  BY <1>1, <1>8, <1>9, <1>10, <1>11, <1>12, <1>13, <1>14, <1>15, IdleThreads DEF IInv

(* The dispatcher ends or answers: its order moves in the books, not to an end. *)
LEMMA AnswerKeeps ==
  ASSUME IInv, TypeOK, TypeOK', spc # "idle", spc' \in {"idle", "replied"},
         UNCHANGED <<brokerVars, obs, cache, acts, exitReq>>, UNCHANGED threadVars,
         \A o \in Orders \ {scur} : jstate'[o] = jstate[o] /\ local'[o] = local[o]
                                    /\ receipt'[o] = receipt[o],
         jstate[scur] = "none" <=> jstate'[scur] = "none",
         jstate'[scur] = jstate[scur] \/ jstate'[scur] \notin Terminal,
         \/ local'[scur] = local[scur]
         \/ /\ local[scur] = "PREPARED"
            /\ local'[scur] = "WAITING" \/ (jstate'[scur] = "none" /\ local'[scur] = "BLOCKED"),
         receipt'[scur] => receipt[scur] \/ jstate'[scur] # "none"
  PROVE  IInv' /\ Steady
<1>1. scur \in Orders
  BY DEF TypeOK, TypeDispatch
<1>2. {"WAITING", "BLOCKED", "PREPARED"} \cap LocalTerminal = {} /\ "NO_FILL" \in Terminal \cap LocalTerminal
  BY DEF LocalTerminal, Terminal, Resolved
<1>3. Forward
  <2>1. \A o \in Orders : filled[o] <= filled[o] /\ exited[o] <= exited[o]
    BY Counts DEF Counted
  <2> QED
    BY <1>1, <1>2, <2>1 DEF Forward, Exposed, Position, brokerVars
<1>4. ASSUME NEW o \in Orders PROVE AtBroker(o)'
  BY <1>1 DEF IInv, AtBroker, Ended, brokerVars
<1>5. ASSUME NEW o \in Orders PROVE Journaled(o)'
  BY <1>1 DEF IInv, Journaled, Ended, brokerVars, Owning
<1>6. ASSUME NEW o \in Orders PROVE Finished(o)'
  <2>1. Finished(o) /\ (Exposed(o)' <=> Exposed(o)) /\ filled'[o] = filled[o]
    BY DEF IInv, Exposed, Position, brokerVars
  <2>2. CASE o # scur
    BY <2>1, <2>2 DEF Finished
  <2>3. CASE o = scur /\ local'[scur] = local[scur]
    BY <1>1, <1>2, <2>1, <2>3 DEF Finished
  <2>4. CASE o = scur /\ local'[scur] # local[scur]
    BY <1>1, <1>2, <2>1, <2>4 DEF Finished
  <2> QED
    BY <2>2, <2>3, <2>4
<1>7. ASSUME NEW o \in Orders PROVE OnWire(o)'
  BY DEF IInv, OnWire, Ended, brokerVars
<1>8. Quiet' /\ CloseHitsOwnPosition'
  BY DEF IInv, Quiet, CloseHitsOwnPosition, Exposed, Position, brokerVars
<1>9. Alone'
  <2>1. \A o \in Orders : jstate'[o] # "none" => jstate[o] # "none"
    BY <1>1
  <2> QED
    BY <1>3, <2>1 DEF IInv, Alone, Forward, Exposed, Position, brokerVars
<1>10. Steady
  BY <1>1, <1>2 DEF Steady, Exposed, Position, brokerVars
<1> QED
  BY <1>3, <1>4, <1>5, <1>6, <1>7, <1>8, <1>9, <1>10, IdleThreads DEF IInv

LEMMA SubmitRefused_Keeps ==
  ASSUME IInv, TypeOK, TypeOK', SubmitRefused
  PROVE  IInv' /\ Steady
<1>1. scur \in Orders /\ spc # "idle" /\ jstate[scur] = "none"
  BY DEF SubmitRefused, IInv, Quiet, TypeOK, TypeDispatch
<1>2. /\ UNCHANGED <<brokerVars, jstate, receipt, obs, cache, acts, exitReq>>
      /\ UNCHANGED threadVars /\ spc' = "idle"
      /\ local' = [local EXCEPT ![scur] = IF @ = "PREPARED" THEN "BLOCKED" ELSE @]
  BY DEF SubmitRefused, journalVars
<1> QED
  BY <1>1, <1>2, AnswerKeeps DEF TypeOK, TypeBook

LEMMA SubmitReply_Keeps ==
  ASSUME IInv, TypeOK, TypeOK', SubmitReply
  PROVE  IInv' /\ Steady
<1>1. scur \in Orders /\ spc # "idle" /\ spc' = "replied"
  BY DEF SubmitReply, TypeOK, TypeDispatch
<1>2. UNCHANGED <<brokerVars, obs, cache, acts, exitReq, local>> /\ UNCHANGED threadVars
  BY DEF SubmitReply, localVars
<1>3. \/ UNCHANGED <<jstate, receipt>>
      \/ \E ok \in BOOLEAN : /\ jstate[scur] = "SENDING"
            /\ jstate' = [jstate EXCEPT ![scur] = IF ok THEN "WAITING_BROKER_FILL" ELSE "UNKNOWN"]
            /\ receipt' = [receipt EXCEPT ![scur] = ok]
  BY DEF SubmitReply
<1>4. CASE UNCHANGED <<jstate, receipt>>
  BY <1>1, <1>2, <1>4, AnswerKeeps
<1>5. CASE ~UNCHANGED <<jstate, receipt>>
  <2>0. PICK ok \in BOOLEAN : /\ jstate[scur] = "SENDING"
            /\ jstate' = [jstate EXCEPT ![scur] = IF ok THEN "WAITING_BROKER_FILL" ELSE "UNKNOWN"]
            /\ receipt' = [receipt EXCEPT ![scur] = ok]
    BY <1>3, <1>5
  <2>1. jstate'[scur] \in {"WAITING_BROKER_FILL", "UNKNOWN"} /\ jstate[scur] = "SENDING"
    BY <1>1, <2>0 DEF TypeOK, TypeJournal
  <2>2. \A o \in Orders \ {scur} : jstate'[o] = jstate[o] /\ receipt'[o] = receipt[o]
    BY <1>1, <2>0 DEF TypeOK, TypeJournal
  <2> QED
    BY <1>1, <1>2, <2>1, <2>2, AnswerKeeps DEF Terminal, Resolved
<1> QED
  BY <1>4, <1>5

LEMMA SubmitRecord_Keeps ==
  ASSUME IInv, TypeOK, TypeOK', SubmitRecord
  PROVE  IInv' /\ Steady
<1>1. scur \in Orders /\ spc # "idle" /\ spc' = "idle"
  BY DEF SubmitRecord, TypeOK, TypeDispatch
<1>2. /\ UNCHANGED <<brokerVars, jstate, receipt, obs, cache, acts, exitReq>>
      /\ UNCHANGED threadVars
      /\ local' = [local EXCEPT ![scur] = IF @ = "PREPARED" THEN "WAITING" ELSE @]
  BY DEF SubmitRecord, journalVars
<1> QED
  BY <1>1, <1>2, AnswerKeeps DEF TypeOK, TypeBook

-----------------------------------------------------------------------------
(* Steps of the threads that read or write the books. *)

LEMMA StaysForward ==
  ASSUME TypeOK, TypeOK', UNCHANGED marketVars,
         \A o \in Orders : /\ <<"entry", o>> \in net' => <<"entry", o>> \in net
                           /\ jstate[o] # "none" => jstate'[o] # "none"
                           /\ local[o] \in LocalTerminal => local'[o] = local[o]
  PROVE  Forward
<1>1. \A o \in Orders : filled[o] <= filled[o] /\ exited[o] <= exited[o]
  BY Counts DEF Counted
<1> QED
  BY <1>1 DEF Forward, Exposed, Position, marketVars

(* Rows of orders that were reserved move; what is finished stays so. *)
LEMMA RowsKept ==
  ASSUME IInv, TypeOK, TypeOK', UNCHANGED <<brokerVars, subVars>>,
         \A o \in Orders : /\ Journaled(o)' /\ Finished(o)'
                           /\ jstate'[o] = "none" <=> jstate[o] = "none"
                           /\ \/ local'[o] = local[o]
                              \/ jstate[o] # "none" /\ local[o] \notin LocalTerminal
         ,
         \A o \in Orders, a \in ActionIds :
           /\ acts[o][a] # "none" => acts'[o][a] # "none"
           /\ a \in CloseIds => acts'[o][a] = acts[o][a],
         \A t \in Threads : Carries(t)'
  PROVE  IInv' /\ Steady
<1>1. \A o \in Orders : AtBroker(o)'
  BY DEF IInv, AtBroker, Ended, brokerVars
<1>2. ASSUME NEW o \in Orders PROVE OnWire(o)'
  <2>1. OnWire(o)
    BY DEF IInv
  <2>2. \A a \in ActionIds : <<a, o>> \in net \cup accepted => acts'[o][a] # "none"
    BY <2>1 DEF OnWire
  <2>3. \A a \in CloseIds : acts'[o][a] = acts[o][a]
    BY Names
  <2> QED
    BY <2>1, <2>2, <2>3 DEF OnWire, Ended, brokerVars
<1>3. Quiet'
  <2>1. spc # "idle" => scur \in Orders
    BY DEF TypeOK, TypeDispatch
  <2>2. spc \in {"prepared", "checked"} => jstate'[scur] = "none" /\ local'[scur] = "PREPARED"
    BY <2>1 DEF IInv, Quiet
  <2>3. spc = "checked" => \A p \in Orders : jstate'[p] = "none" \/ local'[p] \in LocalTerminal
    BY DEF IInv, Quiet
  <2> QED
    BY <2>2, <2>3 DEF IInv, Quiet, subVars, brokerVars
<1>4. Alone'
  <2>1. \A o \in Orders : local[o] \in LocalTerminal => local'[o] \in LocalTerminal
    OBVIOUS
  <2> QED
    BY <2>1 DEF IInv, Alone, Exposed, Position, brokerVars
<1>5. CloseHitsOwnPosition'
  BY DEF IInv, CloseHitsOwnPosition, Exposed, Position, brokerVars
<1>6. Steady
  BY DEF Steady, Exposed, Position, brokerVars
<1> QED
  BY <1>1, <1>2, <1>3, <1>4, <1>5, <1>6 DEF IInv

(* An action is reserved and posted. *)
LEMMA PostKeeps ==
  ASSUME IInv, TypeOK, TypeOK', NEW x \in Orders, NEW b \in ActionIds,
         UNCHANGED <<marketVars, accepted, jstate, local, receipt, obs, cache, exitReq, subVars>>,
         acts[x][b] = "none", acts' = [acts EXCEPT ![x][b] = "SENDING"],
         net' = net \cup {<<b, x>>},
         b \in CloseIds => Ended(entry[x]) /\ jstate[x] # "none" /\ local[x] \notin LocalTerminal,
         b = "child-cancel" => Ended(entry[x]) /\ filled[x] = 0,
         \A t \in Threads : Carries(t)'
  PROVE  IInv' /\ Steady
<1>1. \A o \in Orders : Exposed(o)' <=> Exposed(o)
  BY Names DEF Exposed, Position, marketVars
<1>2. \A o \in Orders : AtBroker(o)'
  BY Names DEF IInv, AtBroker, Ended, marketVars
<1>3. \A o \in Orders : Journaled(o)'
  BY DEF IInv, Journaled, Ended, marketVars
<1>4. \A o \in Orders : Finished(o)'
  BY <1>1 DEF IInv, Finished, marketVars
<1>5. \A o \in Orders, a \in ActionIds : acts'[o][a] = IF o = x /\ a = b THEN "SENDING" ELSE acts[o][a]
  BY DEF TypeOK, TypeJournal
<1>6. <<b, x>> \notin net \cup accepted
  BY DEF IInv, OnWire
<1>7. ASSUME NEW o \in Orders PROVE OnWire(o)'
  <2>1. OnWire(o)
    BY DEF IInv
  <2>2. \A a \in ActionIds : <<a, o>> \in net' \cup accepted' => acts'[o][a] # "none"
    BY <1>5, <2>1 DEF OnWire
  <2>3. \A a \in MsgKinds : <<a, o>> \notin net' \cap accepted'
    BY <1>6, <2>1 DEF OnWire
  <2>4. \A a \in CloseIds : <<a, o>> \in net' =>
          Ended(entry[o]) /\ acts'[o][a] \in {"SENDING", "UNKNOWN"}
    BY <1>5, <2>1, Names DEF OnWire
  <2>5. <<"child-cancel", o>> \in net' => Ended(entry[o]) /\ filled[o] = 0
    BY <2>1 DEF OnWire
  <2> QED
    BY <2>2, <2>3, <2>4, <2>5 DEF OnWire, Ended, marketVars
<1>8. (Quiet /\ CloseHitsOwnPosition)'
  <2>1. CASE b \notin CloseIds
    BY <1>1, <2>1 DEF IInv, Quiet, CloseHitsOwnPosition, subVars
  <2>2. CASE b \in CloseIds
    <3>1. \A p \in Orders : Exposed(p) => p = x
      BY <2>2 DEF IInv, Alone
    <3>2. spc # "checked"
      BY <2>2 DEF IInv, Quiet
    <3>3. CloseHitsOwnPosition'
      BY <1>1, <3>1 DEF IInv, CloseHitsOwnPosition
    <3> QED
      BY <3>2, <3>3 DEF IInv, Quiet, subVars
  <2> QED
    BY <2>1, <2>2
<1>9. Alone'
  BY <1>1 DEF IInv, Alone
<1>10. Steady
  BY <1>1 DEF Steady
<1> QED
  BY <1>2, <1>3, <1>4, <1>7, <1>8, <1>9, <1>10 DEF IInv

(* The reply to a posted action is noted. *)
LEMMA OutcomeKeeps ==
  ASSUME IInv, TypeOK, TypeOK', NEW x \in Orders, NEW b \in ActionIds, Outcome(b, x),
         UNCHANGED <<brokerVars, jstate, local, receipt, obs, cache, exitReq, subVars>>,
         \A t \in Threads : Carries(t)'
  PROVE  IInv' /\ Steady
<1>1. \A o \in Orders : (AtBroker(o) /\ Journaled(o) /\ Finished(o))'
  BY DEF IInv, AtBroker, Journaled, Finished, Exposed, Position, Ended, brokerVars
<1>2. PICK s \in {"ACKNOWLEDGED", "UNKNOWN"} :
        /\ s = "ACKNOWLEDGED" => <<b, x>> \in accepted
        /\ acts' = [acts EXCEPT ![x][b] = s]
  BY DEF Outcome
<1>3. \A o \in Orders, a \in ActionIds : acts'[o][a] = IF o = x /\ a = b THEN s ELSE acts[o][a]
  BY <1>2 DEF TypeOK, TypeJournal
<1>4. ASSUME NEW o \in Orders PROVE OnWire(o)'
  <2>1. OnWire(o)
    BY DEF IInv
  <2>2. \A a \in ActionIds : <<a, o>> \in net \cup accepted => acts'[o][a] # "none"
    BY <1>3, <2>1 DEF OnWire
  <2>3. \A a \in CloseIds : <<a, o>> \in net =>
          Ended(entry[o]) /\ acts'[o][a] \in {"SENDING", "UNKNOWN"}
    BY <1>2, <1>3, <2>1, Names DEF OnWire
  <2> QED
    BY <2>1, <2>2, <2>3 DEF OnWire, Ended, brokerVars
<1>5. (Quiet /\ Alone /\ CloseHitsOwnPosition)'
  BY DEF IInv, Quiet, Alone, CloseHitsOwnPosition, Exposed, Position, brokerVars, subVars
<1>6. Steady
  BY DEF Steady, Exposed, Position, brokerVars
<1> QED
  BY <1>1, <1>4, <1>5, <1>6 DEF IInv

LEMMA QueueExit_Keeps ==
  ASSUME IInv, TypeOK, TypeOK', NEW x \in Orders, QueueExit(x)
  PROVE  IInv' /\ Steady
<1>1. /\ UNCHANGED <<brokerVars, jstate, local, acts, receipt, obs, cache>>
      /\ UNCHANGED threadVars /\ UNCHANGED subVars
      /\ jstate[x] # "none" /\ exitReq' = exitReq \cup {x}
  BY DEF QueueExit, localVars, Unresolved
<1>2. \A o \in Orders : Journaled(o)'
  BY <1>1 DEF IInv, Journaled, Ended, brokerVars
<1>3. \A t \in Threads : Carries(t)'
  BY <1>1, SameBooks, IdleThreads
<1> QED
  BY <1>1, <1>2, <1>3, BooksKept

LEMMA ForgetCarries ==
  ASSUME IInv, TypeOK, TypeOK', Forward, NEW T \in SUBSET Threads, Forget(T)
  PROVE  \A t \in Threads : Carries(t)'
<1> SUFFICES ASSUME NEW t \in Threads PROVE Carries(t)'
  OBVIOUS
<1>1. CASE t \notin T
  BY <1>1, CarriesOn DEF IInv, Forget, ThreadIdle
<1>2. CASE t \in T
  <2>1. /\ pc'[t] = "idle" /\ cur'[t] = NoOrder /\ todo'[t] = {} /\ life'[t] = NoLife
        /\ verdict'[t] = "none" /\ snapIn'[t] = NoFills /\ snapOut'[t] = NoFills
    BY <1>2 DEF Forget
  <2>2. \A o \in Orders : NoFills[o] <= filled'[o] /\ NoFills[o] <= exited'[o]
    BY Counts, NativeOrdersAssumption DEF NoFills, Counted, TypeOK, TypeBroker
  <2>3. ~Ended(NoLife.entry) /\ "none" \notin Terminal
    BY DEF NoLife, Ended, Terminal, Resolved
  <2> QED
    BY <2>1, <2>2, <2>3, NoOrderAssumption DEF Carries
<1> QED
  BY <1>1, <1>2

LEMMA Release_Keeps ==
  ASSUME IInv, TypeOK, TypeOK', NEW t \in Threads, Release(t)
  PROVE  IInv' /\ Steady
<1>1. UNCHANGED <<brokerVars, jstate, local, acts, receipt, obs, cache, exitReq>> /\ UNCHANGED subVars
  BY DEF Release, localVars, journalVars
<1>2. \A u \in Threads : Carries(u)'
  BY <1>1, SameBooks, ForgetCarries, {t} \in SUBSET Threads DEF Release
<1> QED
  BY <1>1, <1>2, JournalKept, BooksKept

LEMMA Crash_Keeps ==
  ASSUME IInv, TypeOK, TypeOK', Crash
  PROVE  IInv' /\ Steady
<1>1. UNCHANGED <<brokerVars, jstate, local, acts, receipt, obs, cache, exitReq>> /\ spc' = "idle"
  BY DEF Crash, localVars, journalVars
<1>2. \A u \in Threads : Carries(u)'
  BY <1>1, SameBooks, ForgetCarries, Threads \in SUBSET Threads DEF Crash
<1> QED
  BY <1>1, <1>2, JournalKept, BooksKept

LEMMA NextRow_Keeps ==
  ASSUME IInv, TypeOK, TypeOK', NextRow
  PROVE  IInv' /\ Steady
<1>1. UNCHANGED <<brokerVars, jstate, local, acts, receipt, obs, cache, exitReq>> /\ UNCHANGED subVars
  BY DEF NextRow, localVars, journalVars
<1>2. Forward
  BY <1>1, SameBooks
<1>3. "rec" \in Threads
  BY DEF Threads
<1>4. /\ pc["rec"] = "rows" /\ pc'["rec"] = "read"
      /\ cur'["rec"] \in todo["rec"] /\ todo'["rec"] \subseteq todo["rec"]
      /\ UNCHANGED <<snapIn, snapOut, life, verdict>>
      /\ \A u \in Threads \ {"rec"} : ThreadIdle(u)
  BY <1>3 DEF NextRow, Goto, snapVars, ThreadIdle, TypeOK, TypeThreads
<1>5. Carries("rec")
  BY <1>3 DEF IInv
<1>6. jstate'[cur'["rec"]] # "none"
  BY <1>1, <1>4, <1>5 DEF Carries
<1>7. Carries("rec")'
  BY <1>2, <1>3, <1>4, <1>5, <1>6, MoveCarries, SnapsKept DEF Blank
<1>8. \A u \in Threads : Carries(u)'
  BY <1>2, <1>3, <1>4, <1>7, OthersCarry
<1> QED
  BY <1>1, <1>8, JournalKept, BooksKept

LEMMA DrainExit_Keeps ==
  ASSUME IInv, TypeOK, TypeOK', DrainExit
  PROVE  IInv' /\ Steady
<1>1. UNCHANGED <<brokerVars, jstate, local, acts, receipt, obs, cache>> /\ UNCHANGED subVars
  BY DEF DrainExit, localVars
<1>2. Forward
  BY <1>1, SameBooks
<1>3. "rec" \in Threads
  BY DEF Threads
<1>4. /\ pc["rec"] = "drain" /\ pc'["rec"] \in {"drain", "act"}
      /\ cur'["rec"] = cur["rec"] \/ cur'["rec"] \in todo["rec"]
      /\ todo'["rec"] \subseteq todo["rec"] /\ exitReq' \subseteq exitReq
      /\ UNCHANGED <<snapIn, snapOut, life, verdict>>
      /\ \A u \in Threads \ {"rec"} : ThreadIdle(u)
  BY <1>3 DEF DrainExit, Goto, snapVars, ThreadIdle, TypeOK, TypeThreads
<1>5. Carries("rec")
  BY <1>3 DEF IInv
<1>6. cur'["rec"] = cur["rec"] \/ jstate'[cur'["rec"]] # "none"
  BY <1>1, <1>4, <1>5 DEF Carries
<1>7. Carries("rec")'
  BY <1>2, <1>3, <1>4, <1>5, <1>6, MoveCarries, SnapsKept DEF Blank
<1>8. \A u \in Threads : Carries(u)'
  BY <1>2, <1>3, <1>4, <1>7, OthersCarry
<1>9. \A o \in Orders : Journaled(o)'
  BY <1>1, <1>4 DEF IInv, Journaled, Ended, brokerVars
<1> QED
  BY <1>1, <1>8, <1>9, BooksKept

LEMMA Costs_Keeps ==
  ASSUME IInv, TypeOK, TypeOK', Costs
  PROVE  IInv' /\ Steady
<1>1. UNCHANGED <<brokerVars, local, acts, receipt, obs, cache, exitReq>> /\ UNCHANGED subVars
  BY DEF Costs, localVars
<1>2. \A o \in Orders : \/ jstate'[o] = jstate[o]
                        \/ {jstate[o], jstate'[o]} \subseteq {"CLOSED", "CLOSED_PENDING_COSTS"}
  BY DEF Costs, LatestClosed, TypeOK, TypeJournal
<1>3. {"CLOSED", "CLOSED_PENDING_COSTS"} \subseteq Terminal \ {"none", "NO_FILL"}
  BY DEF Terminal, Resolved
<1>4. Forward
  BY <1>1, <1>2, <1>3, StaysForward DEF brokerVars, marketVars
<1>5. "rec" \in Threads
  BY DEF Threads
<1>6. /\ pc["rec"] = "rows" /\ pc'["rec"] = "drain" /\ todo'["rec"] = exitReq
      /\ UNCHANGED <<cur, snapIn, snapOut, life, verdict>>
      /\ \A u \in Threads \ {"rec"} : ThreadIdle(u)
  BY <1>5 DEF Costs, Goto, snapVars, ThreadIdle, TypeOK, TypeThreads
<1>7. \A o \in Orders : Journaled(o)'
  BY <1>1, <1>2, <1>3 DEF IInv, Journaled, Ended, brokerVars
<1>8. \A o \in Orders : Finished(o)'
  BY <1>1, <1>2, <1>3 DEF IInv, Finished, Exposed, Position, brokerVars
<1>9. Carries("rec")'
  <2>1. \A o \in todo'["rec"] : jstate'[o] # "none"
    BY <1>1, <1>6, <1>7 DEF Journaled, TypeOK, TypeJournal
  <2>2. Carries("rec") /\ \A o \in Orders : snapIn'["rec"][o] <= filled'[o]
                                              /\ snapOut'["rec"][o] <= exited'[o]
    BY <1>1, <1>5, <1>6 DEF IInv, Carries, brokerVars
  <2> QED
    BY <1>4, <1>5, <1>6, <2>1, <2>2, MoveCarries DEF Blank
<1>10. \A u \in Threads : Carries(u)'
  BY <1>4, <1>5, <1>6, <1>9, OthersCarry
<1> QED
  BY <1>1, <1>2, <1>3, <1>7, <1>8, <1>10, RowsKept

(* The fill list never shows more than happened. *)
LEMMA ShownHappened ==
  ASSUME IInv, UNCHANGED brokerVars
  PROVE  \A o \in Orders : shownIn[o] <= filled'[o] /\ shownOut[o] <= exited'[o]
  BY DEF IInv, AtBroker, brokerVars

LEMMA PollStart_Keeps ==
  ASSUME IInv, TypeOK, TypeOK', NEW t \in Threads, NEW o \in Orders \cup {NoOrder}, NEW what,
         PollStart(t, o, what)
  PROVE  IInv' /\ Steady
<1>1. UNCHANGED <<brokerVars, jstate, acts, receipt, obs, cache, exitReq>> /\ UNCHANGED subVars
  BY DEF PollStart, journalVars
<1>2. o # NoOrder => o \in Orders /\ jstate[o] # "none"
  BY DEF PollStart, IInv, Journaled
<1>3. \A p \in Orders : \/ local'[p] = local[p]
                        \/ local'[p] = "EXITING" /\ local[p] = "OPEN" /\ jstate[p] # "none"
  BY <1>2, NoOrderAssumption DEF PollStart, TypeOK, TypeBook
<1>4. "OPEN" \notin LocalTerminal /\ "EXITING" \notin LocalTerminal /\ "EXITING" \in Owning
      /\ "OPEN" # "NO_FILL" /\ "EXITING" # "NO_FILL"
  BY DEF LocalTerminal, Owning
<1>5. Forward
  BY <1>1, <1>3, <1>4, StaysForward DEF brokerVars, marketVars
<1>6. \A p \in Orders : Journaled(p)'
  BY <1>1, <1>3, <1>4 DEF IInv, Journaled, Ended, brokerVars
<1>7. \A p \in Orders : Finished(p)'
  <2> SUFFICES ASSUME NEW p \in Orders PROVE Finished(p)'
    OBVIOUS
  <2>1. Finished(p) /\ (Exposed(p)' <=> Exposed(p)) /\ filled'[p] = filled[p]
    BY <1>1 DEF IInv, Exposed, Position, brokerVars
  <2> QED
    BY <1>1, <1>3, <1>4, <2>1 DEF Finished
<1>8. /\ pc[t] = "idle" /\ pc'[t] = "polling" /\ cur'[t] = o
      /\ snapIn'[t] = shownIn /\ snapOut'[t] = shownOut
      /\ UNCHANGED <<todo, life, verdict>>
      /\ \A u \in Threads \ {t} : ThreadIdle(u)
  BY DEF PollStart, ThreadIdle, TypeOK, TypeThreads
<1>9. Carries(t)'
  <2>1. cur'[t] \in Orders => jstate'[cur'[t]] # "none"
    BY <1>1, <1>2, <1>8, NoOrderAssumption
  <2>2. \A p \in todo'[t] : jstate'[p] # "none"
    BY <1>1, <1>8 DEF IInv, Carries
  <2> QED
    BY <1>1, <1>5, <1>8, <2>1, <2>2, ShownHappened, MoveCarries DEF IInv, Blank
<1>10. \A u \in Threads : Carries(u)'
  BY <1>5, <1>8, <1>9, OthersCarry
<1> QED
  BY <1>1, <1>3, <1>4, <1>6, <1>7, <1>10, RowsKept

LEMMA PollEnd_Keeps ==
  ASSUME IInv, TypeOK, TypeOK', NEW t \in Threads, PollEnd(t)
  PROVE  IInv' /\ Steady
<1>1. UNCHANGED <<brokerVars, jstate, local, acts, receipt, cache, exitReq>> /\ UNCHANGED subVars
  BY DEF PollEnd, localVars
<1>2. Forward
  BY <1>1, SameBooks
<1>3. \A o \in Orders : obs'[o].ended = obs[o].ended
  <2> SUFFICES ASSUME NEW o \in Orders PROVE obs'[o].ended = obs[o].ended
    OBVIOUS
  <2>1. obs[o] \in Observations
    BY DEF TypeOK, TypeJournal
  <2>2. obs'[o] \in {obs[o], [obs[o] EXCEPT !.src = "none"]}
    BY DEF PollEnd
  <2>3. [obs[o] EXCEPT !.src = "none"].ended = obs[o].ended
    BY <2>1 DEF Observations
  <2> QED
    BY <2>2, <2>3
<1>4. \A o \in Orders : Journaled(o)'
  BY <1>1, <1>3 DEF IInv, Journaled, Ended, brokerVars
<1>5. /\ pc[t] = "polling" /\ pc'[t] \in {"rows", "act"}
      /\ UNCHANGED <<cur, life, verdict>>
      /\ todo'[t] = {} \/ todo'[t] = {o \in Orders : jstate[o] \in Unresolved \ Terminal}
      /\ \A u \in Threads \ {t} : ThreadIdle(u)
  BY DEF PollEnd, ThreadIdle, TypeOK, TypeThreads
<1>6. \/ snapIn'[t] = snapIn[t] /\ snapOut'[t] = snapOut[t]
      \/ snapIn'[t] = shownIn /\ snapOut'[t] = shownOut
  BY DEF PollEnd, TypeOK, TypeThreads
<1>7. \A o \in Orders : snapIn'[t][o] <= filled'[o] /\ snapOut'[t][o] <= exited'[o]
  <2>1. \A o \in Orders : snapIn[t][o] <= filled'[o] /\ snapOut[t][o] <= exited'[o]
    BY <1>1 DEF IInv, Carries, brokerVars
  <2> QED
    BY <1>1, <1>6, <2>1, ShownHappened
<1>8. \A o \in todo'[t] : jstate'[o] # "none"
  BY <1>1, <1>5 DEF Unresolved
<1>9. Carries(t)'
  BY <1>2, <1>5, <1>7, <1>8, MoveCarries DEF IInv, Blank
<1>10. \A u \in Threads : Carries(u)'
  BY <1>2, <1>5, <1>9, OthersCarry
<1> QED
  BY <1>1, <1>4, <1>10, BooksKept

(* A thread that carries something of its row on to the next place. *)
LEMMA CarriesRow ==
  ASSUME TypeOK, TypeOK', Forward, NEW t \in Threads, Carries(t),
         pc[t] \in {"read", "decide", "kids", "kidswait"},
         pc'[t] \in {"decide", "kids", "kidswait", "store"},
         UNCHANGED <<todo, cur, snapIn, snapOut>>,
         LET o == cur[t] IN
         /\ Ended(life'[t].entry) =>
              /\ entry'[o] = life'[t].entry
              /\ life'[t].entry = "Cancelled" /\ ~life'[t].rep => filled'[o] = 0
         /\ verdict'[t] # "CLOSED" /\ (pc'[t] = "decide" <=> verdict'[t] = "none")
         /\ pc'[t] = "kids" => Ended(entry'[o]) /\ filled'[o] = 0
         /\ verdict'[t] \in Terminal => /\ local'[o] \in LocalTerminal
                                        /\ verdict'[t] = "NO_FILL" => filled'[o] = 0
  PROVE  Carries(t)'
<1>1. cur[t] \in Orders /\ cur'[t] = cur[t]
  BY DEF TypeOK, TypeThreads, HasRow
<1>2. /\ \A o \in Orders : snapIn'[t][o] <= filled'[o] /\ snapOut'[t][o] <= exited'[o]
      /\ \A o \in todo'[t] : jstate'[o] # "none"
  BY SnapsKept
<1>3. jstate'[cur'[t]] # "none"
  BY <1>1 DEF Carries, Forward
<1> QED
  BY <1>1, <1>2, <1>3 DEF Carries

LEMMA ReadLife_Keeps ==
  ASSUME IInv, TypeOK, TypeOK', LateReports = FALSE, NEW t \in Threads, ReadLife(t)
  PROVE  IInv' /\ Steady
<1>1. UNCHANGED <<brokerVars, jstate, local, acts, receipt, obs, exitReq>> /\ UNCHANGED subVars
      /\ UNCHANGED <<todo, snapIn, snapOut>> /\ pc[t] = "read"
  BY DEF ReadLife, localVars, snapVars
<1>2. Forward
  BY <1>1, SameBooks
<1>3. PICK x \in Orders : x = cur[t] /\ Carries(t)
  BY <1>1 DEF IInv, TypeOK, TypeThreads, HasRow
<1>4. CASE entry[x] = "none" \/ kids[x] = "none"
  <2>1. Abandon(t) /\ cache' = cache
    BY <1>3, <1>4 DEF ReadLife, Fail
  <2>2. \A u \in Threads : Carries(u)'
    BY <1>1, <1>2, <1>3, <2>1, AbandonCarries, OthersCarry
  <2> QED
    BY <1>1, <2>1, <2>2, JournalKept, BooksKept
<1>5. CASE ~(entry[x] = "none" \/ kids[x] = "none")
  <2>0. filled[x] \in Int /\ 0 <= filled[x]
    BY NativeOrdersAssumption DEF TypeOK, TypeBroker
  <2>3. cache[x] \in {"none", "fill", "no fill"}
    BY DEF TypeOK, TypeJournal
  <2>1. PICK rep \in BOOLEAN :
          /\ life' = [life EXCEPT ![t] = [entry |-> entry[x], kids |-> kids[x], rep |-> rep]]
          /\ cache' = IF Ended(entry[x])
                      THEN [cache EXCEPT ![x] = IF rep THEN "fill" ELSE "no fill"] ELSE cache
          /\ ~rep => (Ended(entry[x]) /\ cache[x] = "no fill") \/ ~(filled[x] > 0)
    <3>1. PICK rep \in IF Ended(entry[x]) /\ cache[x] # "none" THEN {cache[x] = "fill"}
                       ELSE {filled[x] > 0} \cup (IF LateReports THEN {shownIn[x] > 0} ELSE {}) :
            /\ life' = [life EXCEPT ![t] = [entry |-> entry[x], kids |-> kids[x], rep |-> rep]]
            /\ cache' = IF Ended(entry[x])
                        THEN [cache EXCEPT ![x] = IF rep THEN "fill" ELSE "no fill"] ELSE cache
      BY <1>3, <1>5 DEF ReadLife
    <3>2. rep \in {cache[x] = "fill", filled[x] > 0}
      BY <3>1
    <3>3. ~rep => (Ended(entry[x]) /\ cache[x] = "no fill") \/ ~(filled[x] > 0)
      BY <2>3, <3>1
    <3>4. (filled[x] > 0) \in BOOLEAN
      OBVIOUS
    <3>5. rep \in BOOLEAN
      BY <3>2, <3>4, Zenon
    <3> QED
      BY <3>1, <3>3, <3>5
  <2>2. /\ pc'[t] = "decide" /\ UNCHANGED <<cur, verdict>>
        /\ \A u \in Threads \ {t} : ThreadIdle(u)
    BY <1>1, <1>3, <1>5 DEF ReadLife, Goto, ThreadIdle, TypeOK, TypeThreads
  <2>4. Ended(entry[x]) /\ ~rep => filled[x] = 0
    <3>1. cache[x] = "no fill" => filled[x] = 0
      BY DEF IInv, Journaled
    <3>2. ~rep => cache[x] = "no fill" \/ ~(filled[x] > 0)
      BY <2>1
    <3>3. filled[x] > 0 \/ filled[x] = 0
      BY <2>0
    <3> QED
      BY <3>1, <3>2, <3>3, Zenon
  <2>5. life'[t].entry = entry[x] /\ life'[t].rep = rep
    BY <2>1 DEF TypeOK, TypeThreads
  <2>6. Carries(t)'
    <3>1. verdict[t] = "none" /\ "none" \notin Terminal
      BY <1>1, <1>3, Names DEF Carries
    <3>2. entry'[x] = entry[x] /\ filled'[x] = filled[x]
      BY <1>1 DEF brokerVars
    <3> QED
      BY <1>1, <1>2, <1>3, <2>2, <2>4, <2>5, <3>1, <3>2, CarriesRow
  <2>7. \A u \in Threads : Carries(u)'
    BY <1>2, <2>2, <2>6, OthersCarry
  <2>8. ASSUME NEW p \in Orders PROVE Journaled(p)'
    <3>1. cache'[p] = "no fill" => Ended(entry[p]) /\ filled[p] = 0
      <4>1. cache[p] = "no fill" => Ended(entry[p]) /\ filled[p] = 0
        BY DEF IInv, Journaled
      <4>2. cache'[p] = cache[p] \/ (p = x /\ Ended(entry[x]) /\ (cache'[p] = "no fill" => ~rep))
        BY <1>3, <2>1 DEF TypeOK, TypeJournal
      <4> QED
        BY <2>4, <4>1, <4>2
    <3> QED
      BY <1>1, <3>1 DEF IInv, Journaled, Ended, brokerVars
  <2> QED
    BY <1>1, <2>7, <2>8, BooksKept
<1> QED
  BY <1>4, <1>5

(* What a thread can decide: leave the row, or carry a verdict and move the    *)
(* order's book accordingly.                                                   *)
Moved(t, o) ==
  /\ pc'[t] \in {"kids", "store"} /\ cur' = cur /\ life' = life
  /\ \A u \in Threads \ {t} : pc'[u] = pc[u] /\ verdict'[u] = verdict[u]
  /\ verdict'[t] \notin {"none", "CLOSED"}
  /\ pc'[t] = "kids" => EndedUnfilled(t)
  /\ verdict'[t] = "NO_FILL" => EndedUnfilled(t)
  /\ verdict'[t] \in Terminal => local'[o] \in LocalTerminal
  /\ \A p \in Orders \ {o} : local'[p] = local[p]
  /\ \/ local'[o] = local[o]
     \/ local'[o] \in {"OPEN", "MISMATCH", "EXITING"} /\ local[o] \notin LocalTerminal
     \/ local'[o] = "NO_FILL" /\ local[o] \notin LocalTerminal /\ EndedUnfilled(t)
     \/ /\ local'[o] = "CLOSED" /\ local[o] # "CLOSED"
        /\ snapIn[t][o] > 0 /\ Remaining(t, o) = 0 /\ Ended(life[t].entry)

LEMMA UnfilledMoves ==
  ASSUME TypeOK, NEW t \in Threads, NEW o \in Orders, DecideUnfilled(t, o)
  PROVE  Moved(t, o)
<1>1. "none" \notin Terminal /\ {"WAITING_BROKER_FILL", "WAITING_NO_FILL_EVIDENCE",
         "WAITING_CHILD_CANCEL"} \cap (Terminal \cup {"NO_FILL", "none", "CLOSED"}) = {}
      /\ "NO_FILL" \in LocalTerminal
  BY DEF Terminal, Resolved, LocalTerminal
<1>2. \/ \E s \in {"WAITING_BROKER_FILL", "WAITING_NO_FILL_EVIDENCE"} : SettleOnly(t, s)
      \/ /\ EndedUnfilled(t) /\ verdict' = [verdict EXCEPT ![t] = "WAITING_CHILD_CANCEL"]
         /\ Goto(t, "kids") /\ UNCHANGED <<failed, cur, op, life, localVars, outdated>>
      \/ /\ EndedUnfilled(t) /\ Settle(t, "NO_FILL")
         /\ \/ local[o] \in LocalTerminal /\ UNCHANGED <<localVars, outdated>>
            \/ local[o] \notin LocalTerminal /\ Publish(t, o, "NO_FILL", FALSE)
  BY DEF DecideUnfilled
<1> QED
  BY <1>1, <1>2 DEF SettleOnly, Settle, Publish, Goto, Moved, localVars, TypeOK, TypeThreads, TypeBook

LEMMA OpenMoves ==
  ASSUME TypeOK, NEW t \in Threads, NEW o \in Orders, DecideOpen(t, o)
  PROVE  Moved(t, o) \/ Refuse(t)
<1>1. {"OPEN", "RECONCILIATION_REQUIRED"} \cap (Terminal \cup {"NO_FILL", "none", "CLOSED"}) = {}
  BY DEF Terminal, Resolved
<1>2. \/ Refuse(t)
      \/ \E s \in {"OPEN", "RECONCILIATION_REQUIRED"} :
           \/ SettleOnly(t, s)
           \/ /\ local[o] \notin LocalTerminal /\ Settle(t, s)
              /\ \E l \in {"OPEN", "MISMATCH", "EXITING"} : Publish(t, o, l, TRUE)
  BY DEF DecideOpen
<1> QED
  BY <1>1, <1>2 DEF SettleOnly, Settle, Publish, Goto, Moved, localVars, TypeOK, TypeThreads, TypeBook

LEMMA FlatMoves ==
  ASSUME TypeOK, NEW t \in Threads, NEW o \in Orders, DecideFlat(t, o)
  PROVE  Moved(t, o) \/ Refuse(t)
<1>1. "CLOSED_PENDING_COSTS" \notin {"NO_FILL", "none", "CLOSED"} /\ "CLOSED" \in LocalTerminal
  BY DEF LocalTerminal
<1>2. \/ Refuse(t)
      \/ /\ Settle(t, "CLOSED_PENDING_COSTS")
         /\ \/ local[o] = "CLOSED" /\ UNCHANGED <<localVars, outdated>>
            \/ /\ local[o] # "CLOSED" /\ Publish(t, o, "CLOSED", TRUE)
               /\ snapIn[t][o] > 0 /\ Remaining(t, o) = 0 /\ Ended(life[t].entry)
  BY DEF DecideFlat, SettleOnly
<1> QED
  BY <1>1, <1>2 DEF Settle, Publish, Goto, Moved, localVars, TypeOK, TypeThreads, TypeBook

(* The evidence behind a final outcome: nothing of the order is exposed. *)
LEMMA EvidenceHolds ==
  ASSUME IInv, TypeOK, TypeOK', NEW t \in Threads, NEW o \in Orders, o = cur[t], Carries(t)
  PROVE  /\ EndedUnfilled(t) => Ended(entry[o]) /\ filled[o] = 0 /\ ~Exposed(o)
         /\ snapIn[t][o] > 0 /\ Remaining(t, o) = 0 =>
              Ended(entry[o]) /\ filled[o] > 0 /\ ~Exposed(o) /\ local[o] # "NO_FILL"
<1>1. AtBroker(o) /\ Finished(o) /\ Counted
  BY Counts DEF IInv
<1>2. ASSUME Ended(entry[o]), filled[o] = exited[o] PROVE ~Exposed(o)
  BY <1>1, <1>2 DEF AtBroker, Exposed, Position, Counted, Ended
<1>3. ASSUME EndedUnfilled(t) PROVE Ended(entry[o]) /\ filled[o] = 0 /\ ~Exposed(o)
  <2>1. Ended(entry[o]) /\ filled[o] = 0
    BY <1>3 DEF EndedUnfilled, Carries, Ended
  <2>2. exited[o] = 0
    BY <1>1, <2>1 DEF Counted
  <2> QED
    BY <1>2, <2>1, <2>2
<1>4. ASSUME snapIn[t][o] > 0, Remaining(t, o) = 0
      PROVE  Ended(entry[o]) /\ filled[o] > 0 /\ ~Exposed(o) /\ local[o] # "NO_FILL"
  <2>1. snapIn[t][o] \in Int /\ snapOut[t][o] \in Int
    BY NativeOrdersAssumption DEF TypeOK, TypeThreads
  <2>2. snapOut[t][o] = snapIn[t][o]
    BY <1>4, <2>1 DEF Remaining, SnapOut
  <2>3. snapIn[t][o] <= filled[o] /\ snapOut[t][o] <= exited[o]
    BY DEF Carries
  <2>4. filled[o] > 0 /\ exited[o] > 0
    BY <1>1, <1>4, <2>1, <2>2, <2>3 DEF Counted
  <2>5. Ended(entry[o]) /\ filled[o] = exited[o]
    BY <1>1, <2>4 DEF AtBroker
  <2>6. local[o] # "NO_FILL"
    BY <1>1, <2>4 DEF Finished
  <2> QED
    BY <1>2, <2>4, <2>5, <2>6
<1> QED
  BY <1>3, <1>4

LEMMA Decide_Keeps ==
  ASSUME IInv, TypeOK, TypeOK', NEW t \in Threads, Decide(t)
  PROVE  IInv' /\ Steady
<1>1. UNCHANGED <<brokerVars, jstate, receipt, obs, cache, exitReq>> /\ UNCHANGED subVars
      /\ UNCHANGED <<todo, snapIn, snapOut>> /\ pc[t] = "decide"
  BY DEF Decide, snapVars
<1>2. PICK x \in Orders : x = cur[t] /\ Carries(t) /\ jstate[x] # "none"
  BY <1>1 DEF IInv, TypeOK, TypeThreads, HasRow, Carries
<1>3. \A o \in Orders, a \in ActionIds :
        /\ acts[o][a] # "none" => acts'[o][a] # "none"
        /\ a \in CloseIds => acts'[o][a] = acts[o][a]
  <2>1. Acknowledge(t, x)
    BY <1>2 DEF Decide
  <2>2. \A a \in CloseIds : a \notin CancelIds /\ a # "child-cancel"
    BY Names
  <2> QED
    BY <2>1, <2>2 DEF Acknowledge, TypeOK, TypeJournal
<1>4. Moved(t, x) \/ Refuse(t)
  BY <1>2, UnfilledMoves, OpenMoves, FlatMoves DEF Decide
<1>5. CASE Refuse(t)
  <2>1. UNCHANGED local /\ Abandon(t)
    BY <1>5 DEF Refuse, Fail, localVars
  <2>2. Forward
    BY <1>1, <2>1, SameBooks
  <2>3. \A u \in Threads : Carries(u)'
    BY <1>1, <1>2, <2>1, <2>2, AbandonCarries, OthersCarry
  <2>4. \A o \in Orders : Journaled(o)'
    BY <1>1, <2>1, JournalKept
  <2>5. \A o \in Orders : Finished(o)'
    BY <1>1, <2>1 DEF IInv, Finished, Exposed, Position, brokerVars
  <2> QED
    BY <1>1, <1>3, <2>1, <2>3, <2>4, <2>5, RowsKept
<1>6. CASE Moved(t, x) /\ ~Refuse(t)
  <2>1. /\ EndedUnfilled(t) => Ended(entry[x]) /\ filled[x] = 0 /\ ~Exposed(x)
        /\ snapIn[t][x] > 0 /\ Remaining(t, x) = 0 =>
              Ended(entry[x]) /\ filled[x] > 0 /\ ~Exposed(x) /\ local[x] # "NO_FILL"
    BY <1>2, EvidenceHolds
  <2>2. \A p \in Orders \ {x} : local'[p] = local[p]
    BY <1>6 DEF Moved
  <2>3. \/ local'[x] = local[x]
        \/ local'[x] \in {"OPEN", "MISMATCH", "EXITING"} /\ local[x] \notin LocalTerminal
        \/ local'[x] = "NO_FILL" /\ local[x] \notin LocalTerminal /\ filled[x] = 0 /\ ~Exposed(x)
        \/ local'[x] = "CLOSED" /\ local[x] \notin LocalTerminal /\ ~Exposed(x)
    BY <1>6, <2>1 DEF Moved, LocalTerminal
  <2>4. Forward
    <3>1. \A o \in Orders : local[o] \in LocalTerminal => local'[o] = local[o]
      BY <2>2, <2>3
    <3> QED
      BY <1>1, <3>1, StaysForward DEF brokerVars, marketVars
  <2>5. \A o \in Orders : Journaled(o)'
    <3>1. \A o \in Orders : jstate[o] # "none" => local'[o] \in Owning \cup LocalTerminal
      <4>1. local'[x] \in Owning \cup LocalTerminal \/ local'[x] = local[x]
        BY <2>3 DEF Owning, LocalTerminal
      <4> QED
        BY <2>2, <4>1 DEF IInv, Journaled
    <3> QED
      BY <1>1, <3>1 DEF IInv, Journaled, Ended, brokerVars
  <2>6. ASSUME NEW o \in Orders PROVE Finished(o)'
    <3>1. Finished(o) /\ (Exposed(o)' <=> Exposed(o)) /\ filled'[o] = filled[o]
      BY <1>1 DEF IInv, Exposed, Position, brokerVars
    <3>2. CASE local'[o] = local[o]
      BY <1>1, <3>1, <3>2 DEF Finished
    <3>3. CASE local'[o] # local[o]
      <4>1. o = x
        BY <2>2, <3>3
      <4>2. jstate[x] \notin Terminal
        BY <2>3, <3>1, <3>3, <4>1 DEF Finished
      <4>3. jstate[x] # "NO_FILL"
        BY <4>2, Names
      <4> QED
        BY <1>1, <1>2, <2>3, <3>1, <3>3, <4>1, <4>2, <4>3 DEF Finished, LocalTerminal
    <3> QED
      BY <3>2, <3>3
  <2>7. Carries(t)'
    <3>1. /\ pc'[t] \in {"kids", "store"} /\ cur' = cur /\ life' = life
          /\ verdict'[t] \notin {"none", "CLOSED"}
          /\ pc'[t] = "kids" => EndedUnfilled(t)
          /\ verdict'[t] = "NO_FILL" => EndedUnfilled(t)
          /\ verdict'[t] \in Terminal => local'[x] \in LocalTerminal
      BY <1>6 DEF Moved
    <3>2. entry'[x] = entry[x] /\ filled'[x] = filled[x]
      BY <1>1 DEF brokerVars
    <3>3. Ended(life[t].entry) =>
            /\ entry[x] = life[t].entry
            /\ life[t].entry = "Cancelled" /\ ~life[t].rep => filled[x] = 0
      BY <1>2 DEF Carries
    <3>4. Ended(life'[t].entry) =>
            /\ entry'[x] = life'[t].entry
            /\ life'[t].entry = "Cancelled" /\ ~life'[t].rep => filled'[x] = 0
      BY <3>1, <3>2, <3>3
    <3>5. pc'[t] = "kids" => Ended(entry'[x]) /\ filled'[x] = 0
      BY <2>1, <3>1, <3>2 DEF Ended
    <3>6. verdict'[t] \in Terminal => /\ local'[x] \in LocalTerminal
                                     /\ (verdict'[t] = "NO_FILL" => filled'[x] = 0)
      BY <2>1, <3>1, <3>2
    <3>7. pc'[t] # "decide" /\ verdict'[t] # "CLOSED" /\ verdict'[t] # "none"
      BY <3>1
    <3> QED
      BY <1>1, <1>2, <2>4, <3>1, <3>4, <3>5, <3>6, <3>7, CarriesRow
  <2>8. \A u \in Threads : Carries(u)'
    <3>1. \A u \in Threads \ {t} : ThreadIdle(u)
      BY <1>1, <1>6 DEF Moved, ThreadIdle
    <3> QED
      BY <2>4, <2>7, <3>1, OthersCarry
  <2> QED
    BY <1>1, <1>2, <1>3, <2>2, <2>3, <2>5, <2>6, <2>8, RowsKept
<1> QED
  BY <1>4, <1>5, <1>6

LEMMA CancelKids_Keeps ==
  ASSUME IInv, TypeOK, TypeOK', NEW t \in Threads, CancelKids(t)
  PROVE  IInv' /\ Steady
<1>1. UNCHANGED <<marketVars, accepted, jstate, local, receipt, obs, cache, exitReq>>
      /\ UNCHANGED subVars /\ UNCHANGED <<todo, cur, snapIn, snapOut, life, verdict>> /\ pc[t] = "kids"
  BY DEF CancelKids, localVars, snapVars
<1>2. PICK x \in Orders : x = cur[t] /\ Carries(t)
  BY <1>1 DEF IInv, TypeOK, TypeThreads, HasRow
<1>3. \/ /\ acts[x]["child-cancel"] = "none" /\ acts' = [acts EXCEPT ![x]["child-cancel"] = "SENDING"]
         /\ net' = net \cup {<<"child-cancel", x>>}
      \/ acts' = acts /\ net' = net
  BY <1>2 DEF CancelKids
<1>4. Forward
  <2>1. \A o \in Orders : <<"entry", o>> \in net' => <<"entry", o>> \in net
    BY <1>3
  <2> QED
    BY <1>1, <2>1, StaysForward
<1>5. /\ pc'[t] \in {"kidswait", "store"}
      /\ \A u \in Threads \ {t} : ThreadIdle(u)
  BY <1>1 DEF CancelKids, Goto, ThreadIdle, TypeOK, TypeThreads
<1>6. Carries(t)'
  BY <1>1, <1>2, <1>4, <1>5, CarriesRow DEF Carries, marketVars
<1>7. \A u \in Threads : Carries(u)'
  BY <1>4, <1>5, <1>6, OthersCarry
<1>8. Ended(entry[x]) /\ filled[x] = 0
  BY <1>1, <1>2 DEF Carries
<1>9. CASE acts' = acts /\ net' = net
  BY <1>1, <1>7, <1>9, JournalKept, BooksKept DEF brokerVars, marketVars
<1>10. CASE /\ acts[x]["child-cancel"] = "none" /\ acts' = [acts EXCEPT ![x]["child-cancel"] = "SENDING"]
            /\ net' = net \cup {<<"child-cancel", x>>}
  BY <1>1, <1>7, <1>8, <1>10, Names, PostKeeps
<1> QED
  BY <1>3, <1>9, <1>10

LEMMA KidsReply_Keeps ==
  ASSUME IInv, TypeOK, TypeOK', NEW t \in Threads, KidsReply(t)
  PROVE  IInv' /\ Steady
<1>1. UNCHANGED <<brokerVars, jstate, local, receipt, obs, cache, exitReq, subVars>>
      /\ UNCHANGED <<todo, cur, snapIn, snapOut, life, verdict>> /\ pc[t] = "kidswait"
  BY DEF KidsReply, localVars, snapVars
<1>2. PICK x \in Orders : x = cur[t] /\ Carries(t)
  BY <1>1 DEF IInv, TypeOK, TypeThreads, HasRow
<1>3. Forward
  BY <1>1, SameBooks
<1>4. pc'[t] = "store" /\ \A u \in Threads \ {t} : ThreadIdle(u)
  BY <1>1 DEF KidsReply, Goto, ThreadIdle, TypeOK, TypeThreads
<1>5. Carries(t)'
  BY <1>1, <1>2, <1>3, <1>4, CarriesRow DEF Carries, brokerVars
<1>6. \A u \in Threads : Carries(u)'
  BY <1>3, <1>4, <1>5, OthersCarry
<1> QED
  BY <1>1, <1>2, <1>6, Names, OutcomeKeeps DEF KidsReply

LEMMA Store_Keeps ==
  ASSUME IInv, TypeOK, TypeOK', NEW t \in Threads, Store(t)
  PROVE  IInv' /\ Steady
<1>1. UNCHANGED <<brokerVars, local, acts, cache, exitReq>> /\ UNCHANGED subVars
      /\ UNCHANGED <<todo, snapIn, snapOut>> /\ pc[t] = "store"
  BY DEF Store, localVars, snapVars
<1>2. PICK x \in Orders : x = cur[t] /\ Carries(t) /\ jstate[x] # "none"
  BY <1>1 DEF IInv, TypeOK, TypeThreads, HasRow, Carries
<1>3. /\ verdict[t] # "none"
      /\ Ended(life[t].entry) => entry[x] = life[t].entry
      /\ verdict[t] \in Terminal => local[x] \in LocalTerminal
      /\ verdict[t] = "NO_FILL" => filled[x] = 0
  BY <1>1, <1>2, Names DEF Carries
<1>4. \A o \in Orders : jstate'[o] = IF o = x THEN verdict[t] ELSE jstate[o]
  BY <1>2 DEF Store, TypeOK, TypeJournal
<1>5. \A o \in Orders : /\ o # x => obs'[o] = obs[o] /\ receipt'[o] = receipt[o]
                        /\ o = x => obs'[o].ended = Ended(life[t].entry)
  BY <1>2 DEF Store, TypeOK, TypeJournal
<1>6. Forward
  BY <1>1, <1>3, <1>4, StaysForward DEF brokerVars, marketVars
<1>7. ASSUME NEW o \in Orders PROVE Journaled(o)'
  <2>1. Journaled(o) /\ (Ended(entry'[o]) <=> Ended(entry[o])) /\ filled'[o] = filled[o]
    BY <1>1 DEF IInv, brokerVars, Ended
  <2>2. obs'[o].ended => Ended(entry[o])
    BY <1>3, <1>5, <2>1 DEF Journaled
  <2>3. jstate'[o] # "none" <=> jstate[o] # "none"
    BY <1>2, <1>3, <1>4
  <2>4. receipt'[o] => jstate'[o] # "none"
    BY <1>2, <1>5, <2>1, <2>3 DEF Journaled
  <2> QED
    BY <1>1, <2>1, <2>2, <2>3, <2>4 DEF Journaled, brokerVars, Ended
<1>8. ASSUME NEW o \in Orders PROVE Finished(o)'
  <2>1. Finished(o) /\ (Exposed(o)' <=> Exposed(o)) /\ filled'[o] = filled[o]
    BY <1>1 DEF IInv, Exposed, Position, brokerVars
  <2> QED
    BY <1>1, <1>2, <1>3, <1>4, <2>1 DEF Finished
<1>9. /\ pc'[t] \in {"rows", "do"} /\ cur'[t] \in {NoOrder, x}
      /\ life'[t] = NoLife /\ verdict'[t] = "none"
      /\ \A u \in Threads \ {t} : ThreadIdle(u)
  BY <1>1, <1>2 DEF Store, Goto, ThreadIdle, TypeOK, TypeThreads
<1>10. Carries(t)'
  <2>1. ~Ended(NoLife.entry) /\ "none" \notin Terminal
    BY DEF NoLife, Ended, Terminal, Resolved
  <2>2. jstate'[x] # "none"
    BY <1>3, <1>4
  <2>3. /\ \A o \in Orders : snapIn'[t][o] <= filled'[o] /\ snapOut'[t][o] <= exited'[o]
        /\ \A o \in todo'[t] : jstate'[o] # "none"
    BY <1>1, <1>2, <1>6, SnapsKept
  <2> QED
    BY <1>9, <2>1, <2>2, <2>3, NoOrderAssumption DEF Carries
<1>11. \A u \in Threads : Carries(u)'
  BY <1>6, <1>9, <1>10, OthersCarry
<1> QED
  BY <1>1, <1>2, <1>3, <1>4, <1>7, <1>8, <1>11, RowsKept

(* action() returns, or waits for the reply to what it posted. *)
LEMMA ReturnCarries ==
  ASSUME TypeOK, TypeOK', Forward, NEW t \in Threads, Carries(t), pc[t] \in {"do", "wait"},
         \/ Returned(t)
         \/ Goto(t, "wait") /\ UNCHANGED <<cur, op, life, verdict>>,
         UNCHANGED <<todo, snapIn, snapOut>>
  PROVE  Carries(t)' /\ \A u \in Threads \ {t} : ThreadIdle(u)
<1>1. CASE Abandon(t)
  BY <1>1, AbandonCarries
<1>2. CASE ~Abandon(t)
  <2>1. /\ pc'[t] \in {"act", "wait"} /\ UNCHANGED <<cur, life, verdict>>
        /\ \A u \in Threads \ {t} : ThreadIdle(u)
    BY <1>2 DEF Returned, Goto, ThreadIdle, TypeOK, TypeThreads
  <2> QED
    BY <2>1, MoveCarries, SnapsKept DEF Blank
<1> QED
  BY <1>1, <1>2

LEMMA ActReply_Keeps ==
  ASSUME IInv, TypeOK, TypeOK', NEW t \in Threads, ActReply(t)
  PROVE  IInv' /\ Steady
<1>1. UNCHANGED <<brokerVars, jstate, local, receipt, obs, cache, exitReq, subVars>>
      /\ UNCHANGED <<todo, snapIn, snapOut>> /\ pc[t] = "wait" /\ Returned(t)
  BY DEF ActReply, localVars, snapVars
<1>2. PICK x \in Orders : x = cur[t] /\ Carries(t)
  BY <1>1 DEF IInv, TypeOK, TypeThreads, HasRow
<1>3. Forward
  BY <1>1, SameBooks
<1>4. \A u \in Threads : Carries(u)'
  BY <1>1, <1>2, <1>3, ReturnCarries, OthersCarry
<1>5. PICK b \in ActionIds : Outcome(b, x)
  BY <1>2, Names DEF ActReply, CancelId, CloseId, CancelIds, CloseIds
<1> QED
  BY <1>1, <1>4, <1>5, OutcomeKeeps

LEMMA Do_Keeps ==
  ASSUME IInv, TypeOK, TypeOK', NEW t \in Threads, Do(t)
  PROVE  IInv' /\ Steady
<1>1. UNCHANGED <<marketVars, accepted, jstate, local, receipt, obs, cache, exitReq, subVars>>
      /\ UNCHANGED <<todo, snapIn, snapOut>> /\ pc[t] = "do"
  BY DEF Do, localVars, snapVars
<1>2. PICK x \in Orders : x = cur[t] /\ Carries(t) /\ jstate[x] # "none"
  BY <1>1 DEF IInv, TypeOK, TypeThreads, HasRow, Carries
<1>3. /\ CancelId(t) \in CancelIds \cap ActionIds /\ CloseId(t) \in CloseIds \cap ActionIds
      /\ CloseIds \cap CancelIds = {} /\ "child-cancel" \notin CancelIds \cup CloseIds
  BY Names DEF CancelId, CloseId, CancelIds, CloseIds
<1>4. \/ Returned(t) /\ UNCHANGED <<acts, net>>
      \/ \E b \in ActionIds :
           /\ Reserve(t, b) /\ acts[x][b] = "none" /\ b # "child-cancel"
           /\ b \in CloseIds => obs[x].ended /\ local[x] \notin LocalTerminal
  BY <1>2, <1>3 DEF Do, DoCancel, DoClose, CloseDue
<1>5. CASE Returned(t) /\ UNCHANGED <<acts, net>>
  <2>1. Forward
    BY <1>1, <1>5, SameBooks DEF brokerVars, marketVars
  <2>2. \A u \in Threads : Carries(u)'
    BY <1>1, <1>2, <1>5, <2>1, ReturnCarries, OthersCarry
  <2> QED
    BY <1>1, <1>5, <2>2, JournalKept, BooksKept DEF brokerVars, marketVars
<1>6. ASSUME NEW b \in ActionIds, Reserve(t, b), acts[x][b] = "none", b # "child-cancel",
             b \in CloseIds => obs[x].ended /\ local[x] \notin LocalTerminal
      PROVE  IInv' /\ Steady
  <2>1. /\ acts' = [acts EXCEPT ![x][b] = "SENDING"] /\ net' = net \cup {<<b, x>>}
        /\ Goto(t, "wait") /\ UNCHANGED <<cur, op, life, verdict>>
    BY <1>2, <1>6 DEF Reserve
  <2>2. Forward
    <3>1. \A o \in Orders : <<"entry", o>> \in net' => <<"entry", o>> \in net
      BY <2>1, Names
    <3> QED
      BY <1>1, <3>1, StaysForward
  <2>3. \A u \in Threads : Carries(u)'
    BY <1>1, <1>2, <2>1, <2>2, ReturnCarries, OthersCarry
  <2>4. b \in CloseIds => Ended(entry[x])
    BY <1>6 DEF IInv, Journaled
  <2> QED
    BY <1>1, <1>2, <1>6, <2>1, <2>3, <2>4, PostKeeps
<1> QED
  BY <1>4, <1>5, <1>6

-----------------------------------------------------------------------------
LEMMA IInvInit == Init => IInv
<1> SUFFICES ASSUME Init PROVE IInv
  OBVIOUS
<1>1. \A o \in Orders : /\ filled[o] = 0 /\ exited[o] = 0 /\ shownIn[o] = 0 /\ shownOut[o] = 0
                        /\ entry[o] = "none" /\ jstate[o] = "none" /\ local[o] = "none"
                        /\ ~receipt[o] /\ ~obs[o].ended /\ cache[o] = "none"
  BY DEF Init, NoFills, NoObs
<1>2. net = {} /\ accepted = {} /\ exitReq = {} /\ spc = "idle"
  BY DEF Init
<1>3. \A o \in Orders : ~Exposed(o)
  BY <1>1, <1>2 DEF Exposed, Position
<1>4. ASSUME NEW o \in Orders PROVE AtBroker(o) /\ Journaled(o) /\ OnWire(o)
  <2>1. AtBroker(o)
    BY <1>1, <1>2 DEF AtBroker
  <2>2. Journaled(o)
    BY <1>1, <1>2 DEF Journaled
  <2>3. OnWire(o)
    BY <1>2 DEF OnWire
  <2> QED
    BY <2>1, <2>2, <2>3
<1>5. \A o \in Orders : Finished(o)
  BY <1>1, Names DEF Finished
<1>6. ASSUME NEW t \in Threads PROVE Carries(t)
  <2>1. /\ pc[t] = "idle" /\ cur[t] = NoOrder /\ todo[t] = {} /\ life[t] = NoLife
        /\ verdict[t] = "none" /\ snapIn[t] = NoFills /\ snapOut[t] = NoFills
    BY DEF Init
  <2>2. ~Ended(NoLife.entry) /\ "none" \notin Terminal
    BY DEF NoLife, Ended, Terminal, Resolved
  <2>3. \A o \in Orders : NoFills[o] = 0
    BY DEF NoFills
  <2> QED
    BY <1>1, <2>1, <2>2, <2>3, NoOrderAssumption DEF Carries
<1>7. Quiet /\ Alone /\ CloseHitsOwnPosition
  BY <1>2, <1>3 DEF Quiet, Alone, CloseHitsOwnPosition
<1> QED
  BY <1>4, <1>5, <1>6, <1>7 DEF IInv

LEMMA BrokerSteps ==
  ASSUME IInv, TypeOK, TypeOK', Broker
  PROVE  IInv' /\ Ebbing
<1>1. \/ \E o \in Orders : DeliverEntry(o) \/ Fill(o) \/ EndEntry(o)
                           \/ BracketExit(o) \/ KidsLapse(o) \/ Show(o)
      \/ \E o \in Orders, a \in ActionIds : DeliverCancel(a, o) \/ DeliverClose(a, o)
      \/ \E m \in net : Lose(m)
      \/ Tick
  BY DEF Broker
<1> QED
  BY <1>1, DeliverEntry_Keeps, Fill_Keeps, EndEntry_Keeps, BracketExit_Keeps, KidsLapse_Keeps,
     Show_Keeps, DeliverCancel_Keeps, DeliverClose_Keeps, Lose_Keeps, Tick_Keeps

LEMMA ThreadSteps ==
  ASSUME IInv, TypeOK, TypeOK', LateReports = FALSE, NEW t \in Threads, ThreadStep(t)
  PROVE  IInv' /\ Steady
BY PollEnd_Keeps, ReadLife_Keeps, ReadFails_Keeps, Decide_Keeps, CancelKids_Keeps, KidsReply_Keeps,
   Store_Keeps, Act_Keeps, Do_Keeps, ActReply_Keeps, Release_Keeps DEF ThreadStep

LEMMA Steps ==
  ASSUME IInv, TypeOK, TypeOK', LateReports = FALSE, Next
  PROVE  IInv' /\ (Ebbing \/ Steady \/ SubmitReserve)
<1>1. CASE Broker
  BY <1>1, BrokerSteps
<1>2. CASE Dispatcher
  BY <1>2, Claim_Keeps, SubmitCheck_Keeps, SubmitReserve_Keeps, SubmitRefused_Keeps,
     SubmitReply_Keeps, SubmitRecord_Keeps DEF Dispatcher
<1>3. CASE RecStep
  BY <1>3, PollStart_Keeps, NextRow_Keeps, Costs_Keeps, DrainExit_Keeps, ThreadSteps
     DEF RecStep, PollStartRec, Threads
<1>4. CASE PollStartMgr \/ ThreadStep("mgr")
  BY <1>4, PollStart_Keeps, ThreadSteps DEF PollStartMgr, Threads
<1>5. CASE (\E o \in Orders : QueueExit(o)) \/ Crash
  BY <1>5, QueueExit_Keeps, Crash_Keeps
<1> QED
  BY <1>1, <1>2, <1>3, <1>4, <1>5 DEF Next

LEMMA Stutters ==
  ASSUME IInv, TypeOK, UNCHANGED vars
  PROVE  IInv'
<1>1. UNCHANGED <<brokerVars, jstate, local, acts, receipt, obs, cache, exitReq, subVars>>
      /\ UNCHANGED threadVars
  BY DEF vars, journalVars, localVars
<1>2. \A o \in Orders : (AtBroker(o) /\ Journaled(o) /\ Finished(o) /\ OnWire(o))'
  BY <1>1 DEF IInv, AtBroker, Journaled, Finished, OnWire, Exposed, Position, Ended, brokerVars
<1>3. \A t \in Threads : Carries(t)'
  BY <1>1 DEF IInv, Carries, Ended, EndedUnfilled, brokerVars, threadVars, snapVars
<1>4. (Quiet /\ Alone /\ CloseHitsOwnPosition)'
  BY <1>1 DEF IInv, Quiet, Alone, CloseHitsOwnPosition, Exposed, Position, brokerVars, subVars
<1> QED
  BY <1>2, <1>3, <1>4 DEF IInv

(* The inductive invariant holds throughout. *)
THEOREM Inductive ==
  ASSUME LateReports = FALSE
  PROVE  Spec => []IInv
<1>1. TypeOK /\ TypeOK' /\ IInv /\ [Next]_vars => IInv'
  BY Steps, Stutters
<1> QED
  BY <1>1, IInvInit, TypeCorrect, PTL DEF Spec

(* The account holds or can get the exposure of one order at most             *)
(* (SingleExposure): every other order was finished when it was posted.       *)
THEOREM OneExposure ==
  ASSUME LateReports = FALSE
  PROVE  Spec => []SingleExposure
<1>1. IInv /\ TypeOK => SingleExposure
  <2> SUFFICES ASSUME IInv, TypeOK, NEW o \in Orders, NEW p \in Orders, Exposed(o), Exposed(p)
               PROVE  o = p
    BY DEF SingleExposure
  <2>1. jstate[o] # "none"
    BY NativeOrdersAssumption DEF IInv, AtBroker, Exposed, Position, TypeOK, TypeBroker
  <2> QED
    BY <2>1 DEF IInv, Alone, Finished
<1> QED
  BY <1>1, Inductive, TypeCorrect, PTL

(* Whatever can move the account is unfinished in the native journal and       *)
(* owned by the V3 book (NoUnownedFill), through every crash and lost reply.   *)
THEOREM EveryFillOwned ==
  ASSUME LateReports = FALSE
  PROVE  Spec => []NoUnownedFill
<1>1. IInv /\ TypeOK => NoUnownedFill
  <2> SUFFICES ASSUME IInv, TypeOK, NEW o \in Orders, Exposed(o)
               PROVE  jstate[o] \in Unresolved \ Terminal /\ local[o] \in Owning
    BY DEF NoUnownedFill
  <2>1. jstate[o] # "none"
    BY NativeOrdersAssumption DEF IInv, AtBroker, Exposed, Position, TypeOK, TypeBroker
  <2>2. local[o] \in Owning /\ jstate[o] \notin Terminal
    BY <2>1 DEF IInv, Finished, Journaled
  <2> QED
    BY <2>1, <2>2 DEF Unresolved, Terminal, TypeOK, TypeJournal
<1> QED
  BY <1>1, Inductive, TypeCorrect, PTL

(* A journal row says NO_FILL only of an order that has and gets no fill      *)
(* (NoFillIsFinal), however late the broker's fill list is.                   *)
THEOREM NoFillHolds ==
  ASSUME LateReports = FALSE
  PROVE  Spec => []NoFillIsFinal
<1>1. IInv => NoFillIsFinal
  BY Names DEF IInv, Finished, NoFillIsFinal
<1> QED
  BY <1>1, Inductive, PTL

(* A close on the wire meets the position of its own order or none            *)
(* (CloseHitsOwnPosition), whoever posted it and however long it travels.     *)
THEOREM CloseIsAimed ==
  ASSUME LateReports = FALSE
  PROVE  Spec => []CloseHitsOwnPosition
<1>1. IInv => CloseHitsOwnPosition
  BY DEF IInv
<1> QED
  BY <1>1, Inductive, PTL

(* The V3 book closes a row only when the broker is flat in it (ClosedIsFlat,  *)
(* the case of NoUnownedFill for finished trades).                             *)
THEOREM ClosedHolds ==
  ASSUME LateReports = FALSE
  PROVE  Spec => []ClosedIsFlat
<1>1. IInv => ClosedIsFlat
  BY DEF IInv, Finished, ClosedIsFlat, LocalTerminal
<1> QED
  BY <1>1, Inductive, PTL

(* A child cancel never meets a live bracket (NeverCancelsLiveBracket), if     *)
(* reports do not lag.                                                         *)
THEOREM BracketSafe ==
  ASSUME LateReports = FALSE
  PROVE  Spec => []NeverCancelsLiveBracket
<1>1. IInv /\ TypeOK => NeverCancelsLiveBracket
  <2> SUFFICES ASSUME IInv, TypeOK, NEW o \in Orders, <<"child-cancel", o>> \in net
               PROVE  Position(o) = 0
    BY DEF NeverCancelsLiveBracket
  <2>1. filled[o] = 0
    BY DEF IInv, OnWire
  <2>2. exited[o] \in 0..Qty /\ exited[o] <= filled[o]
    BY DEF TypeOK, TypeBroker
  <2> QED
    BY <2>1, <2>2, NativeOrdersAssumption DEF Position
<1> QED
  BY <1>1, Inductive, TypeCorrect, PTL

(* No POST is repeated after the broker executed it (NeverResent): every      *)
(* message has a durable reservation that is looked up first.                 *)
THEOREM PostedOnce ==
  ASSUME LateReports = FALSE
  PROVE  Spec => []NeverResent
<1>1. IInv /\ TypeOK => NeverResent
  <2> SUFFICES ASSUME IInv, TypeOK, NEW m \in net, m \in accepted PROVE FALSE
    BY DEF NeverResent
  <2>1. PICK a \in MsgKinds, o \in Orders : m = <<a, o>>
    BY DEF TypeOK, TypeBroker
  <2> QED
    BY <2>1 DEF IInv, OnWire
<1> QED
  BY <1>1, Inductive, TypeCorrect, PTL

(* The V3 book never takes an outcome back (OutcomeIsFinal).                   *)
THEOREM OutcomeKept ==
  ASSUME LateReports = FALSE
  PROVE  Spec => OutcomeIsFinal
<1>1. TypeOK /\ TypeOK' /\ IInv /\ [Next]_vars
      => [\A o \in Orders : local[o] \in LocalTerminal => local'[o] = local[o]]_vars
  <2> SUFFICES ASSUME TypeOK, TypeOK', IInv, Next, NEW o \in Orders, local[o] \in LocalTerminal
               PROVE  local'[o] = local[o]
    OBVIOUS
  <2>1. CASE SubmitReserve
    BY <2>1 DEF SubmitReserve, localVars
  <2>2. CASE Ebbing \/ Steady
    BY <2>2 DEF Ebbing, Steady
  <2> QED
    BY <2>1, <2>2, Steps
<1> QED
  BY <1>1, Inductive, TypeCorrect, PTL DEF Spec, OutcomeIsFinal

-----------------------------------------------------------------------------
(* NativeOrders implements ExclusiveEntry. *)

Books == {o \in Orders : jstate[o] \in Resolved}
Trade == [o \in Orders |-> TradeOf(o)]

(* A settled order is over. *)
LEMMA SettledIsOver ==
  ASSUME IInv, NEW o \in Orders, jstate[o] \in Resolved
  PROVE  TradeOf(o) = "over"
  BY DEF IInv, Finished, TradeOf, Terminal, Resolved

(* A reservation begins the order's trade. *)
LEMMA ReserveBegins ==
  ASSUME IInv, TypeOK, TypeOK', IInv', SubmitReserve
  PROVE  Exclusive!Begin(scur)
<1>1. /\ UNCHANGED <<marketVars, local>> /\ jstate' = [jstate EXCEPT ![scur] = "SENDING"]
      /\ net' = net \cup {<<"entry", scur>>} /\ scur \in Orders /\ jstate[scur] = "none"
      /\ \A p \in Orders : jstate[p] \notin Unresolved
  BY DEF SubmitReserve, localVars, TypeOK, TypeDispatch
<1>2. \A o \in Orders : jstate'[o] = IF o = scur THEN "SENDING" ELSE jstate[o]
  BY <1>1 DEF TypeOK, TypeJournal
<1>3. \A p \in Orders : TradeOf(p) = "new" \/ (TradeOf(p) = "over" /\ p \in Books)
  <2>1. \A p \in Orders : jstate[p] = "none" \/ jstate[p] \in Resolved
    BY <1>1 DEF Unresolved, TypeOK, TypeJournal
  <2> QED
    BY <2>1, SettledIsOver DEF TradeOf, Books
<1>4. Books' = Books
  BY <1>1, <1>2 DEF Books, Resolved
<1>5. ASSUME NEW o \in Orders PROVE TradeOf(o)' = IF o = scur THEN "live" ELSE TradeOf(o)
  <2>1. CASE o = scur
    BY <1>1, <1>2, <2>1 DEF TradeOf, Exposed
  <2>2. CASE o # scur
    <3>1. Exposed(o)' <=> Exposed(o)
      BY <1>1, <2>2 DEF Exposed, Position, marketVars
    <3> QED
      BY <1>2, <2>2, <3>1 DEF TradeOf
  <2> QED
    BY <2>1, <2>2
<1>6. Trade' = [Trade EXCEPT ![scur] = "live"]
  BY <1>5 DEF Trade
<1>7. Trade[scur] = "new" /\ \A p \in Orders : Trade[p] = TradeOf(p)
  BY <1>1 DEF Trade, TradeOf
<1> QED
  BY <1>1, <1>3, <1>4, <1>6, <1>7 DEF Exclusive!Begin, Trade, Books

(* A step of the broker may end the one trade there is. *)
LEMMA BrokerEnds ==
  ASSUME IInv, TypeOK, TypeOK', Ebbing
  PROVE  (\E o \in Orders : Exclusive!End(o)) \/ UNCHANGED Exclusive!vars
<1>1. Books' = Books
  BY DEF Ebbing, Books
<1>2. \A o \in Orders : /\ jstate'[o] = jstate[o] /\ (Exposed(o)' => Exposed(o))
                        /\ Exposed(o) => jstate[o] # "none"
  BY UnsentIsUnexposed DEF Ebbing, IInv
<1>3. CASE \A o \in Orders : Exposed(o) => Exposed(o)'
  <2>1. \A o \in Orders : TradeOf(o)' = TradeOf(o)
    BY <1>2, <1>3 DEF TradeOf
  <2>2. Trade' = Trade
    BY <2>1 DEF Trade
  <2> QED
    BY <1>1, <2>2 DEF Exclusive!vars, Trade, Books
<1>4. ASSUME NEW x \in Orders, Exposed(x), ~Exposed(x)' PROVE Exclusive!End(x)
  <2>1. \A o \in Orders : Exposed(o) => o = x
    BY <1>2, <1>4 DEF IInv, Alone, Finished
  <2>2. \A o \in Orders : TradeOf(o)' = IF o = x THEN "over" ELSE TradeOf(o)
    BY <1>2, <1>4, <2>1 DEF TradeOf
  <2>3. Trade' = [Trade EXCEPT ![x] = "over"] /\ Trade[x] = "live"
    BY <1>2, <1>4, <2>2 DEF Trade, TradeOf
  <2> QED
    BY <1>1, <2>3 DEF Exclusive!End, Trade, Books
<1> QED
  BY <1>3, <1>4

(* Any other step leaves the trades alone; it may settle or reopen books. *)
LEMMA BooksMove ==
  ASSUME IInv, IInv', Steady,
         \/ Books \subseteq Books'
         \/ \E o \in Orders : Books' = Books \ {o}
  PROVE  \/ \E o \in Orders : Exclusive!Reopen(o)
         \/ \E S \in SUBSET Orders : Exclusive!Settle(S)
<1>1. \A o \in Orders : TradeOf(o)' = TradeOf(o)
  BY DEF Steady, TradeOf
<1>2. Trade' = Trade /\ \A o \in Orders : Trade[o] = TradeOf(o)
  BY <1>1 DEF Trade
<1>3. CASE Books \subseteq Books'
  <2>1. \A o \in Books' : TradeOf(o) = "over"
    <3>1. \A o \in Orders : jstate'[o] \in Resolved => Finished(o)' /\ jstate'[o] \in Terminal
      BY DEF IInv, Terminal
    <3>2. \A o \in Orders : jstate'[o] \in Resolved => TradeOf(o)' = "over"
      BY <3>1 DEF Finished, TradeOf
    <3> QED
      BY <1>1, <3>2 DEF Books
  <2>2. PICK S \in SUBSET Orders : S = Books'
    BY DEF Books
  <2>3. Books' = Books \cup S
    BY <1>3, <2>2
  <2>4. Exclusive!Settle(S)
    BY <1>2, <2>1, <2>2, <2>3 DEF Exclusive!Settle, Trade, Books
  <2> QED
    BY <2>4
<1>4. ASSUME NEW o \in Orders, Books' = Books \ {o} PROVE Exclusive!Reopen(o)
  BY <1>2, <1>4 DEF Exclusive!Reopen, Trade, Books
<1> QED
  BY <1>3, <1>4

(* How the journal's outcomes move: only a stored verdict and the costs' pass  *)
(* write one, and one row at a time loses it.                                  *)
LEMMA OutcomesMove ==
  ASSUME IInv, TypeOK, TypeOK', Next, ~SubmitReserve
  PROVE  Books \subseteq Books' \/ \E o \in Orders : Books' = Books \ {o}
<1>1. CASE UNCHANGED jstate
  BY <1>1 DEF Books
<1>2. CASE SubmitReply
  <2>1. \A o \in Orders : jstate'[o] = jstate[o] \/ jstate[o] = "SENDING"
    <3>1. scur \in Orders
      BY <1>2 DEF SubmitReply, TypeOK, TypeDispatch
    <3>2. \/ UNCHANGED jstate
          \/ jstate[scur] = "SENDING" /\ \E v \in JStates : jstate' = [jstate EXCEPT ![scur] = v]
      BY <1>2 DEF SubmitReply, JStates
    <3> QED
      BY <3>1, <3>2 DEF TypeOK, TypeJournal
  <2> QED
    BY <2>1 DEF Books, Resolved
<1>3. ASSUME NEW t \in Threads, Store(t)
      PROVE  Books \subseteq Books' \/ \E o \in Orders : Books' = Books \ {o}
  <2>1. PICK x \in Orders : x = cur[t]
    BY <1>3 DEF Store, TypeOK, TypeThreads, HasRow
  <2>2. \A o \in Orders : o # x => jstate'[o] = jstate[o]
    BY <1>3, <2>1 DEF Store, TypeOK, TypeJournal
  <2>3. CASE x \in Books'
    BY <2>2, <2>3 DEF Books
  <2>4. CASE x \notin Books'
    <3>1. Books' = Books \ {x}
      BY <2>2, <2>4 DEF Books
    <3> QED
      BY <3>1
  <2> QED
    BY <2>3, <2>4
<1>4. CASE Costs
  <2>1. CASE \E S \in SUBSET {o \in Orders : jstate[o] = "CLOSED_PENDING_COSTS" /\ CostsAttributable(o)} :
               jstate' = [o \in Orders |-> IF o \in S THEN "CLOSED" ELSE jstate[o]]
    BY <2>1 DEF Books, Resolved
  <2>2. ASSUME NEW x \in Orders, jstate' = [jstate EXCEPT ![x] = "CLOSED_PENDING_COSTS"]
        PROVE  Books' = Books \ {x}
    <3>1. \A o \in Orders : jstate'[o] = IF o = x THEN "CLOSED_PENDING_COSTS" ELSE jstate[o]
      BY <2>2 DEF TypeOK, TypeJournal
    <3> QED
      BY <3>1 DEF Books, Resolved
  <2> QED
    BY <1>4, <2>1, <2>2 DEF Costs
<1>5. \/ UNCHANGED jstate \/ SubmitReply \/ Costs
      \/ \E t \in Threads : Store(t)
  <2>1. CASE Broker
    BY <2>1, BrokerSteps DEF Ebbing
  <2>2. CASE Dispatcher
    BY <2>2 DEF Dispatcher, Claim, SubmitCheck, SubmitRefused, SubmitRecord, journalVars
  <2>3. ASSUME NEW t \in Threads, ThreadStep(t) PROVE UNCHANGED jstate \/ Store(t)
    BY <2>3 DEF ThreadStep, PollEnd, ReadLife, ReadFails, Decide, CancelKids, KidsReply, Act, Do,
       ActReply, Release, journalVars
  <2>4. CASE RecStep
    BY <2>3, <2>4 DEF RecStep, PollStartRec, PollStart, NextRow, DrainExit, journalVars, Threads
  <2>5. CASE PollStartMgr \/ ThreadStep("mgr")
    BY <2>3, <2>5 DEF PollStartMgr, PollStart, journalVars, Threads
  <2>6. CASE (\E o \in Orders : QueueExit(o)) \/ Crash
    BY <2>6 DEF QueueExit, Crash, journalVars
  <2> QED
    BY <2>1, <2>2, <2>4, <2>5, <2>6 DEF Next
<1> QED
  BY <1>1, <1>2, <1>3, <1>4, <1>5

(* The journal implements the one-trade-at-a-time account of ExclusiveEntry    *)
(* (OneTradeAtATime): threads, messages, crashes and late evidence included.   *)
THEOREM Implements ==
  ASSUME LateReports = FALSE
  PROVE  Spec => OneTradeAtATime
<1>1. Init => Exclusive!Init
  BY DEF Init, Exclusive!Init, TradeOf, Resolved
<1>2. TypeOK /\ TypeOK' /\ IInv /\ IInv' /\ [Next]_vars => [Exclusive!Next]_(Exclusive!vars)
  <2> SUFFICES ASSUME TypeOK, TypeOK', IInv, IInv', [Next]_vars
               PROVE  Exclusive!Next \/ UNCHANGED Exclusive!vars
    OBVIOUS
  <2>1. CASE UNCHANGED vars
    <3>1. UNCHANGED <<brokerVars, jstate>>
      BY <2>1 DEF vars, journalVars
    <3>2. \A o \in Orders : TradeOf(o)' = TradeOf(o)
      BY <3>1 DEF TradeOf, Exposed, Position, brokerVars
    <3> QED
      BY <3>1, <3>2 DEF Exclusive!vars
  <2>2. CASE SubmitReserve
    <3>1. scur \in Orders
      BY <2>2 DEF SubmitReserve, TypeOK, TypeDispatch
    <3> QED
      BY <2>2, <3>1, ReserveBegins DEF Exclusive!Next
  <2>3. CASE Ebbing
    BY <2>3, BrokerEnds DEF Exclusive!Next
  <2>4. CASE Next /\ Steady /\ ~SubmitReserve
    BY <2>4, BooksMove, OutcomesMove DEF Exclusive!Next
  <2> QED
    BY <2>1, <2>2, <2>3, <2>4, Steps
<1> QED
  BY <1>1, <1>2, Inductive, TypeCorrect, PTL DEF Spec, OneTradeAtATime, Exclusive!Spec
=============================================================================
