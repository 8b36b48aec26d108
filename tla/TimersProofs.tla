---------------------------- MODULE TimersProofs ----------------------------
(***************************************************************************)
(* Proofs about Timers and AutoStr, which share the way their lists are    *)
(* kept: for any finite set of timers with any periods, and for any finite *)
(* set of autostrs.                                                        *)
(***************************************************************************)
EXTENDS Timers, AutoStr, LinkedListFacts

(* The inductive invariant, for programs that come by each timer_set once. *)
TimerInv == TypeOK /\ TimerListShape

(* The clock does not wrap while a timer counts.                           *)
NoWrap == \A tm \in Timer : Horizon + Period[tm] < ClockMod

(* Then the moment a timer was set for is the one its structure holds.     *)
Punctual == \A tm \in Timer : active[tm] => msec_time[tm] = due[tm]

-----------------------------------------------------------------------------
LEMMA ClockType ==
  ASSUME time \in 0..Horizon
  PROVE  /\ time \in Nat /\ msec_now \in 0..(ClockMod - 1)
         /\ \A tm \in Timer :
              /\ Period[tm] \in Nat
              /\ (Period[tm] + msec_now) % ClockMod \in 0..(ClockMod - 1)
              /\ Period[tm] + time \in Nat
<1>1. ClockMod \in Nat \ {0} /\ Horizon \in Nat /\ time \in Nat
  BY TimersAssumption
<1>2. msec_now \in 0..(ClockMod - 1)
  BY <1>1 DEF msec_now
<1>3. ASSUME NEW tm \in Timer
      PROVE  /\ Period[tm] \in Nat
             /\ (Period[tm] + msec_now) % ClockMod \in 0..(ClockMod - 1)
             /\ Period[tm] + time \in Nat
  <2>1. Period[tm] \in Nat
    BY <1>1, TimersAssumption
  <2> QED
    BY <1>1, <1>2, <2>1
<1> QED
  BY <1>1, <1>2, <1>3

LEMMA CountType ==
  ASSUME TypeOK, NEW tm \in Timer, Count(tm)
  PROVE  /\ active' \in [Timer -> BOOLEAN]
         /\ msec_time' \in [Timer -> 0..(ClockMod - 1)]
         /\ due' \in [Timer -> Nat]
  BY ClockType DEF Count, TypeOK

LEMMA InitTimers == Init => TimerInv /\ Punctual
<1> SUFFICES ASSUME Init PROVE TimerInv /\ Punctual
  OBVIOUS
<1>1. TypeOK
  <2>1. 0 \in 0..(ClockMod - 1) /\ 0 \in 0..Horizon
    BY TimersAssumption
  <2> QED
    BY <2>1 DEF Init, TypeOK
<1>2. TimerListShape
  <2>1. <<>> \in TimerSeqs /\ Linked(<<>>, timer_list, tnext, Nil)
        /\ EndsAt(<<>>, timer_index) /\ Nodes(<<>>) = {}
    BY TimersAssumption, EmptyList DEF Init, TimerSeqs
  <2> QED
    BY <2>1 DEF Init, TimerListShape
<1> QED
  BY <1>1, <1>2 DEF Init, TimerInv, Punctual

(* timer_set_sys appends: timer_index is the last node outside a scan.     *)
LEMMA SetKeepsShape ==
  ASSUME Restart = FALSE, TimerInv, NEW tm \in Timer, Set(tm)
  PROVE  TimerListShape'
<1> USE DEF TimerInv
<1>1. PICK q \in TimerSeqs :
        /\ Linked(q, timer_list, tnext, Nil) /\ Nodes(q) = armed
        /\ EndsAt(q, timer_index)
  BY DEF TimerListShape, Set
<1>2. IsList(Timer, q, timer_list, timer_index, tnext, Nil)
  BY <1>1 DEF IsList, TimerSeqs
<1>3. tm \notin Nodes(q) /\ tnext \in [Timer -> Timer \cup {Nil}]
  BY <1>1 DEF Set, TypeOK
<1>4. IsList(Timer, Append(q, tm), timer_list', timer_index', tnext', Nil)
  BY <1>2, <1>3, TimersAssumption, AppendToList DEF Set
<1>5. Nodes(Append(q, tm)) = armed'
  BY <1>1, TimersAssumption, AppendNodes DEF TimerSeqs, Set
<1>6. \A x \in Timer : active'[x] => x \in armed'
  BY DEF Set, Count, TypeOK, TimerListShape
<1>7. ~scanning'
  BY DEF Set
<1> QED
  BY <1>4, <1>5, <1>6, <1>7 DEF IsList, TimerSeqs, TimerListShape

(* An iteration of timer_exec stays on the list and leaves timer_index on  *)
(* its last node when it is over.                                          *)
LEMMA StepKeepsShape ==
  ASSUME TimerInv, scanning, Step,
         \A x \in Timer : active'[x] => active[x]
  PROVE  TimerListShape'
<1> USE DEF TimerInv
<1>1. PICK q \in TimerSeqs :
        /\ Linked(q, timer_list, tnext, Nil) /\ Nodes(q) = armed
        /\ timer_index \in Nodes(q)
        /\ \A x \in Timer : active[x] => x \in armed
  BY DEF TimerListShape
<1>2. /\ tnext[timer_index] # Nil => tnext[timer_index] \in Nodes(q)
      /\ tnext[timer_index] = Nil => EndsAt(q, timer_index)
  BY <1>1, TimersAssumption, NextIsNode DEF TimerSeqs
<1>3. IF scanning' THEN timer_index' \in Nodes(q) ELSE EndsAt(q, timer_index')
  BY <1>2 DEF Step
<1>4. UNCHANGED <<timer_list, tnext, armed>>
  BY DEF Step
<1> QED
  BY <1>1, <1>3, <1>4 DEF TimerListShape

LEMMA NextTimers ==
  ASSUME Restart = FALSE, TimerInv, [Next]_timerVars
  PROVE  TimerInv'
<1> USE DEF TimerInv
<1>1. ASSUME NEW tm \in Timer, Set(tm) PROVE TimerInv'
  <2>1. TypeOK'
    BY <1>1, CountType DEF Set, HeadAfterAppend, NextAfterAppend, TypeOK
  <2> QED
    BY <1>1, <2>1, SetKeepsShape
<1>2. ASSUME NEW tm \in Timer, Reset(tm) PROVE TimerInv'
  <2>1. TypeOK'
    BY <1>2, CountType DEF Reset, listVars, TypeOK
  <2>2. TimerListShape'
    BY <1>2 DEF Reset, Count, listVars, TypeOK, TimerListShape
  <2> QED
    BY <2>1, <2>2
<1>3. ASSUME NEW tm \in Timer, Disable(tm) PROVE TimerInv'
  <2>1. TypeOK'
    BY <1>3 DEF Disable, listVars, TypeOK
  <2>2. TimerListShape'
    BY <1>3 DEF Disable, listVars, TypeOK, TimerListShape
  <2> QED
    BY <2>1, <2>2
<1>4. CASE StartScan
  <2>1. TypeOK'
    BY <1>4 DEF StartScan, TypeOK
  <2>2. PICK q \in TimerSeqs :
          /\ Linked(q, timer_list, tnext, Nil) /\ Nodes(q) = armed
          /\ \A x \in Timer : active[x] => x \in armed
    BY DEF TimerListShape
  <2>3. timer_list \in Nodes(q)
    BY <1>4, <2>2, TimersAssumption, HeadIsNode DEF TimerSeqs, StartScan
  <2> QED
    BY <1>4, <2>1, <2>2, <2>3 DEF StartScan, TimerListShape
<1>5. CASE Fire \/ Skip
  <2>1. scanning /\ Step /\ \A x \in Timer : active'[x] => active[x]
    BY <1>5 DEF Fire, Skip, TypeOK
  <2>2. TimerListShape'
    BY <2>1, StepKeepsShape
  <2>3. PICK q \in TimerSeqs : timer_index \in Nodes(q)
    BY <2>1 DEF TimerListShape
  <2>4. timer_index \in Timer
    BY <2>1, TimersAssumption, NextIsNode DEF TimerListShape, TimerSeqs
  <2>5. TypeOK'
    BY <1>5, <2>4 DEF Fire, Skip, Step, TypeOK
  <2> QED
    BY <2>2, <2>5
<1>6. CASE Tick
  <2>1. TypeOK'
    BY <1>6, TimersAssumption DEF Tick, listVars, TypeOK
  <2>2. TimerListShape'
    BY <1>6 DEF Tick, listVars, TimerListShape
  <2> QED
    BY <2>1, <2>2
<1>7. CASE UNCHANGED timerVars
  BY <1>7 DEF timerVars, TypeOK, TimerListShape
<1> QED
  BY <1>1, <1>2, <1>3, <1>4, <1>5, <1>6, <1>7 DEF Next

(* Types and list shape hold for every program that executes each          *)
(* timer_set once.                                                         *)
THEOREM TimersInvariant ==
  ASSUME Restart = FALSE
  PROVE  Spec => [](TypeOK /\ TimerListShape)
<1>1. TimerInv /\ [Next]_timerVars => TimerInv'
  BY NextTimers
<1>2. Init => TimerInv
  BY InitTimers
<1>3. TimerInv <=> TypeOK /\ TimerListShape
  BY DEF TimerInv
<1> QED
  BY <1>1, <1>2, <1>3, PTL DEF Spec

-----------------------------------------------------------------------------
(* Counting from now, without a wrap, is exact.                            *)
LEMMA CountIsPunctual ==
  ASSUME NoWrap, TypeOK, Punctual, NEW tm \in Timer, Count(tm)
  PROVE  Punctual'
<1>1. /\ ClockMod \in Nat \ {0} /\ time \in Nat /\ time <= Horizon
      /\ Horizon \in Nat /\ Period[tm] \in Nat
  BY ClockType, TimersAssumption DEF TypeOK
<1>2. Horizon + Period[tm] < ClockMod
  BY DEF NoWrap
<1>3. time % ClockMod = time
  BY <1>1, <1>2
<1>4. (Period[tm] + time) % ClockMod = Period[tm] + time
  BY <1>1, <1>2
<1>5. msec_time'[tm] = due'[tm]
  BY <1>3, <1>4 DEF Count, TypeOK, msec_now
<1> QED
  BY <1>5 DEF Count, TypeOK, Punctual

LEMMA NextPunctual ==
  ASSUME NoWrap, TimerInv, Punctual, [Next]_timerVars
  PROVE  Punctual'
<1> USE DEF TimerInv
<1>1. ASSUME NEW tm \in Timer, Set(tm) \/ Reset(tm) PROVE Punctual'
  BY <1>1, CountIsPunctual DEF Set, Reset
<1>2. ASSUME NEW tm \in Timer, Disable(tm) PROVE Punctual'
  BY <1>2 DEF Disable, TypeOK, Punctual
<1>3. CASE StartScan \/ Tick
  BY <1>3 DEF StartScan, Tick, Punctual
<1>4. CASE Fire \/ Skip
  BY <1>4 DEF Fire, Skip, Step, TypeOK, Punctual
<1>5. CASE UNCHANGED timerVars
  BY <1>5 DEF timerVars, Punctual
<1> QED
  BY <1>1, <1>2, <1>3, <1>4, <1>5 DEF Next

(* The message of a timer turns available in the step that finds it        *)
(* expired, which without a wrap is no sooner than it was set for.         *)
LEMMA FiresOnTime ==
  ASSUME NoWrap, TimerInv, Punctual, [Next]_timerVars,
         NEW tm \in Timer, ~avail[tm], avail'[tm]
  PROVE  due[tm] <= time
<1> USE DEF TimerInv
<1>1. Fire /\ timer_index = tm
  <2>1. ASSUME NEW x \in Timer, Set(x) PROVE FALSE
    BY <2>1 DEF Set
  <2>2. ASSUME NEW x \in Timer, Reset(x) \/ Disable(x) PROVE FALSE
    BY <2>2 DEF Reset, Disable, TypeOK
  <2>3. CASE StartScan \/ Skip \/ Tick \/ UNCHANGED timerVars
    BY <2>3 DEF StartScan, Skip, Tick, timerVars
  <2>4. CASE Fire
    BY <2>4 DEF Fire, TypeOK
  <2> QED
    BY <2>1, <2>2, <2>3, <2>4 DEF Next
<1>2. msec_time[tm] <= msec_now /\ msec_time[tm] = due[tm]
  BY <1>1 DEF Fire, Expired, Punctual
<1>3. /\ ClockMod \in Nat \ {0} /\ time \in Nat /\ time <= Horizon
      /\ Horizon \in Nat /\ Period[tm] \in Nat /\ Horizon + Period[tm] < ClockMod
  BY ClockType, TimersAssumption DEF TypeOK, NoWrap
<1>4. time % ClockMod = time
  BY <1>3
<1> QED
  BY <1>2, <1>4 DEF msec_now

LEMMA AlwaysPunctual ==
  ASSUME Restart = FALSE, NoWrap
  PROVE  Spec => [](TimerInv /\ Punctual)
<1>1. TimerInv /\ Punctual /\ [Next]_timerVars => TimerInv' /\ Punctual'
  BY NextTimers, NextPunctual
<1> QED
  BY <1>1, InitTimers, PTL DEF Spec

(* As long as the clock does not wrap while a timer counts, no timer fires *)
(* before its time, however its task sets, resets and disables it and      *)
(* wherever the clock interrupt falls.                                     *)
THEOREM TimersFireOnTime ==
  ASSUME Restart = FALSE, NoWrap
  PROVE  Spec => NoEarlyFire
<1>1. TimerInv /\ Punctual /\ [Next]_timerVars
        => [\A tm \in Timer : ~avail[tm] /\ avail'[tm] => due[tm] <= time]_timerVars
  BY FiresOnTime
<1> QED
  BY <1>1, AlwaysPunctual, PTL DEF Spec, NoEarlyFire

-----------------------------------------------------------------------------
(* The inductive invariant, for programs that come by each autostr_set     *)
(* once.                                                                   *)
AutoInv == AutoTypeOK /\ AutoListShape

LEMMA InitAutoStr == AutoInit => AutoInv
<1> SUFFICES ASSUME AutoInit PROVE AutoInv
  OBVIOUS
<1>1. AutoTypeOK
  BY DEF AutoInit, AutoTypeOK
<1>2. <<>> \in AutoSeqs /\ Linked(<<>>, autostr_list, anext, Null)
      /\ EndsAt(<<>>, autostr_index) /\ Nodes(<<>>) = {}
  BY AutoStrAssumption, EmptyList DEF AutoInit, AutoSeqs
<1> QED
  BY <1>1, <1>2 DEF AutoInit, AutoInv, AutoListShape

(* autostr_set_sys appends: outside a visit autostr_index is the last node.*)
LEMMA DeclareKeepsShape ==
  ASSUME Redeclare = FALSE, AutoInv, NEW a \in Autostr, Declare(a)
  PROVE  AutoListShape'
<1> USE DEF AutoInv
<1>1. PICK q \in AutoSeqs :
        /\ Linked(q, autostr_list, anext, Null) /\ Nodes(q) = declared
        /\ EndsAt(q, autostr_index)
  BY DEF AutoListShape, Declare
<1>2. IsList(Autostr, q, autostr_list, autostr_index, anext, Null)
  BY <1>1 DEF IsList, AutoSeqs
<1>3. a \notin Nodes(q) /\ anext \in [Autostr -> Autostr \cup {Null}]
  BY <1>1 DEF Declare, AutoTypeOK
<1>4. IsList(Autostr, Append(q, a), autostr_list', autostr_index', anext', Null)
  BY <1>2, <1>3, AutoStrAssumption, AppendToList DEF Declare
<1>5. Nodes(Append(q, a)) = declared'
  BY <1>1, AutoStrAssumption, AppendNodes DEF AutoSeqs, Declare
<1>6. \A x \in Autostr : raised'[x] => x \in declared'
  BY DEF Declare, AutoTypeOK, AutoListShape
<1>7. ~visiting'
  BY DEF Declare
<1> QED
  BY <1>4, <1>5, <1>6, <1>7 DEF IsList, AutoSeqs, AutoListShape

(* An iteration of autostr_exec stays on the list and leaves the index on  *)
(* its last node when it is over.                                          *)
LEMMA AutoStepKeepsShape ==
  ASSUME AutoInv, visiting, AutoStep, \A x \in Autostr : raised'[x] => raised[x]
  PROVE  AutoListShape' /\ autostr_index \in Autostr
<1> USE DEF AutoInv
<1>1. PICK q \in AutoSeqs :
        /\ Linked(q, autostr_list, anext, Null) /\ Nodes(q) = declared
        /\ autostr_index \in Nodes(q)
        /\ \A x \in Autostr : raised[x] => x \in declared
  BY DEF AutoListShape
<1>2. /\ anext[autostr_index] # Null => anext[autostr_index] \in Nodes(q)
      /\ anext[autostr_index] = Null => EndsAt(q, autostr_index)
      /\ autostr_index \in Autostr
  BY <1>1, AutoStrAssumption, NextIsNode DEF AutoSeqs
<1>3. IF visiting' THEN autostr_index' \in Nodes(q) ELSE EndsAt(q, autostr_index')
  BY <1>2 DEF AutoStep
<1>4. UNCHANGED <<autostr_list, anext, declared>>
  BY DEF AutoStep
<1> QED
  BY <1>1, <1>2, <1>3, <1>4 DEF AutoListShape

LEMMA NextAutoStr ==
  ASSUME Redeclare = FALSE, AutoInv, [AutoNext]_autoVars
  PROVE  AutoInv'
<1> USE DEF AutoInv
<1>1. ASSUME NEW a \in Autostr, Declare(a) PROVE AutoInv'
  <2>1. AutoTypeOK'
    BY <1>1 DEF Declare, HeadAfterAppend, NextAfterAppend, AutoTypeOK
  <2> QED
    BY <1>1, <2>1, DeclareKeepsShape
<1>2. ASSUME NEW a \in Autostr, NEW up \in BOOLEAN, Switch(a, up) PROVE AutoInv'
  <2>1. AutoTypeOK'
    BY <1>2 DEF Switch, AutoTypeOK
  <2>2. AutoListShape'
    BY <1>2 DEF Switch, AutoTypeOK, AutoListShape
  <2> QED
    BY <2>1, <2>2
<1>3. CASE StartVisit
  <2>1. AutoTypeOK'
    BY <1>3 DEF StartVisit, AutoTypeOK
  <2>2. PICK q \in AutoSeqs :
          /\ Linked(q, autostr_list, anext, Null) /\ Nodes(q) = declared
          /\ \A x \in Autostr : raised[x] => x \in declared
    BY DEF AutoListShape
  <2>3. autostr_list \in Nodes(q)
    BY <1>3, <2>2, AutoStrAssumption, HeadIsNode DEF AutoSeqs, StartVisit
  <2> QED
    BY <1>3, <2>1, <2>2, <2>3 DEF StartVisit, AutoListShape
<1>4. CASE Activate \/ Pass
  <2>1. visiting /\ AutoStep /\ \A x \in Autostr : raised'[x] => raised[x]
    BY <1>4 DEF Activate, Pass, AutoTypeOK
  <2>2. AutoListShape' /\ autostr_index \in Autostr
    BY <2>1, AutoStepKeepsShape
  <2>3. AutoTypeOK'
    BY <1>4, <2>2 DEF Activate, Pass, AutoStep, AutoTypeOK
  <2> QED
    BY <2>2, <2>3
<1>5. CASE UNCHANGED autoVars
  BY <1>5 DEF autoVars, AutoTypeOK, AutoListShape
<1> QED
  BY <1>1, <1>2, <1>3, <1>4, <1>5 DEF AutoNext

(* Types and list shape hold for every program that executes each          *)
(* autostr_set once.                                                       *)
THEOREM AutoStrInvariant ==
  ASSUME Redeclare = FALSE
  PROVE  AutoSpec => [](AutoTypeOK /\ AutoListShape)
<1>1. AutoInv /\ [AutoNext]_autoVars => AutoInv'
  BY NextAutoStr
<1>2. AutoInv <=> AutoTypeOK /\ AutoListShape
  BY DEF AutoInv
<1> QED
  BY <1>1, <1>2, InitAutoStr, PTL DEF AutoSpec
=============================================================================
