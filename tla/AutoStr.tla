------------------------------ MODULE AutoStr ------------------------------
(***************************************************************************)
(* The automatisms of idOS (os/sys/autostr.cpp): a task cannot make itself *)
(* ready, so it raises an autostr, and autostr_exec, called from the main  *)
(* loop, wakes the owner of every raised one.                              *)
(*                                                                         *)
(* As in Timers, the do-while of autostr_exec is modelled one iteration at *)
(* a time, and the wake-up itself is the part of Activate that the module  *)
(* Kernel adds.                                                            *)
(***************************************************************************)
EXTENDS Naturals, Sequences, FiniteSets, LinkedList

CONSTANTS
  Autostr,    \* every static autostr_st that autostr_set declares
  Null,        \* NULL
  Redeclare     \* TRUE if an autostr_set may be executed again

ASSUME AutoStrAssumption ==
  IsFiniteSet(Autostr) /\ Null \notin Autostr /\ Redeclare \in BOOLEAN

VARIABLES
  autostr_list, autostr_index,   \* the static pointers of autostr.cpp
  anext,                         \* autostr_st.next
  raised,                        \* autostr_st.active
  visiting,                      \* inside the do-while of autostr_exec
  declared                       \* those whose autostr_set was executed

autoVars == <<autostr_list, autostr_index, anext, raised, visiting, declared>>

AutoInit ==
  /\ autostr_list = Null /\ autostr_index = Null
  /\ anext = [a \in Autostr |-> Null]
  /\ raised = [a \in Autostr |-> FALSE]
  /\ visiting = FALSE
  /\ declared = {}

-----------------------------------------------------------------------------
(* Mutant: autostr_index is not moved to the new one.                      *)
DeclareKeepsIndex(a) ==
  /\ ~visiting
  /\ a \in declared => Redeclare
  /\ raised' = [raised EXCEPT ![a] = TRUE]
  /\ autostr_list' = HeadAfterAppend(autostr_list, Null, a)
  /\ anext' = NextAfterAppend(autostr_list, autostr_index, anext, Null, a)
  /\ autostr_index' = HeadAfterAppend(autostr_index, Null, a)
  /\ declared' = declared \cup {a}
  /\ UNCHANGED visiting

(* autostr_set_sys: raised and appended behind autostr_index.              *)
Declare(a) ==
  /\ ~visiting
  /\ a \in declared => Redeclare
  /\ raised' = [raised EXCEPT ![a] = TRUE]
  /\ autostr_list' = HeadAfterAppend(autostr_list, Null, a)
  /\ anext' = NextAfterAppend(autostr_list, autostr_index, anext, Null, a)
  /\ autostr_index' = a
  /\ declared' = declared \cup {a}
  /\ UNCHANGED visiting

(* autostr_reset and autostr_disable.                                      *)
Switch(a, up) ==
  /\ ~visiting
  /\ a \in declared
  /\ raised' = [raised EXCEPT ![a] = up]
  /\ UNCHANGED <<autostr_list, autostr_index, anext, visiting, declared>>

(* autostr_exec up to its loop; with an empty list it returns at once.     *)
StartVisit ==
  /\ ~visiting
  /\ autostr_list # Null
  /\ autostr_index' = autostr_list
  /\ visiting' = TRUE
  /\ UNCHANGED <<autostr_list, anext, raised, declared>>

(* The end of one iteration: on to the next one, or out of the loop.       *)
AutoStep ==
  /\ IF anext[autostr_index] # Null
       THEN autostr_index' = anext[autostr_index] /\ UNCHANGED visiting
       ELSE visiting' = FALSE /\ UNCHANGED autostr_index
  /\ UNCHANGED <<autostr_list, anext, declared>>

(* An iteration that finds its autostr raised.                             *)
Activate ==
  /\ visiting
  /\ raised[autostr_index]
  /\ raised' = [raised EXCEPT ![autostr_index] = FALSE]
  /\ AutoStep

(* An iteration that does not.                                             *)
Pass ==
  /\ visiting
  /\ ~raised[autostr_index]
  /\ UNCHANGED raised
  /\ AutoStep

AutoNext ==
  \/ \E a \in Autostr : Declare(a)
  \/ \E a \in Autostr, up \in BOOLEAN : Switch(a, up)
  \/ StartVisit \/ Activate \/ Pass

AutoSpec == AutoInit /\ [][AutoNext]_autoVars

-----------------------------------------------------------------------------
(* Every variable stays in its type.                                       *)
AutoTypeOK ==
  /\ autostr_list \in Autostr \cup {Null} /\ autostr_index \in Autostr \cup {Null}
  /\ anext \in [Autostr -> Autostr \cup {Null}]
  /\ raised \in [Autostr -> BOOLEAN]
  /\ visiting \in BOOLEAN /\ (visiting => autostr_index \in Autostr)
  /\ declared \in SUBSET Autostr

AutoSeqs == DistinctSeqs(Autostr)

(* The list reaches every autostr ever declared, once, and ends; outside   *)
(* autostr_exec the index is its last node (autostr.cpp:23), on which the  *)
(* next autostr_set relies, and during it a node of the list.              *)
AutoListShape ==
  \E q \in AutoSeqs :
    /\ Linked(q, autostr_list, anext, Null)
    /\ Nodes(q) = declared
    /\ IF visiting THEN autostr_index \in Nodes(q) ELSE EndsAt(q, autostr_index)
    /\ \A a \in Autostr : raised[a] => a \in declared
=============================================================================
