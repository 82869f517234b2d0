--------------------------- MODULE TreeSwapProofs ---------------------------
(***************************************************************************)
(* TreeSwap, for any trees and any number of processes that all take the   *)
(* lock: what is at the path of a tree is a whole tree.                    *)
(***************************************************************************)
EXTENDS TreeSwap, TLAPS

\* Every variable keeps its type.
THEOREM TypeCorrect == Spec => []TypeOK
<1>1. Init => TypeOK
  BY TreeAssumption DEF Init, TypeOK, Paths, Steps
<1>2. TypeOK /\ [Next]_vars => TypeOK'
  <2> SUFFICES ASSUME TypeOK, [Next]_vars PROVE TypeOK'
    OBVIOUS
  <2> USE TreeAssumption DEF TypeOK, Paths, Steps, GoTo
  <2>1. ASSUME NEW p \in Processes, NEW path \in Paths, NEW next \in Steps,
               RemoveAll(p, path, next)
        PROVE  TypeOK'
    BY <2>1 DEF RemoveAll
  <2>2. ASSUME NEW p \in Processes,
               ClearStaging(p) \/ DropPrevious(p) \/ PrunePrevious(p) \/ CleanStaging(p)
        PROVE  TypeOK'
    BY <2>1, <2>2 DEF ClearStaging, DropPrevious, PrunePrevious, CleanStaging
  <2>3. ASSUME NEW p \in Processes, Begin(p) PROVE TypeOK'
    BY <2>3 DEF Begin
  <2>4. ASSUME NEW p \in Processes, MakeStaging(p) \/ Write(p) \/ Commit(p) PROVE TypeOK'
    BY <2>4 DEF MakeStaging, Write, Commit, Made
  <2>5. ASSUME NEW p \in Processes, Rotate(p) \/ Install(p) PROVE TypeOK'
    BY <2>5 DEF Rotate, Install
  <2>6. ASSUME NEW p \in Processes, DropFails(p) \/ RebuildFails(p) \/ Crash(p)
        PROVE  TypeOK'
    BY <2>6 DEF DropFails, RebuildFails, Crash, Fault
  <2>7. CASE ArchiveChanges \/ UNCHANGED vars
    BY <2>7 DEF ArchiveChanges, vars
  <2> QED
    BY <2>2, <2>3, <2>4, <2>5, <2>6, <2>7 DEF Next, RebuildStep
<1> QED
  BY <1>1, <1>2, PTL DEF Spec

----------------------------------------------------------------------------
(* Whole trees.                                                            *)

\* One rebuild at a time.
Alone == \A p, q \in Processes : pc[p] # "idle" /\ pc[q] # "idle" => p = q

\* What the staging directory holds of the tree that is being built.
Staged(p) ==
    /\ pc[p] # "idle" => goal[p] \in Archives
    /\ pc[p] \in {"clearing", "making"} => todo[p] = goal[p]
    /\ pc[p] = "making" => dir["building"] = Absent
    /\ pc[p] = "writing" =>
         /\ dir["building"] # Absent /\ todo[p] \subseteq goal[p]
         /\ dir["building"] = goal[p] \ todo[p]
    /\ pc[p] \in {"dropping", "rotating", "installing"} => dir["building"] = goal[p]

IInv == Alone /\ NeverHalf /\ \A p \in Processes : Staged(p)

\* A step of one process leaves the others idle.
LEMMA OthersIdle ==
    ASSUME TypeOK, IInv, NEW p \in Processes, pc[p] # "idle",
           NEW step, pc' = pc \/ pc' = [pc EXCEPT ![p] = step]
    PROVE  Alone' /\ \A q \in Processes \ {p} : pc'[q] = "idle" /\ Staged(q)'
<1>1. \A q \in Processes \ {p} : pc[q] = "idle" /\ pc'[q] = "idle"
  BY DEF IInv, Alone, TypeOK
<1> QED
  BY <1>1 DEF Alone, Staged

\* A rebuild begins alone, when all take the lock.
LEMMA BeginInv ==
    ASSUME LockHolders = Processes, TypeOK, IInv, NEW p \in Processes, Begin(p)
    PROVE  IInv'
<1>1. /\ \A q \in Processes : pc[q] = "idle"
      /\ pc' = [pc EXCEPT ![p] = "clearing"]
      /\ goal'[p] = archive /\ todo'[p] = archive /\ dir' = dir
  BY DEF Begin, GoTo, TypeOK
<1>2. \A q \in Processes \ {p} : pc'[q] = "idle"
  BY <1>1 DEF TypeOK
<1> QED
  BY <1>1, <1>2 DEF IInv, Alone, Staged, NeverHalf, TypeOK

\* The staging directory becomes the tree, and nothing else touches the root.
LEMMA StepInv ==
    ASSUME TypeOK, TypeOK', IInv, NEW p \in Processes,
           RebuildStep(p) \/ DropFails(p) \/ RebuildFails(p) \/ Crash(p)
    PROVE  IInv'
<1>1. PICK step : /\ pc[p] # "idle"
                  /\ pc' = pc \/ pc' = [pc EXCEPT ![p] = step]
                  /\ goal' = goal
  BY DEF RebuildStep, ClearStaging, MakeStaging, Write, Commit, DropPrevious, Rotate,
         Install, PrunePrevious, CleanStaging, DropFails, RebuildFails, Crash, RemoveAll, GoTo
<1>2. Alone' /\ \A q \in Processes \ {p} : Staged(q)'
  BY <1>1, OthersIdle
<1>3. Staged(p)' /\ NeverHalf'
  <2> USE <1>1 DEF IInv, Staged, NeverHalf, TypeOK, GoTo, Paths, Steps
  <2>1. CASE ClearStaging(p)
    BY <2>1 DEF ClearStaging, RemoveAll
  <2>2. CASE MakeStaging(p)
    <3>1. dir["building"] = Absent /\ goal[p] \in Archives /\ todo[p] = goal[p]
      BY <2>2 DEF MakeStaging
    <3>2. dir'["building"] = {} /\ dir'["root"] = dir["root"] /\ todo' = todo
      BY <2>2, <3>1 DEF MakeStaging, Made
    <3>3. pc'[p] = "writing" /\ goal'[p] = goal[p] /\ goal[p] \ goal[p] = {} /\ Absent # {}
      BY <2>2, TreeAssumption DEF MakeStaging
    <3>4. NeverHalf'
      BY <3>2, <2>2 DEF MakeStaging
    <3> QED
      BY <3>1, <3>2, <3>3, <3>4
  <2>3. CASE Write(p)
    <3>1. PICK e \in todo[p] :
            /\ dir' = [dir EXCEPT !["building"] = Made(@) \cup {e}]
            /\ todo' = [todo EXCEPT ![p] = @ \ {e}]
      BY <2>3 DEF Write
    <3>2. /\ dir["building"] # Absent /\ todo[p] \subseteq goal[p]
          /\ dir["building"] = goal[p] \ todo[p] /\ goal[p] \in Archives
      BY <2>3 DEF Write
    <3>3. dir'["building"] = (goal[p] \ todo[p]) \cup {e} /\ dir'["root"] = dir["root"]
      BY <3>1, <3>2 DEF Made
    <3>4. todo'[p] = todo[p] \ {e} /\ pc'[p] = "writing" /\ goal'[p] = goal[p]
      BY <2>3, <3>1 DEF Write
    <3>5. dir'["building"] = goal'[p] \ todo'[p]
      <4> HIDE DEF IInv, Staged, NeverHalf, TypeOK
      <4> QED
        BY <3>1, <3>2, <3>3, <3>4
    <3>6. dir'["building"] # Absent
      <4>1. dir'["building"] \in SUBSET Entries
        BY <3>2, <3>5, <3>4, TreeAssumption
      <4> QED
        BY <4>1, TreeAssumption
    <3> QED
      BY <3>2, <3>3, <3>4, <3>5, <3>6 DEF Write
  <2>4. CASE Commit(p)
    BY <2>4 DEF Commit
  <2>5. CASE DropPrevious(p)
    BY <2>5 DEF DropPrevious, RemoveAll
  <2>6. CASE Rotate(p)
    BY <2>6 DEF Rotate
  <2>7. CASE Install(p)
    BY <2>7 DEF Install, Installable
  <2>8. CASE PrunePrevious(p) \/ CleanStaging(p)
    BY <2>8 DEF PrunePrevious, CleanStaging, RemoveAll
  <2>9. CASE DropFails(p) \/ RebuildFails(p) \/ Crash(p)
    BY <2>9 DEF DropFails, RebuildFails, Crash
  <2> QED
    BY <2>1, <2>2, <2>3, <2>4, <2>5, <2>6, <2>7, <2>8, <2>9 DEF RebuildStep
<1> QED
  BY <1>2, <1>3 DEF IInv

\* When every process that rebuilds takes the lock, the path of a tree holds a
\* whole tree or nothing, at every step and wherever processes die.
THEOREM TreesAreWhole == ASSUME LockHolders = Processes PROVE Spec => []NeverHalf
<1>1. Init => IInv
  BY DEF Init, IInv, Alone, Staged, NeverHalf, Paths
<1>2. TypeOK /\ TypeOK' /\ IInv /\ [Next]_vars => IInv'
  <2> SUFFICES ASSUME TypeOK, TypeOK', IInv, [Next]_vars PROVE IInv'
    OBVIOUS
  <2>1. CASE ArchiveChanges \/ UNCHANGED vars
    BY <2>1 DEF ArchiveChanges, vars, IInv, Alone, Staged, NeverHalf
  <2> QED
    BY <2>1, BeginInv, StepInv DEF Next
<1>3. IInv => NeverHalf
  BY DEF IInv
<1> QED
  BY <1>1, <1>2, <1>3, TypeCorrect, PTL DEF Spec

============================================================================
