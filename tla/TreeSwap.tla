------------------------------ MODULE TreeSwap ------------------------------
(***************************************************************************)
(* How a derived tree is replaced: stageDir of tree/records.go and its use *)
(* by BuildRecords and BuildFiles.  A tree is built beside the one it      *)
(* replaces, in root.building, and swapped in by two renames by way of     *)
(* root.previous.  Commands that pull hold the lock, files rebuild and     *)
(* files relink do not: they are processes like any other here.            *)
(*                                                                         *)
(* A directory is the set of entries in it.  RemoveAll takes them away one *)
(* by one, files are written by path, renames are atomic.  (A RemoveAll    *)
(* that has a directory open goes on in it after a rename, which could     *)
(* only take more from a tree than the model's.)                           *)
(***************************************************************************)
EXTENDS Naturals, FiniteSets

CONSTANTS Entries,       \* names of files a tree may have
          Archives,      \* the whole trees: what the archive may hold
          Processes,
          LockHolders,   \* the processes that take the lock
          Absent,        \* in place of a directory that is not there
          MaxFaults      \* bounds crashes and failing calls

ASSUME TreeAssumption ==
    /\ Archives \subseteq SUBSET Entries /\ {} \notin Archives
    /\ \A d \in SUBSET Entries : d # Absent
    /\ LockHolders \subseteq Processes
    /\ MaxFaults \in Nat

VARIABLES dir,    \* what is at each of the three paths
          pc, goal, todo,  \* of each process: step, tree wanted, files not yet written
          archive,         \* the tree the archive stands for
          faults

vars == <<dir, pc, goal, todo, archive, faults>>

Paths == {"root", "building", "previous"}
Steps == {"idle", "clearing", "making", "writing", "dropping", "rotating", "installing",
          "pruning", "cleaning"}

TypeOK ==
    /\ dir \in [Paths -> (SUBSET Entries) \cup {Absent}]
    /\ pc \in [Processes -> Steps]
    /\ goal \in [Processes -> Archives \cup {{}}]
    /\ todo \in [Processes -> SUBSET Entries]
    /\ archive \in Archives /\ faults \in 0..MaxFaults

Init ==
    /\ dir = [n \in Paths |-> Absent]
    /\ pc = [p \in Processes |-> "idle"]
    /\ goal = [p \in Processes |-> {}] /\ todo = [p \in Processes |-> {}]
    /\ archive \in Archives /\ faults = 0

Fault == faults < MaxFaults /\ faults' = faults + 1

GoTo(p, step) == pc' = [pc EXCEPT ![p] = step]

\* os.MkdirAll, alone or before a file is written.
Made(d) == IF d = Absent THEN {} ELSE d

\* os.Rename refuses a target that is a directory, an empty one too.
Free(path) == dir[path] = Absent

\* One step of os.RemoveAll, and where the process goes when all is gone.
RemoveAll(p, path, next) ==
    /\ \/ dir[path] = Absent /\ UNCHANGED dir /\ GoTo(p, next)
       \/ dir[path] = {} /\ dir' = [dir EXCEPT ![path] = Absent] /\ GoTo(p, next)
       \/ /\ dir[path] # Absent /\ UNCHANGED pc
          /\ \E e \in dir[path] : dir' = [dir EXCEPT ![path] = @ \ {e}]
    /\ UNCHANGED <<goal, todo, archive, faults>>

----------------------------------------------------------------------------
(* One rebuild.                                                            *)

\* What the tree is made of is read here.  A process that takes the lock begins only when no other holds it.
Begin(p) ==
    /\ pc[p] = "idle"
    /\ p \in LockHolders => \A q \in LockHolders : pc[q] = "idle"
    /\ goal' = [goal EXCEPT ![p] = archive] /\ todo' = [todo EXCEPT ![p] = archive]
    /\ GoTo(p, "clearing")
    /\ UNCHANGED <<dir, archive, faults>>

\* Mutated: what an interrupted rebuild left is built upon.
KeepStaging(p) ==
    /\ pc[p] = "clearing" /\ GoTo(p, "making")
    /\ UNCHANGED <<dir, goal, todo, archive, faults>>

ClearStaging(p) == pc[p] = "clearing" /\ RemoveAll(p, "building", "making")

MakeStaging(p) ==
    /\ pc[p] = "making"
    /\ dir' = [dir EXCEPT !["building"] = Made(@)]
    /\ GoTo(p, "writing")
    /\ UNCHANGED <<goal, todo, archive, faults>>

\* writeJSON or link, which make the directories of the path again.
Write(p) ==
    /\ pc[p] = "writing"
    /\ \E e \in todo[p] :
        /\ dir' = [dir EXCEPT !["building"] = Made(@) \cup {e}]
        /\ todo' = [todo EXCEPT ![p] = @ \ {e}]
    /\ UNCHANGED <<pc, goal, archive, faults>>

Commit(p) ==
    /\ pc[p] = "writing" /\ todo[p] = {} /\ GoTo(p, "dropping")
    /\ UNCHANGED <<dir, goal, todo, archive, faults>>

\* Mutated: the leftover of an interrupted swap is not dropped.
KeepPrevious(p) ==
    /\ pc[p] = "dropping" /\ GoTo(p, "rotating")
    /\ UNCHANGED <<dir, goal, todo, archive, faults>>

DropPrevious(p) == pc[p] = "dropping" /\ RemoveAll(p, "previous", "rotating")

\* Its error is not looked at.
DropFails(p) ==
    /\ pc[p] = "dropping" /\ Fault /\ GoTo(p, "rotating")
    /\ UNCHANGED <<dir, goal, todo, archive>>

\* Mutated: what is in the way of the old tree takes it in.
RotateInto(p) ==
    /\ pc[p] = "rotating" /\ GoTo(p, "installing")
    /\ dir' = IF dir["root"] = Absent THEN dir
              ELSE [dir EXCEPT !["previous"] = Made(@) \cup {dir["root"]}, !["root"] = Absent]
    /\ UNCHANGED <<goal, todo, archive, faults>>

Rotate(p) ==
    /\ pc[p] = "rotating"
    /\ \/ dir["root"] = Absent /\ UNCHANGED dir /\ GoTo(p, "installing")
       \/ /\ dir["root"] # Absent /\ Free("previous")
          /\ dir' = [dir EXCEPT !["previous"] = dir["root"], !["root"] = Absent]
          /\ GoTo(p, "installing")
       \/ /\ dir["root"] # Absent /\ ~Free("previous")
          /\ UNCHANGED dir /\ GoTo(p, "cleaning")
    /\ UNCHANGED <<goal, todo, archive, faults>>

Installable == dir["building"] # Absent /\ Free("root")

Install(p) ==
    /\ pc[p] = "installing"
    /\ \/ /\ Installable
          /\ dir' = [dir EXCEPT !["root"] = dir["building"], !["building"] = Absent]
          /\ GoTo(p, "pruning")
       \/ ~Installable /\ UNCHANGED dir /\ GoTo(p, "cleaning")
    /\ UNCHANGED <<goal, todo, archive, faults>>

PrunePrevious(p) == pc[p] = "pruning" /\ RemoveAll(p, "previous", "cleaning")

\* The deferred RemoveAll, whatever the rebuild came to.
CleanStaging(p) == pc[p] = "cleaning" /\ RemoveAll(p, "building", "idle")

\* A call fails, or the context is cancelled between two entries.
RebuildFails(p) ==
    /\ pc[p] \in Steps \ {"idle", "dropping"} /\ Fault
    /\ GoTo(p, IF pc[p] \in {"clearing", "making", "cleaning"} THEN "idle" ELSE "cleaning")
    /\ UNCHANGED <<dir, goal, todo, archive>>

\* The lock goes with the process.
Crash(p) ==
    /\ pc[p] # "idle" /\ Fault /\ GoTo(p, "idle")
    /\ UNCHANGED <<dir, goal, todo, archive>>

----------------------------------------------------------------------------

RebuildStep(p) ==
    \/ ClearStaging(p) \/ MakeStaging(p) \/ Write(p) \/ Commit(p) \/ DropPrevious(p)
    \/ Rotate(p) \/ Install(p) \/ PrunePrevious(p) \/ CleanStaging(p)

\* A pull has archived something, or a download has.
ArchiveChanges ==
    /\ archive' \in Archives
    /\ UNCHANGED <<dir, pc, goal, todo, faults>>

Next ==
    \/ \E p \in Processes :
          Begin(p) \/ RebuildStep(p) \/ DropFails(p) \/ RebuildFails(p) \/ Crash(p)
    \/ ArchiveChanges

Spec == Init /\ [][Next]_vars

\* A rebuild waits for nothing, and pulls come for ever.
FairSpec ==
    /\ Spec /\ WF_vars(\E p \in Processes : Begin(p))
    /\ \A p \in Processes : WF_vars(RebuildStep(p))

----------------------------------------------------------------------------
(* Properties.                                                             *)

\* A tree at its path is a whole one, never "a half-written one", at any step
\* of a rebuild and after a crash anywhere (stageDir).
NeverHalf == dir["root"] = Absent \/ dir["root"] \in Archives

\* Once the archive stays as it is, its tree is installed, whatever interrupted
\* rebuilds left at the other two paths.
CatchesUp ==
    \A tree \in Archives : <>[](archive = tree) => []<>(dir["root"] = tree)

============================================================================
