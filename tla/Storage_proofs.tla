--------------------------- MODULE Storage_proofs ---------------------------
(* What Storage proves, for every number of sessions, worktrees, commits and*)
(* restarts: a run works on the commits it recorded, a checkpoint that a row*)
(* names can be restored, no commit is lost while the volume is there, and  *)
(* the sweep of a starting gateway spares whatever is still needed.         *)
EXTENDS Storage, TLAPS

(* A worktree has the branch its owner works on.  One branch is in at most  *)
(* one worktree, and at most one allocation is under way for it.            *)
TreeInv ==
    /\ \A d \in InFlight \cup OnDisk : dirs[d].branch = BranchOf(dirs[d].owner)
    /\ \A d \in OnDisk : local[dirs[d].branch] # Absent
    /\ \A d, e \in InFlight : dirs[d].branch = dirs[e].branch => d = e
    /\ \A d, e \in OnDisk : dirs[d].branch = dirs[e].branch => d = e

(* A row names a worktree only once its allocation has returned, and while  *)
(* that exists it has the session's branch.                                 *)
NameInv ==
    \A s \in Sessions : row[s].dir # NoDir =>
        /\ dirs[row[s].dir].at \in {"disk", "gone"}
        /\ Has(s) => dirs[row[s].dir].branch = BranchOf(s)

(* Bundles are written apart from the worktrees, or not at all.             *)
BundleInv == root # "apart" => \A s \in Sessions : row[s].saved = {}

(* What is parked was parked by a checkout, which left a branch behind.     *)
ParkInv == rescued # {} => \E b \in Branches : local[b] # Absent

(* What the sweep may still remove was no allocation when it began, and is  *)
(* no session's that could be taken up again.                               *)
SweepInv ==
    gateway.at = "sweep" =>
        /\ \A d \in gateway.aged \ gateway.guarded : dirs[d].at \in {"disk", "gone"}
        /\ \A d \in gateway.todo : dirs[d].at \in {"disk", "gone"} /\ Leftover(d)

IInv == /\ StorageTypeOK /\ TreeInv /\ NameInv /\ BundleInv /\ ParkInv /\ SweepInv
        /\ WorksOnItsCommits /\ DurableIsDurable

-----------------------------------------------------------------------------
(* Types.                                                                   *)

LEMMA BranchType == \A s \in Sessions : BranchOf(s) \in Branches
  BY DEF BranchOf, Branches

LEMMA NumberType == NoDir \notin Dirs /\ 0 \notin Commits /\ MaxCommits \in Nat /\ MaxBoots \in Nat
  BY StorageAssumption DEF Dirs, NoDir, Commits

\* What the end of a run leaves of a row.
LEMMA OverType ==
  ASSUME NEW r \in Rows, NEW st \in Statuses, NEW kept \in BOOLEAN
  PROVE  /\ Over(r, st, kept) \in Rows
         /\ Over(r, st, kept).dir = r.dir /\ Over(r, st, kept).ledger = r.ledger
         /\ Over(r, st, kept).saved = r.saved /\ Over(r, st, kept).status = st
         /\ Over(r, st, kept).kept = kept
  BY DEF Over, Rows

LEMMA EndsType ==
  ASSUME StorageTypeOK, NEW s \in Sessions, NEW st \in Terminal, NEW kept \in BOOLEAN,
         Ends(s, st, kept)
  PROVE  /\ row' \in [Sessions -> Rows] /\ releasing' \subseteq Dirs
         /\ loop' = [loop EXCEPT ![s] = "none"] /\ row'[s].status = st
         /\ \A t \in Sessions :
               /\ row'[t].dir = row[t].dir /\ row'[t].ledger = row[t].ledger
               /\ row'[t].saved = row[t].saved
               /\ t # s => row'[t] = row[t]
  <1>1. Over(row[s], st, kept) \in Rows
    BY OverType DEF StorageTypeOK, Statuses
  <1>2. row' = [row EXCEPT ![s] = Over(row[s], st, kept)]
    BY DEF Ends
  <1>3. row[s].dir \in Dirs \cup {NoDir}
    BY DEF StorageTypeOK, Rows
  <1>4. \A t \in Sessions : row'[t] = IF t = s THEN Over(row[s], st, kept) ELSE row[t]
    BY <1>2 DEF StorageTypeOK
  <1> QED
    BY <1>1, <1>2, <1>3, <1>4, OverType DEF StorageTypeOK, Ends, Statuses

LEMMA FailsType ==
  ASSUME StorageTypeOK, NEW s \in Sessions, FinaliseFailed(s)
  PROVE  /\ row' \in [Sessions -> Rows] /\ releasing' \subseteq Dirs
         /\ loop' = [loop EXCEPT ![s] = "none"]
         /\ \A t \in Sessions :
               /\ row'[t].dir = row[t].dir /\ row'[t].ledger = row[t].ledger
               /\ row'[t].saved = row[t].saved
               /\ t # s => row'[t] = row[t]
  <1>1. PICK kept \in RecoverableWork(s) : Ends(s, "failed", kept)
    BY DEF FinaliseFailed
  <1>2. kept \in BOOLEAN
    BY <1>1 DEF RecoverableWork
  <1> QED
    BY <1>1, <1>2, EndsType DEF Terminal

Running == {"planning", "executing", "reviewing"}

\* What a step may do to the rows and the loops.
RowStep ==
    /\ row' \in [Sessions -> Rows]
    /\ loop' \in [Sessions -> {"none", "planning", "allocating", "working"}]
    /\ \A s \in Sessions :
        /\ loop'[s] # "none" => row'[s].status \in Running
        /\ row[s].status \in Terminal =>
              row'[s].status \in Terminal /\ row'[s].kept = row[s].kept
        /\ row'[s].dir # row[s].dir => \E d \in Dirs : Allocated(d)
        /\ row'[s].ledger # row[s].ledger => Commit(s)
        /\ row'[s].saved # row[s].saved => Commit(s) \/ Pause(s)
        /\ loop'[s] = "working" => loop[s] = "working" \/ \E d \in Dirs : Allocated(d)

LEMMA StartRows ==
  ASSUME StorageTypeOK, NEW s \in Sessions, Start(s) \/ Answer(s) \/ Resume(s)
  PROVE  RowStep
  <1>1. PICK p \in BOOLEAN, i \in BOOLEAN, o \in BOOLEAN :
          row' = [row EXCEPT ![s].status = "planning", ![s].preserve = p,
                             ![s].idle = i, ![s].old = o]
    <2>1. CASE Start(s)
      <3>1. /\ row[s].preserve \in BOOLEAN /\ row[s].idle \in BOOLEAN /\ row[s].old \in BOOLEAN
        BY DEF StorageTypeOK, Rows
      <3>2. row' = [row EXCEPT ![s].status = "planning", ![s].preserve = row[s].preserve,
                             ![s].idle = row[s].idle, ![s].old = row[s].old]
        BY <2>1 DEF Start, StorageTypeOK, Rows
      <3> QED
        BY <3>1, <3>2
    <2>2. CASE Answer(s)
      BY <2>2 DEF Answer, StorageTypeOK, Rows
    <2>3. CASE Resume(s)
      <3>1. row[s].preserve \in BOOLEAN
        BY DEF StorageTypeOK, Rows
      <3>2. row' = [row EXCEPT ![s].status = "planning", ![s].preserve = row[s].preserve,
                             ![s].idle = FALSE, ![s].old = FALSE]
        BY <2>3 DEF Resume, StorageTypeOK, Rows
      <3> QED
        BY <3>1, <3>2
    <2> QED
      BY <2>1, <2>2, <2>3
  <1>2. loop' = [loop EXCEPT ![s] = "planning"] /\ row[s].status \notin Terminal
    BY DEF Start, Answer, Resume, Terminal
  <1>3. row'[s] = [row[s] EXCEPT !.status = "planning", !.preserve = p, !.idle = i, !.old = o]
    BY <1>1 DEF StorageTypeOK, Rows
  <1>4. row'[s] \in Rows
    <2>1. row[s] \in Rows
      BY DEF StorageTypeOK
    <2> QED
      BY <1>3, <2>1 DEF Rows, Statuses
  <1>5. /\ row'[s].status = "planning" /\ row'[s].dir = row[s].dir
        /\ row'[s].ledger = row[s].ledger /\ row'[s].saved = row[s].saved
    BY <1>3 DEF StorageTypeOK, Rows
  <1>6. row' \in [Sessions -> Rows] /\ \A t \in Sessions : t # s => row'[t] = row[t]
    BY <1>1, <1>4 DEF StorageTypeOK
  <1>7. /\ loop' \in [Sessions -> {"none", "planning", "allocating", "working"}]
        /\ loop'[s] = "planning" /\ \A t \in Sessions : t # s => loop'[t] = loop[t]
    BY <1>2 DEF StorageTypeOK
  <1> QED
    BY <1>2, <1>5, <1>6, <1>7 DEF RowStep, Running, StorageTypeOK, Live

LEMMA EndRows ==
  ASSUME StorageTypeOK, NEW s \in Sessions, Allocate(s) \/ LeadTimesOut(s) \/ Shipped(s) \/ RunFails(s)
  PROVE  RowStep
  <1>1. loop[s] # "none" /\ row[s].status \notin Terminal
    BY DEF Allocate, LeadTimesOut, Shipped, RunFails, StorageTypeOK, Live, Terminal
  <1>2. CASE row' = row /\ loop' = [loop EXCEPT ![s] = "allocating"]
    BY <1>1, <1>2 DEF RowStep, Running, StorageTypeOK, Live
  <1>3. CASE FinaliseFailed(s)
    BY <1>1, <1>3, FailsType DEF RowStep, Running, StorageTypeOK, Live
  <1>4. CASE Shipped(s)
    <2>1. Ends(s, "done", FALSE) /\ "done" \in Terminal
      BY <1>4 DEF Shipped, Terminal
    <2>2. /\ row' \in [Sessions -> Rows] /\ loop' = [loop EXCEPT ![s] = "none"]
          /\ \A t \in Sessions :
                /\ row'[t].dir = row[t].dir /\ row'[t].ledger = row[t].ledger
                /\ row'[t].saved = row[t].saved
                /\ t # s => row'[t] = row[t]
      BY <2>1, EndsType
    <2> QED
      BY <1>1, <2>2 DEF RowStep, Running, StorageTypeOK, Live, Terminal
  <1> QED
    BY <1>2, <1>3, <1>4 DEF Allocate, LeadTimesOut, RunFails

\* A worktree that is there has a branch with commits to add to.
LEMMA HasBranch ==
  ASSUME StorageTypeOK, TreeInv, NameInv, NEW s \in Sessions, Has(s)
  PROVE  local[BranchOf(s)] \in SUBSET Commits
  <1>1. row[s].dir \in OnDisk /\ row[s].dir # NoDir
    BY NumberType DEF Has, OnDisk
  <1>2. local[BranchOf(s)] # Absent
    BY <1>1 DEF TreeInv, NameInv
  <1>3. local[BranchOf(s)] \in Tips
    BY BranchType DEF StorageTypeOK
  <1> QED
    BY <1>2, <1>3 DEF Tips

\* The row after a checkpoint that was made, or that failed.
LEMMA CheckpointRows ==
  ASSUME StorageTypeOK, NEW s \in Sessions, NEW b \in SUBSET Commits,
         NEW rest \in [Sessions -> Rows], DurableCheckpoint(s, b, rest)
  PROVE  /\ row' \in [Sessions -> Rows] /\ saved' \in [Sessions -> SUBSET Commits]
         /\ \A t \in Sessions :
               /\ t # s => row'[t] = rest[t]
               /\ row'[t].status = rest[t].status /\ row'[t].dir = rest[t].dir
               /\ row'[t].ledger = rest[t].ledger /\ row'[t].kept = rest[t].kept
               /\ saved[t] \subseteq saved'[t]
               /\ \/ row'[t].saved = rest[t].saved
                  \/ CheckpointAllowed /\ row'[t].saved \subseteq saved'[t]
  <1>0. saved \in [Sessions -> SUBSET Commits]
    BY DEF StorageTypeOK
  <1>1. CASE row' = rest /\ UNCHANGED saved
    BY <1>0, <1>1
  <1>2. CASE /\ CheckpointAllowed /\ saved' = [saved EXCEPT ![s] = @ \cup b]
             /\ row' = [rest EXCEPT ![s].saved = b]
    <2>1. [rest[s] EXCEPT !.saved = b] \in Rows
      BY DEF Rows
    <2>2. \A t \in Sessions : row'[t] = IF t = s THEN [rest[s] EXCEPT !.saved = b] ELSE rest[t]
      BY <1>2
    <2>3. saved' \in [Sessions -> SUBSET Commits]
      BY <1>0, <1>2
    <2>4. b \subseteq saved'[s] /\ \A t \in Sessions : saved[t] \subseteq saved'[t]
      BY <1>0, <1>2
    <2>5. row' \in [Sessions -> Rows]
      BY <1>2, <2>1
    <2>6. /\ row'[s].status = rest[s].status /\ row'[s].dir = rest[s].dir
          /\ row'[s].ledger = rest[s].ledger /\ row'[s].kept = rest[s].kept
          /\ row'[s].saved = b
      BY <2>2 DEF Rows
    <2> QED
      BY <1>2, <2>2, <2>3, <2>4, <2>5, <2>6
  <1> QED
    BY <1>1, <1>2 DEF DurableCheckpoint

LEMMA CommitType ==
  ASSUME StorageTypeOK, TreeInv, NameInv, NEW s \in Sessions, Commit(s)
  PROVE  /\ row' \in [Sessions -> Rows] /\ saved' \in [Sessions -> SUBSET Commits]
         /\ made + 1 \in Commits /\ row'[s].status = "executing"
         /\ row'[s].ledger = row[s].ledger \cup {made + 1}
         /\ \A t \in Sessions :
               /\ t # s => row'[t] = row[t]
               /\ row'[t].dir = row[t].dir /\ saved[t] \subseteq saved'[t]
               /\ \/ row'[t].saved = row[t].saved
                  \/ CheckpointAllowed /\ row'[t].saved \subseteq saved'[t]
  <1> DEFINE new == [[row[s] EXCEPT !.ledger = @ \cup {made + 1}] EXCEPT !.status = "executing"]
             rest == [row EXCEPT ![s].ledger = @ \cup {made + 1}, ![s].status = "executing"]
             b == local[BranchOf(s)] \cup {made + 1}
  <1>1. made + 1 \in Commits
    BY NumberType DEF Commit, StorageTypeOK, Commits
  <1>2. b \in SUBSET Commits
    BY <1>1, HasBranch DEF Commit
  <1>3. row[s] \in Rows /\ row[s].ledger \cup {made + 1} \in SUBSET Commits
    BY <1>1 DEF StorageTypeOK, Rows
  <1>4. new \in Rows /\ new.status = "executing" /\ new.dir = row[s].dir
        /\ new.ledger = row[s].ledger \cup {made + 1} /\ new.saved = row[s].saved
    BY <1>3 DEF Rows, Statuses
  <1>5. rest = [row EXCEPT ![s] = new]
    BY <1>3 DEF StorageTypeOK, Rows
  <1>6. rest \in [Sessions -> Rows] /\ rest[s] = new /\ \A t \in Sessions : t # s => rest[t] = row[t]
    BY <1>4, <1>5 DEF StorageTypeOK
  <1>7. DurableCheckpoint(s, b, rest)
    BY DEF Commit
  <1>8. row \in [Sessions -> Rows]
    BY DEF StorageTypeOK
  <1> HIDE DEF new, rest, b
  <1>9. /\ row' \in [Sessions -> Rows] /\ saved' \in [Sessions -> SUBSET Commits]
        /\ \A t \in Sessions :
               /\ t # s => row'[t] = rest[t]
               /\ row'[t].status = rest[t].status /\ row'[t].dir = rest[t].dir
               /\ row'[t].ledger = rest[t].ledger /\ saved[t] \subseteq saved'[t]
               /\ \/ row'[t].saved = rest[t].saved
                  \/ CheckpointAllowed /\ row'[t].saved \subseteq saved'[t]
    BY ZenonT(40), <1>2, <1>6, <1>7, CheckpointRows
  <1> QED
    BY <1>1, <1>4, <1>6, <1>9

LEMMA PauseType ==
  ASSUME StorageTypeOK, NEW s \in Sessions, Pause(s)
  PROVE  /\ row' \in [Sessions -> Rows] /\ saved' \in [Sessions -> SUBSET Commits]
         /\ \A t \in Sessions :
               /\ t # s => row'[t] = row[t]
               /\ row'[t].dir = row[t].dir /\ saved[t] \subseteq saved'[t]
               /\ row'[t].ledger = row[t].ledger
               /\ \/ row'[t].saved = row[t].saved
                  \/ CheckpointAllowed /\ row'[t].saved \subseteq saved'[t]
  <1> DEFINE new == [row[s] EXCEPT !.status = "paused"]
             rest == [row EXCEPT ![s].status = "paused"]
             b == IF Has(s) THEN Content(local[BranchOf(s)]) ELSE {}
  <1>1. b \in SUBSET Commits
    <2>1. local[BranchOf(s)] \in Tips
      BY BranchType DEF StorageTypeOK
    <2> QED
      BY <2>1 DEF Content, Tips
  <1>2. new \in Rows /\ new.status = "paused" /\ new.dir = row[s].dir
        /\ new.ledger = row[s].ledger /\ new.saved = row[s].saved
    BY ZenonT(40) DEF StorageTypeOK, Rows, Statuses
  <1>3. rest \in [Sessions -> Rows] /\ rest[s] = new /\ \A t \in Sessions : t # s => rest[t] = row[t]
    BY <1>2 DEF StorageTypeOK
  <1>4. DurableCheckpoint(s, b, rest)
    BY DEF Pause
  <1> HIDE DEF new, rest, b
  <1>5. /\ row' \in [Sessions -> Rows] /\ saved' \in [Sessions -> SUBSET Commits]
        /\ \A t \in Sessions :
               /\ t # s => row'[t] = rest[t]
               /\ row'[t].dir = rest[t].dir
               /\ row'[t].ledger = rest[t].ledger /\ saved[t] \subseteq saved'[t]
               /\ \/ row'[t].saved = rest[t].saved
                  \/ CheckpointAllowed /\ row'[t].saved \subseteq saved'[t]
    BY ZenonT(40), <1>1, <1>3, <1>4, CheckpointRows
  <1> QED
    BY <1>2, <1>3, <1>5

LEMMA CommitRows ==
  ASSUME StorageTypeOK, TreeInv, NameInv, NEW s \in Sessions, Commit(s)
  PROVE  RowStep
  <1>1. loop' = loop /\ loop[s] = "working" /\ row[s].status \notin Terminal
    BY DEF Commit, StorageTypeOK, Live, Terminal
  <1> QED
    BY <1>1, CommitType DEF RowStep, Running, StorageTypeOK, Live

LEMMA PauseRows ==
  ASSUME StorageTypeOK, NEW s \in Sessions, Pause(s)
  PROVE  RowStep
  <1>1. /\ loop' = [loop EXCEPT ![s] = "none"] /\ row[s].status \notin Terminal
    BY DEF Pause, Terminal
  <1> QED
    BY <1>1, PauseType DEF RowStep, Running, StorageTypeOK, Live

LEMMA PublishRows ==
  ASSUME StorageTypeOK, NEW s \in Sessions, Publish(s)
  PROVE  RowStep
  <1> DEFINE new == [row[s] EXCEPT !.status = "reviewing", !.pr = TRUE]
  <1>1. new \in Rows /\ new.status = "reviewing" /\ new.dir = row[s].dir
        /\ new.ledger = row[s].ledger /\ new.saved = row[s].saved
    BY ZenonT(40) DEF StorageTypeOK, Rows, Statuses
  <1>2. row' = [row EXCEPT ![s] = new]
    BY DEF Publish, StorageTypeOK, Rows
  <1>3. loop' = loop /\ row[s].status \notin Terminal
    BY DEF Publish, Terminal
  <1> HIDE DEF new
  <1> QED
    BY <1>1, <1>2, <1>3 DEF RowStep, Running, StorageTypeOK, Live

\* How an allocation that is waited for, or not, ends.
LEMMA AllocatedType ==
  ASSUME StorageTypeOK, NEW d \in Dirs, Allocated(d)
  PROVE  /\ RowStep /\ dirs[d].owner \in Sessions /\ releasing' \subseteq Dirs
         /\ \A t \in Sessions :
               /\ row'[t].ledger = row[t].ledger /\ row'[t].saved = row[t].saved
               /\ row'[t] = row[t] \/ (t = dirs[d].owner /\ row'[t].dir = d)
               /\ loop'[t] = "working" =>
                    \/ loop[t] = "working" /\ row'[t] = row[t]
                    \/ t = dirs[d].owner /\ LedgerReachable(t)
  <1> DEFINE s == dirs[d].owner
             found == [row[s] EXCEPT !.dir = d]
             new == [[found EXCEPT !.status = "executing"] EXCEPT !.cycled = TRUE]
  <1>1. s \in Sessions
    <2>1. dirs[d] \in Worktrees /\ dirs[d].at = "added"
      BY DEF StorageTypeOK, Allocated
    <2> QED
      BY <2>1 DEF Worktrees
  <1>2. found \in Rows /\ found.dir = d /\ found.ledger = row[s].ledger /\ found.saved = row[s].saved
    BY SMTT(30), <1>1 DEF StorageTypeOK, Rows
  <1>3. CASE loop[s] # "allocating" /\ UNCHANGED <<row, loop, releasing>>
    <2>1. row' = row /\ loop' = loop /\ releasing' = releasing
      BY <1>3
    <2>2. RowStep
      BY <2>1 DEF RowStep, Running, StorageTypeOK, Live
    <2>3. releasing \subseteq Dirs
      BY SMTT(30) DEF StorageTypeOK
    <2> QED
      BY <1>1, <2>1, <2>2, <2>3
  <1>4. CASE /\ loop[s] = "allocating" /\ LedgerReachable(s)
             /\ row' = [[row EXCEPT ![s].dir = d] EXCEPT ![s].status = "executing", ![s].cycled = TRUE]
             /\ loop' = [loop EXCEPT ![s] = "working"] /\ releasing' = releasing
    <2>1. new \in Rows /\ new.dir = d /\ new.ledger = row[s].ledger /\ new.saved = row[s].saved
          /\ new.status = "executing"
      BY <1>2 DEF Rows, Statuses
    <2>2. row' = [row EXCEPT ![s] = new]
      BY <1>1, <1>4 DEF StorageTypeOK, Rows
    <2>3. row[s].status \notin Terminal
      BY <1>1, <1>4 DEF StorageTypeOK, Live, Terminal
    <2> HIDE DEF new, found
    <2>4. /\ row' \in [Sessions -> Rows] /\ row'[s] = new
          /\ \A t \in Sessions : t # s => row'[t] = row[t]
      BY <1>1, <2>1, <2>2 DEF StorageTypeOK
    <2>5. /\ loop' \in [Sessions -> {"none", "planning", "allocating", "working"}]
          /\ \A t \in Sessions : t # s => loop'[t] = loop[t]
      BY <1>1, <1>4 DEF StorageTypeOK
    <2>6. RowStep
      BY <1>1, <2>1, <2>3, <2>4, <2>5 DEF RowStep, Running, StorageTypeOK, Live
    <2>7. releasing \subseteq Dirs
      BY DEF StorageTypeOK
    <2> HIDE DEF s
    <2> QED
      BY <1>1, <1>4, <2>1, <2>4, <2>5, <2>6, <2>7 DEF s
  <1>5. CASE /\ loop[s] = "allocating"
             /\ \E kept \in BOOLEAN :
                  /\ row' = [[row EXCEPT ![s].dir = d] EXCEPT ![s] = Over(@, "failed", kept)]
                  /\ releasing' = IF kept THEN releasing ELSE releasing \cup {d}
             /\ loop' = [loop EXCEPT ![s] = "none"]
    <2>1. PICK kept \in BOOLEAN :
             /\ row' = [[row EXCEPT ![s].dir = d] EXCEPT ![s] = Over(@, "failed", kept)]
             /\ releasing' = IF kept THEN releasing ELSE releasing \cup {d}
      BY <1>5
    <2>2. row' = [row EXCEPT ![s] = Over(found, "failed", kept)]
      BY <1>1, <2>1 DEF StorageTypeOK, Rows
    <2>3. "failed" \in Statuses
      BY DEF Statuses, Terminal
    <2>4. row[s].status \notin Terminal
      BY <1>1, <1>5 DEF StorageTypeOK, Live, Terminal
    <2> HIDE DEF found
    <2>5. /\ Over(found, "failed", kept) \in Rows
          /\ Over(found, "failed", kept).dir = d
          /\ Over(found, "failed", kept).ledger = row[s].ledger
          /\ Over(found, "failed", kept).saved = row[s].saved
      BY <1>2, <2>3, OverType
    <2>6. /\ row' \in [Sessions -> Rows] /\ row'[s] = Over(found, "failed", kept)
          /\ \A t \in Sessions : t # s => row'[t] = row[t]
      BY <1>1, <2>2, <2>5 DEF StorageTypeOK
    <2>7. /\ loop' \in [Sessions -> {"none", "planning", "allocating", "working"}]
          /\ loop'[s] = "none" /\ \A t \in Sessions : t # s => loop'[t] = loop[t]
      BY <1>1, <1>5 DEF StorageTypeOK
    <2>8. RowStep
      BY <1>1, <2>4, <2>5, <2>6, <2>7 DEF RowStep, Running, StorageTypeOK, Live
    <2>9. releasing' \subseteq Dirs
      BY <2>1 DEF StorageTypeOK
    <2> QED
      BY <1>1, <2>5, <2>6, <2>7, <2>8, <2>9
  <1> QED
    BY <1>3, <1>4, <1>5 DEF Allocated, TruncatedAt

LEMMA CrashRows ==
  ASSUME StorageTypeOK, Crash
  PROVE  /\ RowStep /\ loop' = [s \in Sessions |-> "none"]
         /\ \A s \in Sessions : row'[s].dir = row[s].dir /\ row'[s].saved = row[s].saved
  <1>1. PICK long \in BOOLEAN :
          row' = [s \in Sessions |-> IF long /\ row[s].status \in WorkBearing
                                    THEN [row[s] EXCEPT !.old = TRUE, !.idle = TRUE] ELSE row[s]]
    BY DEF Crash
  <1>2. loop' = [s \in Sessions |-> "none"]
    BY DEF Crash
  <1>3. ASSUME NEW s \in Sessions
        PROVE  /\ row'[s] \in Rows /\ row'[s].status = row[s].status
               /\ row'[s].kept = row[s].kept /\ row'[s].dir = row[s].dir
               /\ row'[s].ledger = row[s].ledger /\ row'[s].saved = row[s].saved
    <2>1. row[s] \in Rows
      BY DEF StorageTypeOK
    <2> QED
      BY <1>1, <2>1 DEF Rows
  <1>4. row' \in [Sessions -> Rows]
    BY <1>1, <1>3
  <1> QED
    BY <1>2, <1>3, <1>4 DEF RowStep

LEMMA ReconcileRowsRows ==
  ASSUME StorageTypeOK, ReconcileRows
  PROVE  RowStep
  <1>1. CASE UNCHANGED row
    BY <1>1 DEF ReconcileRows, RowStep, Running, StorageTypeOK, Live
  <1>2. CASE row' = [s \in Sessions |-> IF row[s].status \in WorkBearing
                                       THEN [row[s] EXCEPT !.old = FALSE] ELSE row[s]]
    <2>1. ASSUME NEW s \in Sessions
          PROVE  /\ row'[s] \in Rows /\ row'[s].status = row[s].status
                 /\ row'[s].kept = row[s].kept /\ row'[s].dir = row[s].dir
                 /\ row'[s].ledger = row[s].ledger /\ row'[s].saved = row[s].saved
      <3>1. row[s] \in Rows
        BY DEF StorageTypeOK
      <3> QED
        BY <1>2, <3>1 DEF Rows
    <2>2. row' \in [Sessions -> Rows]
      BY <1>2, <2>1
    <2>3. loop' = loop
      BY DEF ReconcileRows
    <2> QED
      BY <2>1, <2>2, <2>3 DEF RowStep, Running, StorageTypeOK, Live
  <1> QED
    BY <1>1, <1>2 DEF ReconcileRows

LEMMA RecoversRows ==
  ASSUME StorageTypeOK, NEW s \in Sessions, Recovers(s)
  PROVE  RowStep
  <1>1. row[s] \in Rows /\ row[s].status \notin Terminal /\ loop[s] = "none"
    BY DEF Recovers, StorageTypeOK, Terminal
  <1>2. CASE \E st \in {"interrupted", "planning"} : row' = [row EXCEPT ![s].status = st]
    <2>1. PICK st \in {"interrupted", "planning"} : row' = [row EXCEPT ![s].status = st]
      BY <1>2
    <2> DEFINE new == [row[s] EXCEPT !.status = st]
    <2>2. new \in Rows /\ new.status = st /\ new.dir = row[s].dir
          /\ new.ledger = row[s].ledger /\ new.saved = row[s].saved
      BY <1>1 DEF Rows, Statuses
    <2>3. row' = [row EXCEPT ![s] = new]
      BY <2>1
    <2>4. \/ loop' = loop
          \/ loop' = [loop EXCEPT ![s] = "planning"] /\ st = "planning"
      <3>1. CASE AutoResume(s)
        <4>1. row' = [row EXCEPT ![s].status = "planning"]
          BY <3>1 DEF AutoResume
        <4>2. row'[s].status = "planning" /\ row'[s] = new
          BY <1>1, <2>3, <4>1 DEF StorageTypeOK, Rows
        <4> QED
          BY <2>2, <3>1, <4>2 DEF AutoResume
      <3> QED
        BY <3>1 DEF Recovers
    <2> HIDE DEF new
    <2> QED
      BY <1>1, <2>2, <2>3, <2>4 DEF RowStep, Running, StorageTypeOK, Live
  <1>3. CASE \E st \in Terminal, kept \in BOOLEAN :
                row' = [row EXCEPT ![s] = Over(@, st, kept)] /\ UNCHANGED loop
    <2>1. PICK st \in Terminal, kept \in BOOLEAN :
                row' = [row EXCEPT ![s] = Over(@, st, kept)] /\ UNCHANGED loop
      BY <1>3
    <2>2. /\ Over(row[s], st, kept) \in Rows
          /\ Over(row[s], st, kept).dir = row[s].dir
          /\ Over(row[s], st, kept).ledger = row[s].ledger
          /\ Over(row[s], st, kept).saved = row[s].saved
      BY <1>1, OverType DEF Statuses
    <2> QED
      BY <1>1, <2>1, <2>2 DEF RowStep, Running, StorageTypeOK, Live
  <1> QED
    BY <1>2, <1>3 DEF Recovers, AutoResume, Terminal

LEMMA RowNext ==
  ASSUME StorageTypeOK, TreeInv, NameInv, [StorageNext]_vars
  PROVE  RowStep
  <1>1. CASE \E s \in Sessions : Start(s) \/ Answer(s) \/ Resume(s)
    BY <1>1, StartRows
  <1>2. CASE \E s \in Sessions : Allocate(s) \/ LeadTimesOut(s) \/ Shipped(s) \/ RunFails(s)
    BY <1>2, EndRows
  <1>3. CASE \E s \in Sessions : Commit(s) \/ Pause(s) \/ Publish(s) \/ Recovers(s)
    BY <1>3, CommitRows, PauseRows, PublishRows, RecoversRows
  <1>4. CASE Crash \/ ReconcileRows \/ \E d \in Dirs : Allocated(d)
    BY <1>4, CrashRows, ReconcileRowsRows, AllocatedType
  <1>5. CASE row' = row /\ loop' = loop
    BY <1>5 DEF RowStep, Running, StorageTypeOK, Live
  <1>6. CASE \/ \E d \in Dirs : Checkout(d) \/ Release(d) \/ HealRemoves(d)
             \/ Register \/ HealLists \/ Started \/ UNCHANGED vars
    BY <1>5, <1>6 DEF Checkout, Release, HealRemoves, Register, HealLists, Started, vars
  <1> QED
    BY <1>1, <1>2, <1>3, <1>4, <1>6 DEF StorageNext

-----------------------------------------------------------------------------
(* Worktrees and branches.                                                  *)

LEMMA TreeType ==
  ASSUME NEW w \in Worktrees
  PROVE  /\ w.at \in {"free", "gone", "reserved", "added", "disk"}
         /\ w.at \in {"reserved", "added", "disk"} => w.branch \in Branches /\ w.owner \in Sessions
  BY DEF Worktrees

LEMMA ContentType ==
  /\ \A t \in Tips : Content(t) \in SUBSET Commits /\ (t # Absent => Content(t) = t)
  /\ \A t \in SUBSET Commits : t \in Tips /\ t # Absent /\ Content(t) = t
  BY NumberType DEF Tips, Content, Absent

LEMMA StartType ==
  ASSUME StorageTypeOK, NEW s \in Sessions, NEW b \in Branches, NEW p
  PROVE  StartPoint(s, b, p) \in SUBSET Commits
  <1>1. local[b] \in Tips /\ remote[b] \in Tips /\ rescued \in SUBSET Commits
    BY DEF StorageTypeOK
  <1>2. {c \in Content(remote[b]) \cup rescued : \E tip \in Recoverable(s) : c <= tip} \in SUBSET Commits
    BY <1>1, ContentType
  <1>3. CASE Decision(s, b, p) = "preserve_local"
    BY <1>1, <1>3, ContentType DEF StartPoint, Decision, Tips
  <1>4. CASE Decision(s, b, p) = "recovered_local"
    BY <1>2, <1>4 DEF StartPoint
  <1>5. CASE Decision(s, b, p) = "reuse_remote"
    BY <1>1, <1>5, ContentType DEF StartPoint, Decision, Tips
  <1>6. CASE Decision(s, b, p) = "reset_to_base"
    BY <1>6 DEF StartPoint
  <1> QED
    BY <1>3, <1>4, <1>5, <1>6 DEF Decision

Shape ==
    /\ dirs' \in [Dirs -> Worktrees] /\ local' \in [Branches -> Tips]
    /\ remote' \in [Branches -> Tips] /\ rescued' \subseteq Commits
    /\ TreeInv' /\ NameInv'

\* A new allocation, on a branch that no other is under way for.
LEMMA ReserveTrees ==
  ASSUME StorageTypeOK, TreeInv, NameInv, NEW s \in Sessions, Allocate(s)
  PROVE  Shape
  <1>0. /\ UNCHANGED <<revisers, local, remote, rescued>>
        /\ \A t \in Sessions : row'[t].dir = row[t].dir
    BY FailsType DEF Allocate, Fixed, Shelves
  <1>1. CASE dirs' = dirs
    BY <1>0, <1>1 DEF Shape, StorageTypeOK, TreeInv, NameInv, InFlight, OnDisk, Has, BranchOf
  <1>2. CASE /\ ~BranchHeld(s)
             /\ \E d \in Dirs :
                  /\ dirs[d].at = "free"
                  /\ dirs' = [dirs EXCEPT ![d] = [at |-> "reserved", branch |-> BranchOf(s),
                                                  owner |-> s, preserve |-> row[s].preserve]]
    <2>1. PICK d \in Dirs :
                  /\ dirs[d].at = "free"
                  /\ dirs' = [dirs EXCEPT ![d] = [at |-> "reserved", branch |-> BranchOf(s),
                                                  owner |-> s, preserve |-> row[s].preserve]]
      BY <1>2
    <2> DEFINE w == [at |-> "reserved", branch |-> BranchOf(s), owner |-> s,
                     preserve |-> row[s].preserve]
    <2>2. w \in Worktrees /\ w.at = "reserved" /\ w.branch = BranchOf(s) /\ w.owner = s
      BY BranchType DEF Worktrees, StorageTypeOK, Rows
    <2> HIDE DEF w
    <2>3. /\ dirs' \in [Dirs -> Worktrees] /\ dirs'[d] = w
          /\ \A e \in Dirs : e # d => dirs'[e] = dirs[e]
      BY <2>1, <2>2 DEF StorageTypeOK, w
    <2>4. InFlight' = InFlight \cup {d} /\ OnDisk' = OnDisk /\ d \notin InFlight \cup OnDisk
      BY <2>1, <2>2, <2>3 DEF InFlight, OnDisk
    <2>5. \A e \in InFlight : dirs[e].branch # BranchOf(s)
      BY <1>2 DEF BranchHeld
    <2>6. \A t \in Sessions : BranchOf(t)' = BranchOf(t)
      BY <1>0 DEF BranchOf
    <2>7. TreeInv'
      <3>1. InFlight \subseteq Dirs /\ OnDisk \subseteq Dirs
        BY DEF InFlight, OnDisk
      <3>2. \A e \in InFlight \cup OnDisk : dirs[e] \in Worktrees /\ dirs[e].owner \in Sessions
        BY <3>1, TreeType DEF StorageTypeOK, InFlight, OnDisk
      <3> QED
        BY <1>0, <2>2, <2>3, <2>4, <2>5, <2>6, <3>1, <3>2 DEF TreeInv
    <2>8. NameInv'
      BY <1>0, <2>1, <2>3, <2>4, <2>6, NumberType DEF NameInv, Has, StorageTypeOK, Rows
    <2> QED
      BY <1>0, <2>3, <2>7, <2>8 DEF Shape, StorageTypeOK
  <1> QED
    BY <1>1, <1>2 DEF Allocate

\* A worktree is removed or stays as it is.
LEMMA RemoveTrees ==
  ASSUME StorageTypeOK, TreeInv, NameInv, dirs' \in [Dirs -> Worktrees],
         \A d \in Dirs : dirs'[d] = dirs[d] \/ dirs'[d].at = "gone",
         \A s \in Sessions : row'[s].dir = row[s].dir,
         UNCHANGED revisers,
         \A b \in Branches : local[b] # Absent => local'[b] # Absent
  PROVE  TreeInv' /\ NameInv'
  <1>2. /\ InFlight' \subseteq InFlight /\ OnDisk' \subseteq OnDisk
        /\ InFlight \subseteq Dirs /\ OnDisk \subseteq Dirs
        /\ \A d \in InFlight' \cup OnDisk' : dirs'[d] = dirs[d]
    BY DEF InFlight, OnDisk
  <1>3. \A d \in InFlight \cup OnDisk : dirs[d].owner \in Sessions /\ dirs[d].branch \in Branches
    BY <1>2, TreeType DEF StorageTypeOK, InFlight, OnDisk
  <1>4. \A s \in Sessions : BranchOf(s)' = BranchOf(s)
    BY DEF BranchOf
  <1>5. TreeInv'
    <2>1. \A d \in InFlight' \cup OnDisk' : (dirs[d].branch = BranchOf(dirs[d].owner))'
      BY <1>2, <1>3 DEF TreeInv, BranchOf
    <2>2. \A d \in OnDisk' : local'[dirs'[d].branch] # Absent
      BY <1>2, <1>3 DEF TreeInv
    <2> QED
      BY <1>2, <2>1, <2>2 DEF TreeInv
  <1>6. NameInv'
    <2>1. \A d \in Dirs : dirs[d].at \in {"disk", "gone"} => dirs'[d].at \in {"disk", "gone"}
      OBVIOUS
    <2>2. \A s \in Sessions : row[s].dir # NoDir => row[s].dir \in Dirs
      BY DEF StorageTypeOK, Rows
    <2> QED
      BY <1>2, <1>4, <2>1, <2>2 DEF NameInv, Has
  <1> QED
    BY <1>5, <1>6

LEMMA ReleaseTrees ==
  ASSUME StorageTypeOK, TreeInv, NameInv, NEW d \in Dirs, Release(d) \/ HealRemoves(d)
  PROVE  Shape
  <1>1. dirs' \in [Dirs -> Worktrees] /\ \A e \in Dirs : dirs'[e] = dirs[e] \/ dirs'[e].at = "gone"
    <2>1. [at |-> "gone"] \in Worktrees
      BY DEF Worktrees
    <2> QED
      BY <2>1 DEF Release, HealRemoves, StorageTypeOK
  <1>2. UNCHANGED <<revisers, row, local, remote, rescued>>
    BY DEF Release, HealRemoves, Fixed, Shelves
  <1>3. TreeInv' /\ NameInv'
    BY <1>1, <1>2, RemoveTrees
  <1> QED
    BY <1>1, <1>2, <1>3 DEF Shape, StorageTypeOK

\* The one checkout that may be under way for a branch: whoever has the branch
\* loses the worktree to it.
LEMMA CheckoutFacts ==
  ASSUME StorageTypeOK, TreeInv, NameInv, NEW d \in Dirs, Checkout(d)
  PROVE  /\ dirs[d].owner \in Sessions /\ dirs[d].branch = BranchOf(dirs[d].owner)
         /\ dirs' \in [Dirs -> Worktrees] /\ local' \in [Branches -> Tips]
         /\ \E start \in SUBSET Commits :
               /\ local' = [local EXCEPT ![dirs[d].branch] = start]
               /\ rescued' = rescued \cup (Content(local[dirs[d].branch]) \ start)
         /\ dirs'[d].at = "added" /\ dirs'[d].branch = dirs[d].branch
         /\ dirs'[d].owner = dirs[d].owner
         /\ \A e \in Dirs \ {d} :
               \/ dirs'[e] = dirs[e] /\ (e \in OnDisk => dirs[e].branch # dirs[d].branch)
               \/ dirs'[e].at = "gone" /\ dirs[e].at = "disk"
  <1> DEFINE b == dirs[d].branch
             s == dirs[d].owner
             others == ReconcileBranchWorktrees(b)
  <1>1. dirs[d] \in Worktrees /\ dirs[d].at = "reserved" /\ d \in InFlight
    BY DEF StorageTypeOK, Checkout, InFlight
  <1>2. b \in Branches /\ s \in Sessions /\ b = BranchOf(s)
    BY <1>1, TreeType DEF TreeInv
  <1>3. /\ others \in [Dirs -> Worktrees] /\ others[d] = dirs[d]
        /\ \A e \in Dirs :
             \/ others[e] = dirs[e] /\ ~(dirs[e].at = "disk" /\ dirs[e].branch = b)
             \/ others[e].at = "gone" /\ dirs[e].at = "disk"
    <2>1. [at |-> "gone"] \in Worktrees
      BY DEF Worktrees
    <2>2. \A e \in Dirs : dirs[e] \in Worktrees
      BY DEF StorageTypeOK
    <2>3. others = [e \in Dirs |-> IF dirs[e].at = "disk" /\ dirs[e].branch = b
                                  THEN [at |-> "gone"] ELSE dirs[e]]
      BY DEF ReconcileBranchWorktrees
    <2> HIDE DEF others
    <2> QED
      BY <1>1, <2>1, <2>2, <2>3
  <1>4. dirs' = [others EXCEPT ![d].at = "added"]
    BY DEF Checkout
  <1> HIDE DEF others
  <1>5. /\ dirs'[d] = [dirs[d] EXCEPT !.at = "added"]
        /\ \A e \in Dirs \ {d} : dirs'[e] = others[e]
    BY <1>3, <1>4
  <1>6. /\ [dirs[d] EXCEPT !.at = "added"] \in Worktrees
        /\ dirs'[d].at = "added" /\ dirs'[d].branch = b /\ dirs'[d].owner = s
    BY <1>1, <1>5 DEF Worktrees
  <1>7. dirs' \in [Dirs -> Worktrees]
    BY <1>3, <1>4, <1>5, <1>6
  <1>8. \A e \in Dirs \ {d} : e \in InFlight => dirs[e].branch # b
    BY <1>1 DEF TreeInv
  <1>9. \A e \in Dirs \ {d} :
               \/ dirs'[e] = dirs[e] /\ (e \in OnDisk => dirs[e].branch # b)
               \/ dirs'[e].at = "gone" /\ dirs[e].at = "disk"
    BY <1>3, <1>5, <1>8 DEF OnDisk, InFlight
  <1>10. PICK start \in SUBSET Commits :
             /\ local' = [local EXCEPT ![b] = start]
             /\ rescued' = rescued \cup (Content(local[b]) \ start)
    <2>1. StartPoint(s, b, dirs[d].preserve) \in SUBSET Commits
      BY <1>2, StartType
    <2> QED
      BY <2>1 DEF Checkout, RescueBranchIfAhead
  <1>11. local' \in [Branches -> Tips]
    BY <1>10, ContentType DEF StorageTypeOK
  <1> QED
    BY <1>2, <1>6, <1>7, <1>9, <1>10, <1>11

LEMMA CheckoutTrees ==
  ASSUME StorageTypeOK, TreeInv, NameInv, NEW d \in Dirs, Checkout(d)
  PROVE  Shape
  <1> DEFINE b == dirs[d].branch
  <1>0. UNCHANGED <<revisers, row, remote>> /\ dirs[d].at = "reserved"
    BY DEF Checkout, Fixed
  <1>1. PICK start \in SUBSET Commits :
             /\ local' = [local EXCEPT ![b] = start]
             /\ rescued' = rescued \cup (Content(local[b]) \ start)
    BY CheckoutFacts
  <1>2. /\ dirs[d].owner \in Sessions /\ b = BranchOf(dirs[d].owner)
        /\ dirs'[d].at = "added" /\ dirs'[d].branch = b /\ dirs'[d].owner = dirs[d].owner
        /\ dirs' \in [Dirs -> Worktrees] /\ local' \in [Branches -> Tips]
    BY CheckoutFacts
  <1>3. \A e \in Dirs \ {d} :
               \/ dirs'[e] = dirs[e] /\ (e \in OnDisk => dirs[e].branch # b)
               \/ dirs'[e].at = "gone" /\ dirs[e].at = "disk"
    BY CheckoutFacts
  <1>4. b \in Branches /\ InFlight \subseteq Dirs /\ OnDisk \subseteq Dirs
    BY <1>2, BranchType DEF InFlight, OnDisk
  <1>5. /\ InFlight' = InFlight /\ d \in InFlight /\ d \notin OnDisk
        /\ OnDisk' \subseteq OnDisk \cup {d} /\ d \in OnDisk'
        /\ \A e \in OnDisk' : e # d => dirs'[e] = dirs[e] /\ dirs[e].branch # b
        /\ \A e \in InFlight : dirs'[e].branch = dirs[e].branch /\ dirs'[e].owner = dirs[e].owner
    BY <1>0, <1>2, <1>3 DEF InFlight, OnDisk
  <1>6. \A e \in OnDisk \cup InFlight : dirs[e].branch \in Branches /\ dirs[e].owner \in Sessions
    BY <1>4, TreeType DEF StorageTypeOK, InFlight, OnDisk
  <1>7. \A e \in Branches : local'[e] = IF e = b THEN start ELSE local[e]
    BY <1>1, <1>4 DEF StorageTypeOK
  <1>8. start # Absent
    BY ContentType
  <1> HIDE DEF b
  <1>9. TreeInv'
    <2>1. \A e \in InFlight' \cup OnDisk' : (dirs[e].branch = BranchOf(dirs[e].owner))'
      <3>1. \A e \in InFlight' \cup OnDisk' : /\ dirs'[e].branch = dirs[e].branch
                                            /\ dirs'[e].owner = dirs[e].owner
        BY <1>2, <1>5
      <3> QED
        BY <1>0, <1>5, <3>1 DEF TreeInv, BranchOf
    <2>2. \A e \in OnDisk' : local'[dirs'[e].branch] # Absent
      BY <1>2, <1>4, <1>5, <1>6, <1>7, <1>8 DEF TreeInv
    <2>3. \A e, f \in InFlight' : dirs'[e].branch = dirs'[f].branch => e = f
      BY <1>5 DEF TreeInv
    <2>4. \A e, f \in OnDisk' : dirs'[e].branch = dirs'[f].branch => e = f
      BY <1>2, <1>5 DEF TreeInv
    <2> QED
      BY <2>1, <2>2, <2>3, <2>4 DEF TreeInv
  <1>10. NameInv'
    <2>1. \A s \in Sessions : row[s].dir # NoDir => row[s].dir \in Dirs \ {d}
      BY <1>0 DEF StorageTypeOK, Rows, NameInv
    <2>2. \A e \in Dirs :
            e # d => /\ dirs[e].at \in {"disk", "gone"} => dirs'[e].at \in {"disk", "gone"}
                     /\ e \in OnDisk' => dirs'[e] = dirs[e] /\ e \in OnDisk
      BY <1>3, <1>5
    <2>3. ASSUME NEW s \in Sessions, row[s].dir # NoDir
          PROVE  /\ dirs'[row[s].dir].at \in {"disk", "gone"}
                 /\ row[s].dir \in OnDisk' => dirs'[row[s].dir].branch = BranchOf(s)
      <3>1. row[s].dir \in Dirs \ {d}
        BY <2>1, <2>3
      <3>2. /\ dirs[row[s].dir].at \in {"disk", "gone"}
            /\ row[s].dir \in OnDisk => dirs[row[s].dir].branch = BranchOf(s)
        BY <2>3 DEF NameInv, Has
      <3> QED
        BY <2>2, <3>1, <3>2
    <2> QED
      BY <1>0, <2>3 DEF NameInv, Has, BranchOf
  <1>11. rescued' \subseteq Commits
    <2>1. Content(local[b]) \in SUBSET Commits
      BY <1>4, ContentType DEF StorageTypeOK
    <2> QED
      BY <1>1, <2>1 DEF StorageTypeOK
  <1> QED
    BY <1>0, <1>2, <1>9, <1>10, <1>11 DEF Shape, StorageTypeOK

LEMMA AllocatedTrees ==
  ASSUME StorageTypeOK, TreeInv, NameInv, NEW d \in Dirs, Allocated(d)
  PROVE  Shape
  <1>0. /\ UNCHANGED <<revisers, local, remote, rescued>> /\ dirs[d].at = "added"
        /\ dirs' = [dirs EXCEPT ![d].at = "disk"]
    BY DEF Allocated, Fixed, Shelves
  <1>1. dirs[d] \in Worktrees
    BY DEF StorageTypeOK
  <1>2. /\ dirs'[d] \in Worktrees /\ dirs'[d].at = "disk" /\ dirs'[d].branch = dirs[d].branch
        /\ dirs'[d].owner = dirs[d].owner /\ \A e \in Dirs : e # d => dirs'[e] = dirs[e]
    <2>1. /\ dirs'[d] = [dirs[d] EXCEPT !.at = "disk"]
          /\ \A e \in Dirs : e # d => dirs'[e] = dirs[e]
      BY <1>0 DEF StorageTypeOK
    <2> QED
      BY <1>0, <1>1, <2>1 DEF Worktrees
  <1>3. dirs' \in [Dirs -> Worktrees]
    BY <1>0, <1>2 DEF StorageTypeOK
  <1>4. /\ InFlight' \subseteq InFlight /\ OnDisk' = OnDisk /\ d \in OnDisk /\ d \notin InFlight'
        /\ InFlight \subseteq Dirs /\ OnDisk \subseteq Dirs
    BY <1>0, <1>2 DEF InFlight, OnDisk
  <1>5. \A e \in InFlight \cup OnDisk : dirs'[e].branch = dirs[e].branch /\ dirs'[e].owner = dirs[e].owner
    BY <1>2, <1>4
  <1>6. TreeInv'
    <2>1. \A e \in InFlight' \cup OnDisk' : (dirs[e].branch = BranchOf(dirs[e].owner))'
      BY <1>0, <1>4, <1>5 DEF TreeInv, BranchOf
    <2> QED
      BY <1>0, <1>4, <1>5, <2>1 DEF TreeInv
  <1>7. NameInv'
    <2>1. \A s \in Sessions : row'[s] = row[s] \/ (s = dirs[d].owner /\ row'[s].dir = d)
      BY AllocatedType
    <2>2. \A s \in Sessions : row[s].dir # NoDir => row[s].dir \in Dirs \ {d}
      BY <1>0 DEF StorageTypeOK, Rows, NameInv
    <2>3. dirs[d].branch = BranchOf(dirs[d].owner)
      BY <1>4 DEF TreeInv
    <2>4. ASSUME NEW s \in Sessions, row'[s].dir # NoDir
          PROVE  /\ dirs'[row'[s].dir].at \in {"disk", "gone"}
                 /\ row'[s].dir \in OnDisk' => (dirs[row[s].dir].branch = BranchOf(s))'
      <3>1. CASE row'[s] = row[s]
        BY <1>0, <1>2, <1>4, <2>2, <2>4, <3>1 DEF NameInv, Has, BranchOf
      <3>2. CASE s = dirs[d].owner /\ row'[s].dir = d
        BY <1>0, <1>2, <2>3, <3>2 DEF BranchOf
      <3> QED
        BY <2>1, <3>1, <3>2
    <2> QED
      BY <2>4 DEF NameInv, Has
  <1> QED
    BY <1>0, <1>3, <1>6, <1>7 DEF Shape, StorageTypeOK

\* A crash ends every allocation; the volume stays, or everything on it goes.
LEMMA CrashTrees ==
  ASSUME StorageTypeOK, TreeInv, NameInv, Crash
  PROVE  /\ Shape /\ saved' \in [Sessions -> SUBSET Commits]
         /\ \/ UNCHANGED <<local, rescued, saved>>
            \/ /\ local' = [b \in Branches |-> Absent] /\ rescued' = {}
               /\ saved' = IF root = "below" THEN [s \in Sessions |-> {}] ELSE saved
  <1>0. UNCHANGED <<revisers, remote>> /\ \A s \in Sessions : row'[s].dir = row[s].dir
    BY CrashRows DEF Crash, Fixed
  <1>1. CASE /\ dirs' = [d \in Dirs |-> CASE dirs[d].at = "added" -> [dirs[d] EXCEPT !.at = "disk"]
                                      [] d \in InFlight \ OnDisk -> [at |-> "gone"]
                                      [] OTHER -> dirs[d]]
             /\ UNCHANGED <<local, rescued, saved>>
    <2>1. ASSUME NEW d \in Dirs
          PROVE  /\ dirs'[d] \in Worktrees
                 /\ d \notin InFlight'
                 /\ d \in OnDisk' <=> d \in OnDisk
                 /\ d \in OnDisk => /\ dirs'[d].branch = dirs[d].branch
                                    /\ dirs'[d].owner = dirs[d].owner
                 /\ dirs[d].at \in {"disk", "gone"} => dirs'[d] = dirs[d]
      <3>1. dirs[d] \in Worktrees
        BY DEF StorageTypeOK
      <3>2. CASE dirs[d].at = "added"
        BY <1>1, <3>1, <3>2 DEF Worktrees, InFlight, OnDisk
      <3>3. CASE dirs[d].at = "reserved"
        BY <1>1, <3>1, <3>3 DEF Worktrees, InFlight, OnDisk
      <3>4. CASE dirs[d].at \notin {"added", "reserved"}
        BY <1>1, <3>1, <3>4 DEF InFlight, OnDisk
      <3> QED
        BY <3>2, <3>3, <3>4
    <2>2. dirs' \in [Dirs -> Worktrees]
      BY <1>1, <2>1
    <2>3. OnDisk' = OnDisk /\ InFlight' = {} /\ OnDisk \subseteq Dirs
      BY <2>1 DEF OnDisk, InFlight
    <2>4. TreeInv'
      <3>1. \A e \in OnDisk' : (dirs[e].branch = BranchOf(dirs[e].owner))'
        BY <1>0, <2>1, <2>3 DEF TreeInv, BranchOf
      <3>2. \A e \in OnDisk' : local'[dirs'[e].branch] # Absent
        BY <1>1, <2>1, <2>3 DEF TreeInv
      <3> QED
        BY <2>1, <2>3, <3>1, <3>2 DEF TreeInv
    <2>5. NameInv'
      <3>1. ASSUME NEW s \in Sessions, row[s].dir # NoDir
            PROVE  /\ dirs'[row[s].dir] = dirs[row[s].dir]
                   /\ row[s].dir \in Dirs
        <4>1. row[s].dir \in Dirs /\ dirs[row[s].dir].at \in {"disk", "gone"}
          BY <3>1 DEF NameInv, StorageTypeOK, Rows
        <4> QED
          BY <2>1, <4>1
      <3> QED
        BY <1>0, <2>3, <3>1 DEF NameInv, Has, BranchOf
    <2> QED
      BY <1>0, <1>1, <2>2, <2>4, <2>5 DEF Shape, StorageTypeOK
  <1>2. CASE /\ dirs' = [d \in Dirs |-> IF dirs[d].at = "free" THEN dirs[d] ELSE [at |-> "gone"]]
             /\ local' = [b \in Branches |-> Absent] /\ rescued' = {}
             /\ saved' = IF root = "below" THEN [s \in Sessions |-> {}] ELSE saved
    <2>1. [at |-> "gone"] \in Worktrees
      BY DEF Worktrees
    <2>2. dirs' \in [Dirs -> Worktrees]
      BY <1>2, <2>1 DEF StorageTypeOK
    <2>3. InFlight' = {} /\ OnDisk' = {}
      BY <1>2 DEF InFlight, OnDisk
    <2>4. NameInv'
      <3>1. \A d \in Dirs : dirs[d].at \in {"disk", "gone"} => dirs'[d].at = "gone"
        BY <1>2
      <3>2. \A s \in Sessions : row[s].dir # NoDir => row[s].dir \in Dirs
        BY DEF StorageTypeOK, Rows
      <3> QED
        BY <1>0, <2>3, <3>1, <3>2 DEF NameInv, Has
    <2>5. Absent \in Tips
      BY DEF Tips
    <2>6. local' \in [Branches -> Tips] /\ saved' \in [Sessions -> SUBSET Commits]
      BY <1>2, <2>5 DEF StorageTypeOK
    <2> QED
      BY <1>0, <1>2, <2>2, <2>3, <2>4, <2>6 DEF Shape, StorageTypeOK, TreeInv
  <1> QED
    BY <1>1, <1>2 DEF Crash

\* A step that leaves the worktrees alone, and may add to branches.
LEMMA SameTrees ==
  ASSUME StorageTypeOK, TreeInv, NameInv, UNCHANGED <<revisers, dirs, rescued>>,
         local' \in [Branches -> Tips], remote' \in [Branches -> Tips],
         \A b \in Branches : local[b] # Absent => local'[b] # Absent,
         \A s \in Sessions : row'[s].dir = row[s].dir
  PROVE  Shape
  <1>1. OnDisk' = OnDisk /\ InFlight' = InFlight /\ OnDisk \subseteq Dirs
    BY DEF OnDisk, InFlight
  <1>2. \A d \in OnDisk : dirs[d].branch \in Branches
    BY <1>1, TreeType DEF StorageTypeOK, OnDisk
  <1> QED
    BY <1>1, <1>2 DEF Shape, StorageTypeOK, TreeInv, NameInv, BranchOf, Has

LEMMA CommitTrees ==
  ASSUME StorageTypeOK, TreeInv, NameInv, NEW s \in Sessions, Commit(s)
  PROVE  /\ Shape /\ local[BranchOf(s)] \in SUBSET Commits
         /\ local' = [local EXCEPT ![BranchOf(s)] = @ \cup {made + 1}]
  <1>1. /\ local[BranchOf(s)] \in SUBSET Commits /\ made + 1 \in Commits
        /\ BranchOf(s) \in Branches /\ \A t \in Sessions : row'[t].dir = row[t].dir
    BY HasBranch, BranchType, CommitType DEF Commit
  <1>2. /\ local' = [local EXCEPT ![BranchOf(s)] = @ \cup {made + 1}]
        /\ UNCHANGED <<revisers, dirs, rescued, remote>>
    BY DEF Commit, Fixed
  <1>3. local[BranchOf(s)] \cup {made + 1} \in SUBSET Commits
    BY <1>1
  <1>4. local' \in [Branches -> Tips]
    BY <1>1, <1>2, <1>3, ContentType DEF StorageTypeOK
  <1>5. \A b \in Branches : local[b] # Absent => local'[b] # Absent
    BY <1>1, <1>2, <1>3, ContentType DEF StorageTypeOK
  <1> QED
    BY <1>1, <1>2, <1>4, <1>5, SameTrees DEF StorageTypeOK

LEMMA PublishTrees ==
  ASSUME StorageTypeOK, TreeInv, NameInv, NEW s \in Sessions, Publish(s)
  PROVE  /\ Shape /\ local[BranchOf(s)] \in SUBSET Commits
         /\ remote' = [remote EXCEPT ![BranchOf(s)] = local[BranchOf(s)]]
  <1>1. /\ local[BranchOf(s)] \in SUBSET Commits /\ BranchOf(s) \in Branches
    BY HasBranch, BranchType DEF Publish
  <1>2. /\ remote' = [remote EXCEPT ![BranchOf(s)] = local[BranchOf(s)]]
        /\ UNCHANGED <<revisers, dirs, rescued, local>>
    BY DEF Publish, Fixed
  <1>3. remote' \in [Branches -> Tips]
    BY <1>1, <1>2, ContentType DEF StorageTypeOK
  <1>4. \A t \in Sessions : row'[t].dir = row[t].dir
    BY DEF Publish, StorageTypeOK, Rows
  <1> QED
    BY <1>1, <1>2, <1>3, <1>4, SameTrees DEF StorageTypeOK

\* The other steps leave worktrees, branches and the names of worktrees alone.
Aside(s) == \/ Start(s) \/ LeadTimesOut(s) \/ Shipped(s) \/ RunFails(s) \/ Answer(s) \/ Resume(s)
            \/ Recovers(s)
Upkeep == Register \/ HealLists \/ ReconcileRows \/ Started

LEMMA AsideKeeps ==
  ASSUME StorageTypeOK, [StorageNext]_vars,
         \/ \E s \in Sessions : Aside(s)
         \/ Upkeep \/ UNCHANGED vars
  PROVE  /\ UNCHANGED <<revisers, root, dirs, Shelves>>
         /\ \A s \in Sessions :
              /\ row'[s].dir = row[s].dir /\ row'[s].saved = row[s].saved
              /\ row'[s].ledger = row[s].ledger
              /\ loop'[s] = "working" => loop[s] = "working"
  <1>1. CASE \E s \in Sessions : LeadTimesOut(s) \/ RunFails(s)
    BY <1>1, FailsType DEF LeadTimesOut, RunFails, Fixed, StorageTypeOK
  <1>2. CASE \E s \in Sessions : Shipped(s)
    <2>1. PICK s \in Sessions : Shipped(s)
      BY <1>2
    <2>2. Ends(s, "done", FALSE) /\ "done" \in Terminal
      BY <2>1 DEF Shipped, Terminal
    <2>3. /\ loop' = [loop EXCEPT ![s] = "none"]
          /\ \A t \in Sessions :
                /\ row'[t].dir = row[t].dir /\ row'[t].ledger = row[t].ledger
                /\ row'[t].saved = row[t].saved
      BY <2>2, EndsType
    <2> QED
      BY <2>1, <2>3 DEF Shipped, Fixed, StorageTypeOK
  <1>3. CASE \E s \in Sessions : Start(s) \/ Answer(s) \/ Resume(s)
    BY <1>3 DEF Start, Answer, Resume, Fixed, StorageTypeOK, Rows
  <1>4. CASE \E s \in Sessions : Recovers(s)
    <2>1. PICK s \in Sessions : Recovers(s)
      BY <1>4
    <2>2. /\ row[s] \in Rows
          /\ \E st \in Statuses, kept \in BOOLEAN :
                \/ row' = [row EXCEPT ![s].status = st]
                \/ row' = [row EXCEPT ![s] = Over(@, st, kept)]
      BY <2>1 DEF Recovers, AutoResume, StorageTypeOK, Statuses, Terminal
    <2>3. \A st \in Statuses, kept \in BOOLEAN :
             /\ Over(row[s], st, kept).dir = row[s].dir
             /\ Over(row[s], st, kept).ledger = row[s].ledger
             /\ Over(row[s], st, kept).saved = row[s].saved
      BY <2>2, OverType
    <2>4. loop' = loop \/ loop' = [loop EXCEPT ![s] = "planning"]
      BY <2>1 DEF Recovers, AutoResume
    <2>5. \A t \in Sessions : /\ row'[t].dir = row[t].dir /\ row'[t].saved = row[t].saved
                              /\ row'[t].ledger = row[t].ledger
      <3>1. PICK st \in Statuses, kept \in BOOLEAN :
                \/ row' = [row EXCEPT ![s].status = st]
                \/ row' = [row EXCEPT ![s] = Over(row[s], st, kept)]
        BY <2>2
      <3>2. CASE row' = [row EXCEPT ![s].status = st]
        BY <2>2, <3>2 DEF StorageTypeOK, Rows
      <3>3. CASE row' = [row EXCEPT ![s] = Over(row[s], st, kept)]
        <4>1. /\ row'[s] = Over(row[s], st, kept)
              /\ \A t \in Sessions : t # s => row'[t] = row[t]
          BY <3>3 DEF StorageTypeOK
        <4> QED
          BY <2>3, <4>1
      <3> QED
        BY <3>1, <3>2, <3>3
    <2>6. UNCHANGED <<revisers, root, dirs, Shelves>>
      BY <2>1 DEF Recovers, Fixed
    <2> QED
      BY <2>4, <2>5, <2>6 DEF StorageTypeOK
  <1>5. CASE Upkeep \/ UNCHANGED vars
    BY <1>5 DEF Upkeep, Register, HealLists, ReconcileRows, Started, Fixed, StorageTypeOK, Rows,
       Shelves, vars
  <1> QED
    BY <1>1, <1>2, <1>3, <1>4, <1>5 DEF Aside

\* One step, by what it may disturb.
LEMMA StepCases ==
  ASSUME [StorageNext]_vars
  PROVE  \/ \E s \in Sessions : Allocate(s) \/ Commit(s) \/ Publish(s) \/ Pause(s)
         \/ \E d \in Dirs : Checkout(d) \/ Allocated(d) \/ Release(d) \/ HealRemoves(d)
         \/ Crash
         \/ \E s \in Sessions : Aside(s)
         \/ Upkeep \/ UNCHANGED vars
  BY DEF StorageNext, Aside, Upkeep

LEMMA TreeNext ==
  ASSUME StorageTypeOK, TreeInv, NameInv, [StorageNext]_vars
  PROVE  Shape
  <1>1. CASE \E s \in Sessions : Allocate(s) \/ Commit(s) \/ Publish(s)
    BY <1>1, ReserveTrees, CommitTrees, PublishTrees
  <1>2. CASE \E s \in Sessions : Pause(s)
    <2>1. UNCHANGED <<revisers, dirs, rescued, local, remote>>
      BY <1>2 DEF Pause, Fixed
    <2>2. \A t \in Sessions : row'[t].dir = row[t].dir
      BY <1>2, PauseType
    <2>3. local' \in [Branches -> Tips] /\ remote' \in [Branches -> Tips]
      BY <2>1 DEF StorageTypeOK
    <2> QED
      BY <2>1, <2>2, <2>3, SameTrees
  <1>3. CASE \/ \E s \in Sessions : Aside(s)
             \/ Upkeep \/ UNCHANGED vars
    <2>1. UNCHANGED <<revisers, dirs, Shelves>> /\ \A t \in Sessions : row'[t].dir = row[t].dir
      BY <1>3, AsideKeeps
    <2>2. UNCHANGED <<local, remote, rescued>>
      BY <2>1 DEF Shelves
    <2>3. local' \in [Branches -> Tips] /\ remote' \in [Branches -> Tips]
      BY <2>2 DEF StorageTypeOK
    <2> QED
      BY <2>1, <2>2, <2>3, SameTrees
  <1>4. CASE Crash \/ \E d \in Dirs : Checkout(d) \/ Allocated(d) \/ Release(d) \/ HealRemoves(d)
    BY <1>4, CrashTrees, CheckoutTrees, AllocatedTrees, ReleaseTrees
  <1> QED
    BY <1>1, <1>2, <1>3, <1>4, StepCases

LEMMA TypeNext ==
  ASSUME StorageTypeOK, TreeInv, NameInv, [StorageNext]_vars
  PROVE  StorageTypeOK'
  <1>1. RowStep /\ Shape
    BY RowNext, TreeNext
  <1>2. /\ revisers' = revisers /\ root' = root
        /\ made' \in 0 .. MaxCommits /\ boots' \in 0 .. MaxBoots
    <2>1. made' = made \/ (made' = made + 1 /\ made < MaxCommits)
      BY ZenonT(40) DEF StorageNext, Start, Allocate, LeadTimesOut, Commit, Publish, Shipped, RunFails, Pause,
         Answer, Resume, Recovers, Checkout, Allocated, Release, HealRemoves, Crash, Register,
         HealLists, ReconcileRows, Started, Shelves, vars
    <2>2. boots' = boots \/ (boots' = boots + 1 /\ boots < MaxBoots)
      BY ZenonT(40) DEF StorageNext, Start, Allocate, LeadTimesOut, Commit, Publish, Shipped, RunFails, Pause,
         Answer, Resume, Recovers, Checkout, Allocated, Release, HealRemoves, Crash, Register,
         HealLists, ReconcileRows, Started, vars
    <2>3. revisers' = revisers /\ root' = root
      BY ZenonT(40) DEF StorageNext, Start, Allocate, LeadTimesOut, Commit, Publish, Shipped, RunFails, Pause,
         Answer, Resume, Recovers, Checkout, Allocated, Release, HealRemoves, Crash, Register,
         HealLists, ReconcileRows, Started, vars, Fixed
    <2> QED
      BY SMTT(30), <2>1, <2>2, <2>3, StorageAssumption DEF StorageTypeOK
  <1>3. releasing' \subseteq Dirs
    <2>1. CASE \E s \in Sessions : FinaliseFailed(s) \/ Shipped(s)
      <3>1. "done" \in Terminal
        BY DEF Terminal
      <3> QED
        BY <2>1, <3>1, FailsType, EndsType DEF Shipped
    <2>2. CASE releasing' \subseteq releasing
      BY <2>2 DEF StorageTypeOK
    <2>3. CASE \E d \in Dirs : Allocated(d)
      BY <2>3, AllocatedType
    <2> QED
      BY ZenonT(40), <2>1, <2>2, <2>3 DEF StorageNext, Start, Allocate, LeadTimesOut, Commit, Publish, RunFails,
         Pause, Answer, Resume, Recovers, Checkout, Release, HealRemoves, Crash, Register,
         HealLists, ReconcileRows, Started, vars
  <1>4. saved' \in [Sessions -> SUBSET Commits]
    <2>1. CASE \E s \in Sessions : Commit(s) \/ Pause(s)
      BY <2>1, CommitType, PauseType
    <2>2. CASE Crash
      BY <2>2, CrashTrees
    <2>3. CASE saved' = saved
      BY <2>3 DEF StorageTypeOK
    <2> QED
      BY ZenonT(40), <2>1, <2>2, <2>3 DEF StorageNext, Start, Allocate, LeadTimesOut, Publish, RunFails, Shipped,
         Answer, Resume, Recovers, Checkout, Allocated, Release, HealRemoves, Register,
         HealLists, ReconcileRows, Started, vars, Shelves
  <1>5. gateway' \in [at : {"up", "down", "recover"}] \cup Sweeps
    <2>0. gateway.at = "sweep" => gateway \in Sweeps
      BY DEF StorageTypeOK
    <2>1. CASE gateway' = gateway
      BY <2>1 DEF StorageTypeOK
    <2>2. CASE Register
      <3>1. Guarded \subseteq Dirs /\ OnDisk \subseteq Dirs
        BY DEF Guarded, InFlight, OnDisk, StorageTypeOK, Rows
      <3>2. gateway' \in Sweeps
        BY <2>2, <3>1 DEF Register, Sweeps
      <3> QED
        BY <3>2
    <2>3. CASE HealLists
      <3> DEFINE todo == {d \in (OnDisk \cap gateway.aged) \ gateway.guarded : Leftover(d)}
      <3>1. todo \subseteq Dirs
        BY DEF OnDisk
      <3>2. gateway' = [gateway EXCEPT !.listed = TRUE, !.todo = todo] /\ gateway \in Sweeps
        BY <2>0, <2>3 DEF HealLists
      <3> HIDE DEF todo
      <3>3. gateway' \in Sweeps
        BY <3>1, <3>2 DEF Sweeps
      <3> QED
        BY <3>3
    <2>4. CASE \E d \in Dirs : HealRemoves(d)
      <3>1. PICK d \in Dirs : HealRemoves(d)
        BY <2>4
      <3> DEFINE rest == gateway.todo \ {d}
      <3>2. gateway' = [gateway EXCEPT !.todo = rest] /\ gateway \in Sweeps
        BY <2>0, <3>1 DEF HealRemoves
      <3>3. rest \subseteq Dirs
        BY <3>2 DEF Sweeps
      <3> HIDE DEF rest
      <3>4. gateway' \in Sweeps
        BY <3>2, <3>3 DEF Sweeps
      <3> QED
        BY <3>4
    <2>5. CASE Crash \/ ReconcileRows \/ Started
      <3>1. gateway' \in {[at |-> "down"], [at |-> "recover"], [at |-> "up"]}
        BY <2>5 DEF Crash, ReconcileRows, Started
      <3> QED
        BY <3>1
    <2> QED
      BY <2>1, <2>2, <2>3, <2>4, <2>5 DEF StorageNext, Start, Allocate, LeadTimesOut, Commit,
         Publish, RunFails, Shipped, Pause, Answer, Resume, Recovers, Checkout, Allocated, Release,
         vars
  <1> QED
    BY <1>1, <1>2, <1>3, <1>4, <1>5 DEF StorageTypeOK, RowStep, Shape, Live, Running

-----------------------------------------------------------------------------
(* The invariant is inductive.                                              *)

LEMMA InitInv == StorageInit => IInv
  <1> SUFFICES ASSUME StorageInit PROVE IInv
    OBVIOUS
  <1>1. \A s \in Sessions :
           /\ row[s] = [status |-> "new", dir |-> NoDir, kept |-> FALSE, preserve |-> FALSE,
                        pr |-> FALSE, cycled |-> FALSE, old |-> FALSE, idle |-> FALSE,
                        ledger |-> {}, saved |-> {}]
           /\ loop[s] = "none"
    BY DEF StorageInit
  <1>2. \A d \in Dirs : dirs[d] = [at |-> "free"]
    BY DEF StorageInit
  <1>3. InFlight = {} /\ OnDisk = {}
    BY <1>2 DEF InFlight, OnDisk
  <1>4. StorageTypeOK
    <2>1. [revisers |-> revisers, root |-> root] \in Setups
      <3>1. PICK setup \in Setups : revisers = setup.revisers /\ root = setup.root
        BY DEF StorageInit
      <3>2. setup \in [revisers : SUBSET Sessions, root : {"unset", "apart", "below"}]
        BY StorageAssumption
      <3>3. setup = [revisers |-> setup.revisers, root |-> setup.root]
        BY <3>2
      <3> QED
        BY <3>1, <3>3
    <2>2. row \in [Sessions -> Rows]
      <3>1. [status |-> "new", dir |-> NoDir, kept |-> FALSE, preserve |-> FALSE,
             pr |-> FALSE, cycled |-> FALSE, old |-> FALSE, idle |-> FALSE,
             ledger |-> {}, saved |-> {}] \in Rows
        BY DEF Rows, Statuses
      <3> QED
        BY <3>1 DEF StorageInit
    <2>3. dirs \in [Dirs -> Worktrees] /\ local \in [Branches -> Tips] /\ remote \in [Branches -> Tips]
      BY ContentType DEF StorageInit, Worktrees, Tips
    <2>4. \A s \in Live : row[s].status \in {"planning", "executing", "reviewing"}
      BY <1>1 DEF Live
    <2>5. gateway \in [at : {"up", "down", "recover"}] \cup Sweeps
      BY DEF StorageInit
    <2>6. /\ loop \in [Sessions -> {"none", "planning", "allocating", "working"}]
          /\ rescued \subseteq Commits /\ saved \in [Sessions -> SUBSET Commits]
          /\ releasing \subseteq Dirs
      BY DEF StorageInit
    <2>7. made \in 0 .. MaxCommits /\ boots \in 0 .. MaxBoots
      BY NumberType DEF StorageInit
    <2> QED
      BY <2>1, <2>2, <2>3, <2>4, <2>5, <2>6, <2>7 DEF StorageTypeOK
  <1>5. TreeInv /\ NameInv /\ BundleInv /\ ParkInv
    BY <1>1, <1>3 DEF TreeInv, NameInv, BundleInv, ParkInv, StorageInit
  <1>6. SweepInv /\ WorksOnItsCommits /\ DurableIsDurable
    BY <1>1 DEF SweepInv, StorageInit, WorksOnItsCommits, DurableIsDurable
  <1> QED
    BY <1>4, <1>5, <1>6 DEF IInv

\* A bundle outlives the volume where it is written at all.
LEMMA BundleNext ==
  ASSUME StorageTypeOK, TreeInv, NameInv, BundleInv, DurableIsDurable, [StorageNext]_vars
  PROVE  BundleInv' /\ DurableIsDurable'
  <1>1. root' = root
    BY ZenonT(40) DEF StorageNext, Start, Allocate, LeadTimesOut, Commit, Publish, Shipped, RunFails, Pause,
       Answer, Resume, Recovers, Checkout, Allocated, Release, HealRemoves, Crash, Register,
       HealLists, ReconcileRows, Started, vars, Fixed
  <1>2. CASE \E s \in Sessions : Commit(s) \/ Pause(s)
    <2>1. \A t \in Sessions :
             /\ saved[t] \subseteq saved'[t]
             /\ \/ row'[t].saved = row[t].saved
                \/ CheckpointAllowed /\ row'[t].saved \subseteq saved'[t]
      BY <1>2, CommitType, PauseType
    <2> QED
      BY <1>1, <2>1 DEF BundleInv, DurableIsDurable, CheckpointAllowed
  <1>3. CASE Crash
    <2>1. \A s \in Sessions : row'[s].saved = row[s].saved
      BY <1>3, CrashRows
    <2>2. saved' = saved \/ (root = "below" /\ saved' = [s \in Sessions |-> {}])
      BY <1>3, CrashTrees
    <2> QED
      BY <1>1, <2>1, <2>2 DEF BundleInv, DurableIsDurable
  <1>4. CASE saved' = saved /\ \A s \in Sessions : row'[s].saved = row[s].saved
    BY <1>1, <1>4 DEF BundleInv, DurableIsDurable
  <1>5. CASE \E s \in Sessions : Allocate(s) \/ Publish(s)
    BY SMTT(30), <1>4, <1>5, FailsType DEF Allocate, Publish, Shelves, StorageTypeOK, Rows
  <1>6. CASE \E d \in Dirs : Checkout(d) \/ Allocated(d) \/ Release(d) \/ HealRemoves(d)
    BY <1>4, <1>6, AllocatedType DEF Allocated, Checkout, Release, HealRemoves, Shelves
  <1>7. CASE \/ \E s \in Sessions : Aside(s)
             \/ Upkeep \/ UNCHANGED vars
    BY <1>4, <1>7, AsideKeeps DEF Shelves
  <1> QED
    BY SMTT(30), <1>2, <1>3, <1>5, <1>6, <1>7, StepCases

\* What happens to the branches: a commit adds to one, a checkout resets one
\* and parks what it held, a publication copies one, or the volume is lost.
LEMMA BranchStep ==
  ASSUME StorageTypeOK, TreeInv, NameInv, [StorageNext]_vars
  PROVE  \/ UNCHANGED <<local, remote, rescued>>
         \/ \E b \in Branches, c \in Commits :
              /\ local[b] \in SUBSET Commits
              /\ local' = [local EXCEPT ![b] = @ \cup {c}] /\ UNCHANGED <<remote, rescued>>
         \/ \E b \in Branches :
              /\ local[b] \in SUBSET Commits /\ Content(remote[b]) \subseteq local[b]
              /\ remote' = [remote EXCEPT ![b] = local[b]] /\ UNCHANGED <<local, rescued>>
         \/ \E b \in Branches, start \in SUBSET Commits :
              /\ local' = [local EXCEPT ![b] = start]
              /\ rescued' = rescued \cup (Content(local[b]) \ start) /\ UNCHANGED remote
         \/ /\ local' = [b \in Branches |-> Absent] /\ rescued' = {} /\ UNCHANGED remote
  <1>1. CASE \E s \in Sessions : Commit(s)
    <2>1. PICK s \in Sessions : Commit(s)
      BY <1>1
    <2>2. /\ BranchOf(s) \in Branches /\ made + 1 \in Commits /\ local[BranchOf(s)] \in SUBSET Commits
          /\ local' = [local EXCEPT ![BranchOf(s)] = @ \cup {made + 1}]
          /\ UNCHANGED <<remote, rescued>>
      BY <2>1, BranchType, CommitType, CommitTrees DEF Commit
    <2> QED
      BY <2>2
  <1>2. CASE \E s \in Sessions : Publish(s)
    <2>1. PICK s \in Sessions : Publish(s)
      BY <1>2
    <2>2. /\ BranchOf(s) \in Branches /\ local[BranchOf(s)] \in SUBSET Commits
          /\ remote' = [remote EXCEPT ![BranchOf(s)] = local[BranchOf(s)]]
          /\ Content(remote[BranchOf(s)]) \subseteq local[BranchOf(s)]
          /\ UNCHANGED <<local, rescued>>
      BY <2>1, BranchType, PublishTrees DEF Publish
    <2> QED
      BY <2>2
  <1>3. CASE \E d \in Dirs : Checkout(d)
    <2>1. PICK d \in Dirs : Checkout(d)
      BY <1>3
    <2>2. UNCHANGED remote
      BY <2>1 DEF Checkout
    <2>3. dirs[d].owner \in Sessions /\ dirs[d].branch = BranchOf(dirs[d].owner)
      BY <2>1, CheckoutFacts
    <2>4. dirs[d].branch \in Branches
      BY <2>3, BranchType
    <2>5. \E start \in SUBSET Commits :
               /\ local' = [local EXCEPT ![dirs[d].branch] = start]
               /\ rescued' = rescued \cup (Content(local[dirs[d].branch]) \ start)
      BY <2>1, CheckoutFacts
    <2> QED
      BY <2>2, <2>4, <2>5
  <1>4. CASE Crash
    BY <1>4, CrashTrees DEF Crash
  <1>5. CASE \E s \in Sessions : Allocate(s) \/ Pause(s)
    BY <1>5 DEF Allocate, Pause, Shelves
  <1>6. CASE \E d \in Dirs : Allocated(d) \/ Release(d) \/ HealRemoves(d)
    BY <1>6 DEF Allocated, Release, HealRemoves, Shelves
  <1>7. CASE \/ \E s \in Sessions : Aside(s)
             \/ Upkeep \/ UNCHANGED vars
    BY <1>7, AsideKeeps DEF Shelves
  <1> QED
    BY <1>1, <1>2, <1>3, <1>4, <1>5, <1>6, <1>7, StepCases

LEMMA ParkNext ==
  ASSUME StorageTypeOK, TreeInv, NameInv, ParkInv, [StorageNext]_vars
  PROVE  ParkInv'
  <1>1. CASE UNCHANGED <<local, remote, rescued>>
    BY <1>1 DEF ParkInv
  <1>2. CASE \E b \in Branches, new \in SUBSET Commits : local' = [local EXCEPT ![b] = new]
    BY <1>2, ContentType DEF ParkInv, StorageTypeOK
  <1>3. CASE UNCHANGED <<local, rescued>>
    BY <1>3 DEF ParkInv
  <1>4. CASE rescued' = {}
    BY <1>4 DEF ParkInv
  <1>5. CASE \E b \in Branches, c \in Commits :
              /\ local[b] \in SUBSET Commits /\ local' = [local EXCEPT ![b] = @ \cup {c}]
    <2>1. PICK b \in Branches, c \in Commits :
              /\ local[b] \in SUBSET Commits /\ local' = [local EXCEPT ![b] = local[b] \cup {c}]
      BY <1>5
    <2>2. local[b] \cup {c} \in SUBSET Commits
      BY <2>1
    <2> QED
      BY <1>2, <2>1, <2>2
  <1> QED
    BY <1>1, <1>2, <1>3, <1>4, <1>5, BranchStep

\* A run keeps the branch its worktree has: whoever resets the branch takes the
\* worktree away, and whoever else commits to it adds.
LEMMA WorkNext ==
  ASSUME StorageTypeOK, TreeInv, NameInv, WorksOnItsCommits, [StorageNext]_vars
  PROVE  WorksOnItsCommits'
  <1> SUFFICES ASSUME NEW s \in Sessions, loop'[s] = "working", row'[s].dir \in OnDisk'
               PROVE  row'[s].ledger \subseteq Content(local'[BranchOf(s)])
    <2>1. revisers' = revisers
      BY DEF StorageNext, Start, Allocate, LeadTimesOut, Commit, Publish, Shipped, RunFails, Pause,
         Answer, Resume, Recovers, Checkout, Allocated, Release, HealRemoves, Crash, Register,
         HealLists, ReconcileRows, Started, vars, Fixed
    <2> QED
      BY SMTT(30), <2>1 DEF WorksOnItsCommits, Has, OnItsBranch, BranchOf, Content, Absent
  <1>0. BranchOf(s) \in Branches /\ NoDir \notin Dirs
    BY BranchType, NumberType
  <1>1. ASSUME loop[s] = "working", row[s].dir \in OnDisk
        PROVE  row[s].ledger \subseteq Content(local[BranchOf(s)])
    BY <1>1 DEF WorksOnItsCommits, Has, OnItsBranch
  <1>2. CASE /\ dirs' = dirs /\ local' = local /\ row'[s].dir = row[s].dir
             /\ row'[s].ledger = row[s].ledger /\ loop[s] = "working"
    BY <1>1, <1>2 DEF OnDisk
  <1>3. CASE \E t \in Sessions : Commit(t)
    <2>1. PICK t \in Sessions : Commit(t)
      BY <1>3
    <2>2. /\ loop' = loop /\ dirs' = dirs /\ row'[s].dir = row[s].dir
          /\ row'[s].ledger = IF s = t THEN row[s].ledger \cup {made + 1} ELSE row[s].ledger
          /\ made + 1 \in Commits
      BY <2>1, CommitType DEF Commit
    <2>3. /\ local[BranchOf(t)] \in SUBSET Commits /\ BranchOf(t) \in Branches
          /\ local' = [local EXCEPT ![BranchOf(t)] = @ \cup {made + 1}]
      BY <2>1, CommitTrees, BranchType
    <2>4. row[s].ledger \subseteq Content(local[BranchOf(s)])
      BY <1>1, <2>2 DEF OnDisk
    <2>5. CASE BranchOf(s) = BranchOf(t)
      <3>1. local'[BranchOf(s)] = local[BranchOf(s)] \cup {made + 1}
        BY <1>0, <2>3, <2>5 DEF StorageTypeOK
      <3>2. local'[BranchOf(s)] \in SUBSET Commits
        BY <2>2, <2>3, <2>5, <3>1
      <3>3. /\ Content(local'[BranchOf(s)]) = local[BranchOf(s)] \cup {made + 1}
            /\ Content(local[BranchOf(s)]) = local[BranchOf(s)]
        BY <2>3, <2>5, <3>1, <3>2, ContentType
      <3> QED
        BY <2>2, <2>4, <3>3
    <2>6. CASE BranchOf(s) # BranchOf(t)
      <3>1. local'[BranchOf(s)] = local[BranchOf(s)] /\ s # t
        BY <1>0, <2>3, <2>6 DEF StorageTypeOK
      <3> QED
        BY <2>2, <2>4, <3>1
    <2> QED
      BY <2>5, <2>6
  <1>4. CASE \E d \in Dirs : Checkout(d)
    <2>1. PICK d \in Dirs : Checkout(d)
      BY <1>4
    <2>2. row' = row /\ loop' = loop /\ dirs[d].at = "reserved"
      BY <2>1 DEF Checkout
    <2>3. row[s].dir \in Dirs /\ row[s].dir # d /\ row[s].dir # NoDir
      BY <1>0, <2>2 DEF OnDisk, NameInv
    <2>4. \A e \in Dirs \ {d} :
               \/ dirs'[e] = dirs[e] /\ (e \in OnDisk => dirs[e].branch # dirs[d].branch)
               \/ dirs'[e].at = "gone" /\ dirs[e].at = "disk"
      BY <2>1, CheckoutFacts
    <2>5. row[s].dir \in OnDisk /\ dirs[row[s].dir].branch # dirs[d].branch
      BY <2>2, <2>3, <2>4 DEF OnDisk
    <2>6. dirs[row[s].dir].branch = BranchOf(s)
      BY <2>3, <2>5 DEF NameInv, Has
    <2>7. \E start \in SUBSET Commits : local' = [local EXCEPT ![dirs[d].branch] = start]
      BY SMTT(30), <2>1, CheckoutFacts
    <2>8. local'[BranchOf(s)] = local[BranchOf(s)]
      BY <1>0, <2>5, <2>6, <2>7 DEF StorageTypeOK
    <2> QED
      BY <1>1, <2>2, <2>5, <2>8
  <1>5. CASE \E d \in Dirs : Allocated(d)
    <2>1. PICK d \in Dirs : Allocated(d)
      BY <1>5
    <2>2. /\ local' = local /\ row'[s].ledger = row[s].ledger
          /\ \/ loop[s] = "working" /\ row'[s] = row[s]
             \/ LedgerReachable(s)
      BY <2>1, AllocatedType DEF Allocated, Shelves
    <2>3. OnDisk' = OnDisk
      BY <2>1 DEF Allocated, OnDisk, StorageTypeOK
    <2> QED
      BY <1>1, <2>2, <2>3 DEF LedgerReachable, OnItsBranch
  <1>6. CASE \E t \in Sessions : Allocate(t) \/ Publish(t) \/ Pause(t)
    <2>1. PICK t \in Sessions : Allocate(t) \/ Publish(t) \/ Pause(t)
      BY <1>6
    <2>2. local' = local
      BY <2>1 DEF Allocate, Publish, Pause, Shelves
    <2>3. row'[s].dir = row[s].dir /\ row'[s].ledger = row[s].ledger
      BY <2>1, FailsType, PauseType DEF Allocate, Publish, StorageTypeOK, Rows
    <2>4. loop[s] = "working"
      BY <2>1, FailsType DEF Allocate, Publish, Pause, StorageTypeOK
    <2>5. OnDisk' \subseteq OnDisk
      BY <2>1 DEF Allocate, Publish, Pause, OnDisk, StorageTypeOK
    <2> QED
      BY <1>1, <2>2, <2>3, <2>4, <2>5
  <1>7. CASE \E d \in Dirs : Release(d) \/ HealRemoves(d)
    <2>1. local' = local /\ row' = row /\ loop' = loop
      BY <1>7 DEF Release, HealRemoves, Shelves
    <2>2. OnDisk' \subseteq OnDisk
      BY <1>7 DEF Release, HealRemoves, OnDisk, StorageTypeOK
    <2> QED
      BY <1>1, <2>1, <2>2
  <1>8. CASE Crash
    BY <1>8, CrashRows
  <1>9. CASE \/ \E t \in Sessions : Aside(t)
             \/ Upkeep \/ UNCHANGED vars
    BY <1>2, <1>9, AsideKeeps DEF Shelves
  <1> QED
    BY <1>3, <1>4, <1>5, <1>6, <1>7, <1>8, <1>9, StepCases


\* A worktree that is there, or was, is never an allocation again.
LEMMA SettledTrees ==
  ASSUME StorageTypeOK, TreeInv, NameInv, [StorageNext]_vars,
         NEW d \in Dirs, dirs[d].at \in {"disk", "gone"}
  PROVE  dirs'[d].at \in {"disk", "gone"}
  <1>1. CASE dirs' = dirs
    BY <1>1
  <1>2. CASE \E e \in Dirs : Checkout(e)
    BY <1>2, CheckoutFacts DEF Checkout
  <1>3. CASE \E s \in Sessions : Allocate(s)
    BY <1>3 DEF Allocate, StorageTypeOK
  <1>4. CASE \E e \in Dirs : Allocated(e) \/ Release(e) \/ HealRemoves(e)
    BY <1>4 DEF Allocated, Release, HealRemoves, StorageTypeOK
  <1>5. CASE Crash
    <2>1. d \notin InFlight /\ dirs[d].at \notin {"added", "free"}
      BY DEF InFlight
    <2>2. CASE dirs' = [e \in Dirs |-> CASE dirs[e].at = "added" -> [dirs[e] EXCEPT !.at = "disk"]
                                         [] e \in InFlight \ OnDisk -> [at |-> "gone"]
                                         [] OTHER -> dirs[e]]
      <3>1. dirs'[d] = dirs[d]
        BY <2>1, <2>2
      <3> QED
        BY <3>1
    <2>3. CASE dirs' = [e \in Dirs |-> IF dirs[e].at = "free" THEN dirs[e] ELSE [at |-> "gone"]]
      BY <2>1, <2>3
    <2> QED
      BY <1>5, <2>2, <2>3 DEF Crash
  <1>6. CASE \E s \in Sessions : Commit(s) \/ Publish(s) \/ Pause(s)
    BY <1>1, <1>6 DEF Commit, Publish, Pause
  <1>7. CASE \/ \E t \in Sessions : Aside(t)
             \/ Upkeep \/ UNCHANGED vars
    BY <1>1, <1>7, AsideKeeps
  <1> QED
    BY <1>2, <1>3, <1>4, <1>5, <1>6, <1>7, StepCases

\* A worktree no session needs is needed by none later.
LEMMA LeftoverStays ==
  ASSUME StorageTypeOK, TreeInv, NameInv, [StorageNext]_vars,
         NEW d \in Dirs, dirs[d].at \in {"disk", "gone"}, Leftover(d)
  PROVE  Leftover(d)'
  <1> SUFFICES ASSUME NEW s \in Sessions, row'[s].dir = d
               PROVE  row'[s].status \in Terminal /\ ~row'[s].kept
    BY DEF Leftover
  <1>1. RowStep
    BY RowNext
  <1>2. row[s].dir = d
    <2>1. CASE \E e \in Dirs : Allocated(e)
      <3>1. PICK e \in Dirs : Allocated(e)
        BY <2>1
      <3>2. row'[s] = row[s] \/ row'[s].dir = e
        BY <3>1, AllocatedType
      <3>3. dirs[e].at = "added"
        BY SMTT(30), <3>1 DEF Allocated
      <3> QED
        BY <3>2, <3>3
    <2> QED
      BY <1>1, <2>1 DEF RowStep
  <1> QED
    BY <1>1, <1>2 DEF Leftover, RowStep

\* What the sweep may remove stays what it was when the directories were listed.
LEMMA SweepNext ==
  ASSUME StorageTypeOK, TreeInv, NameInv, SweepInv, [StorageNext]_vars
  PROVE  SweepInv'
  <1>0. gateway.at = "sweep" => gateway \in Sweeps
    BY DEF StorageTypeOK
  <1>1. CASE gateway' = gateway
    <2> SUFFICES ASSUME gateway.at = "sweep" PROVE SweepInv'
      BY <1>1 DEF SweepInv
    <2>1. gateway.todo \subseteq Dirs /\ gateway.aged \subseteq Dirs
      BY <1>0 DEF Sweeps
    <2>2. \A d \in gateway.aged \ gateway.guarded : dirs'[d].at \in {"disk", "gone"}
      BY <2>1, SettledTrees DEF SweepInv
    <2>3. \A d \in gateway.todo : dirs'[d].at \in {"disk", "gone"} /\ Leftover(d)'
      BY <2>1, SettledTrees, LeftoverStays DEF SweepInv
    <2> QED
      BY <1>1, <2>2, <2>3 DEF SweepInv
  <1>2. CASE Register
    <2>1. \A d \in OnDisk \ Guarded : dirs[d].at \in {"disk", "gone"}
      BY NumberType DEF OnDisk, Guarded, InFlight
    <2> QED
      BY <1>2, <2>1 DEF Register, SweepInv
  <1>3. CASE HealLists
    <2> DEFINE todo == {d \in (OnDisk \cap gateway.aged) \ gateway.guarded : Leftover(d)}
    <2>1. \A d \in todo : dirs[d].at \in {"disk", "gone"} /\ Leftover(d)
      BY <1>3 DEF HealLists, SweepInv
    <2>2. gateway' = [gateway EXCEPT !.listed = TRUE, !.todo = todo] /\ dirs' = dirs /\ row' = row
          /\ gateway \in Sweeps
      BY <1>0, <1>3 DEF HealLists
    <2> HIDE DEF todo
    <2>3. gateway'.todo = todo /\ gateway'.aged = gateway.aged /\ gateway'.guarded = gateway.guarded
      BY <2>2 DEF Sweeps
    <2>4. \A d \in todo : Leftover(d)'
      BY <2>1, <2>2 DEF Leftover
    <2> QED
      BY <1>3, <2>1, <2>2, <2>3, <2>4 DEF SweepInv, HealLists
  <1>4. CASE \E d \in Dirs : HealRemoves(d)
    <2>1. PICK d \in Dirs : HealRemoves(d)
      BY <1>4
    <2> DEFINE rest == gateway.todo \ {d}
    <2>2. gateway' = [gateway EXCEPT !.todo = rest] /\ gateway \in Sweeps /\ gateway.at = "sweep"
      BY <1>0, <2>1 DEF HealRemoves
    <2>3. rest \subseteq gateway.todo
      OBVIOUS
    <2> HIDE DEF rest
    <2>4. gateway'.todo = rest /\ gateway'.aged = gateway.aged /\ gateway'.guarded = gateway.guarded
      BY <2>2 DEF Sweeps
    <2>5. gateway.todo \subseteq Dirs /\ gateway.aged \subseteq Dirs
      BY <2>2 DEF Sweeps
    <2>6. \A e \in gateway.aged \ gateway.guarded : dirs'[e].at \in {"disk", "gone"}
      BY <2>2, <2>5, SettledTrees DEF SweepInv
    <2>7. \A e \in gateway.todo : dirs'[e].at \in {"disk", "gone"} /\ Leftover(e)'
      BY <2>2, <2>5, SettledTrees, LeftoverStays DEF SweepInv
    <2> QED
      BY <2>3, <2>4, <2>6, <2>7 DEF SweepInv
  <1>5. CASE Crash \/ ReconcileRows \/ Started
    <2>1. gateway' \in {[at |-> "down"], [at |-> "recover"], [at |-> "up"]}
      BY <1>5 DEF Crash, ReconcileRows, Started
    <2>2. gateway'.at # "sweep"
      BY <2>1
    <2> QED
      BY <2>2 DEF SweepInv
  <1> QED
    BY <1>1, <1>2, <1>3, <1>4, <1>5 DEF StorageNext, Start, Allocate, LeadTimesOut, Commit,
       Publish, RunFails, Shipped, Pause, Answer, Resume, Recovers, Checkout, Allocated, Release,
       vars

LEMMA InvNext == IInv /\ [StorageNext]_vars => IInv'
  <1> SUFFICES ASSUME IInv, [StorageNext]_vars PROVE IInv'
    OBVIOUS
  <1>1. TreeInv' /\ NameInv'
    BY TreeNext DEF IInv, Shape
  <1> QED
    BY <1>1, TypeNext, BundleNext, ParkNext, SweepNext, WorkNext DEF IInv

LEMMA InvHolds == StorageSpec => []IInv
  BY InitInv, InvNext, PTL DEF StorageSpec

-----------------------------------------------------------------------------
(* Results.                                                                 *)

\* Every reachable state is well typed; no run is live under a terminal row.
THEOREM TypeHolds == StorageSpec => []StorageTypeOK
  BY InvHolds, PTL DEF IInv

\* Whoever resets a branch or needs it meanwhile, a run that has its worktree
\* finds on its branch every commit it recorded (reconcileBranchWorktrees,
\* checkLedgerReachability).
THEOREM WorkHolds == StorageSpec => []WorksOnItsCommits
  BY InvHolds, PTL DEF IInv

\* The checkpoint a row names can be restored, after any loss of the volume
\* (createCheckpoint, checkpointRootIsSafe).
THEOREM DurableHolds == StorageSpec => []DurableIsDurable
  BY InvHolds, PTL DEF IInv

\* No commit is lost while the volume is there: what a checkout orphans is
\* parked (rescueBranchIfAhead), and a push only ever adds.
THEOREM SurviveHolds == StorageSpec => CommitsSurvive
  <1>1. IInv /\ [StorageNext]_vars =>
          [(\E b \in Branches : local'[b] # Absent) \/ local' = local => Kept \subseteq Kept']_vars
    <2> SUFFICES ASSUME IInv, [StorageNext]_vars,
                        (\E b \in Branches : local'[b] # Absent) \/ local' = local
                 PROVE  Kept \subseteq Kept'
      OBVIOUS
    <2>0. StorageTypeOK /\ TreeInv /\ NameInv /\ ParkInv
      BY DEF IInv
    <2> SUFFICES ASSUME NEW c, c \in Kept PROVE c \in Kept'
      OBVIOUS
    <2>1. /\ \A b \in Branches : local[b] \in Tips /\ remote[b] \in Tips
          /\ c \in rescued \/ \E b \in Branches : c \in Content(local[b]) \cup Content(remote[b])
      BY <2>0 DEF StorageTypeOK, Kept
    <2>2. SUFFICES c \in rescued' \/ \E b \in Branches : c \in Content(local'[b]) \cup Content(remote'[b])
      BY DEF Kept, Content, Absent
    <2>3. CASE UNCHANGED <<local, remote, rescued>>
      BY <2>1, <2>3
    <2>4. ASSUME NEW b \in Branches, NEW x \in Commits, local[b] \in SUBSET Commits,
                 local' = [local EXCEPT ![b] = @ \cup {x}], UNCHANGED <<remote, rescued>>
          PROVE  c \in rescued' \/ \E e \in Branches : c \in Content(local'[e]) \cup Content(remote'[e])
      <3>1. local'[b] = local[b] \cup {x} /\ \A e \in Branches : e # b => local'[e] = local[e]
        BY <2>0, <2>4 DEF StorageTypeOK
      <3>2. local'[b] \in SUBSET Commits
        BY <2>4, <3>1
      <3>3. Content(local'[b]) = local[b] \cup {x} /\ Content(local[b]) = local[b]
        BY <2>4, <3>1, <3>2, ContentType
      <3> QED
        BY <2>1, <2>4, <3>1, <3>3
    <2>5. ASSUME NEW b \in Branches, local[b] \in SUBSET Commits, Content(remote[b]) \subseteq local[b],
                 remote' = [remote EXCEPT ![b] = local[b]], UNCHANGED <<local, rescued>>
          PROVE  c \in rescued' \/ \E e \in Branches : c \in Content(local'[e]) \cup Content(remote'[e])
      <3>1. remote'[b] = local[b] /\ \A e \in Branches : e # b => remote'[e] = remote[e]
        BY <2>0, <2>5 DEF StorageTypeOK
      <3>2. Content(local[b]) = local[b]
        BY <2>5, ContentType
      <3> QED
        BY <2>1, <2>5, <3>1, <3>2
    <2>6. ASSUME NEW b \in Branches, NEW start \in SUBSET Commits,
                 local' = [local EXCEPT ![b] = start],
                 rescued' = rescued \cup (Content(local[b]) \ start), UNCHANGED remote
          PROVE  c \in rescued' \/ \E e \in Branches : c \in Content(local'[e]) \cup Content(remote'[e])
      <3>1. local'[b] = start /\ \A e \in Branches : e # b => local'[e] = local[e]
        BY <2>0, <2>6 DEF StorageTypeOK
      <3>2. Content(local'[b]) = start
        BY <3>1, ContentType
      <3> QED
        BY <2>1, <2>6, <3>1, <3>2
    <2>7. CASE local' = [b \in Branches |-> Absent] /\ rescued' = {} /\ UNCHANGED remote
      <3>1. \A b \in Branches : local[b] = Absent
        BY <2>7
      <3>2. rescued = {} /\ \A b \in Branches : Content(local[b]) = {}
        BY <2>0, <3>1 DEF ParkInv, Content
      <3> QED
        BY <2>1, <2>7, <3>2
    <2> QED
      BY <2>0, <2>3, <2>4, <2>5, <2>6, <2>7, BranchStep
  <1> QED
    BY <1>1, InvHolds, PTL DEF StorageSpec, CommitsSurvive

\* The sweep of a starting gateway removes no worktree that a session, or an
\* allocation, still needs (inFlightWorktreePaths, healWorktreeRegistry).
THEOREM SparesHolds == StorageSpec => HealSparesWork
  <1>1. IInv /\ [StorageNext]_vars =>
          [gateway.at = "sweep" /\ gateway' # gateway /\ gateway'.at # "down" =>
             \A d \in Dirs : Held(d) /\ d \in OnDisk => d \in OnDisk']_vars
    <2> SUFFICES ASSUME IInv, [StorageNext]_vars, gateway.at = "sweep", gateway' # gateway,
                        gateway'.at # "down", NEW d \in Dirs, Held(d), d \in OnDisk
                 PROVE  d \in OnDisk'
      BY SMTT(30)
    <2>1. \/ HealLists \/ ReconcileRows
          \/ \E e \in Dirs : HealRemoves(e)
      <3>1. ~Crash /\ ~Register /\ ~Started
        <4>1. Crash => gateway' = [at |-> "down"]
          BY DEF Crash
        <4> QED
          BY <4>1 DEF Register, Started
      <3> QED
        BY <3>1 DEF StorageNext, Start, Allocate, LeadTimesOut, Commit, Publish, RunFails, Shipped,
           Pause, Answer, Resume, Recovers, Checkout, Allocated, Release, vars
    <2>2. CASE HealLists \/ ReconcileRows
      BY <2>2 DEF HealLists, ReconcileRows, OnDisk
    <2>3. ASSUME NEW e \in Dirs, HealRemoves(e) PROVE d \in OnDisk'
      <3>1. e # d
        BY <2>3 DEF IInv, SweepInv, HealRemoves, Held, Leftover, InFlight
      <3> QED
        BY <2>3, <3>1 DEF HealRemoves, OnDisk, IInv, StorageTypeOK
    <2> QED
      BY <2>1, <2>2, <2>3
  <1> QED
    BY <1>1, InvHolds, PTL DEF StorageSpec, HealSparesWork
=============================================================================
