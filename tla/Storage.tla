------------------------------ MODULE Storage ------------------------------
(***************************************************************************)
(* Where a session's work lives: the worktree that adapters/git-worktree.ts*)
(* allocates from one bare clone, the branches, rescue refs and bundles    *)
(* that hold its commits, and those who remove worktrees: a session that   *)
(* ends, an allocation that needs the branch, and the sweep of             *)
(* state/worktree-heal.ts that every start of the gateway makes before     *)
(* state/storage-health.ts reconciles the rows with the disk and           *)
(* state/recovery.ts takes up the sessions of the process that died.       *)
(* A branch is the set of its commits past the base branch; commits are    *)
(* numbered in the order they are made.                                    *)
(***************************************************************************)
EXTENDS Naturals, FiniteSets

CONSTANTS Sessions,
          PrBranch,      \* the branch of a pull request that sessions revise
          Setups,        \* candidates for who revises it and where checkpoint_root lies
          MaxDirs,       \* bound: worktrees ever allocated
          MaxCommits,    \* bound: commits ever made
          MaxBoots       \* bound: restarts and registrations of the plugin

ASSUME StorageAssumption ==
    /\ PrBranch \notin Sessions
    /\ Setups \subseteq [revisers : SUBSET Sessions, root : {"unset", "apart", "below"}]
    /\ {MaxDirs, MaxCommits, MaxBoots} \subseteq Nat

Commits == 1 .. MaxCommits
Dirs == 1 .. MaxDirs
NoDir == 0
Branches == Sessions \cup {PrBranch}
Absent == {0}        \* a branch that does not exist

VARIABLES
    revisers,  \* the sessions whose brief pins PrBranch
    root,      \* storage.checkpoint_root: unset, apart from the worktrees or below them
    row,       \* row[s]: the session row's columns about its storage
    loop,      \* loop[s]: none, planning, allocating, working
    dirs,      \* dirs[d]: the worktree, and how far its allocation is
    local,     \* local[b]: the branch in the bare clone
    remote,    \* remote[b]: the branch on GitHub
    rescued,   \* commits under refs/harness-rescue
    saved,     \* saved[s]: the commits in the bundles of s
    made,      \* how many commits were made
    releasing, \* worktrees whose removal a session's end has scheduled
    gateway,   \* what the gateway's start is doing, and its sweep's sets
    boots

vars == <<revisers, root, row, loop, dirs, local, remote, rescued, saved, made,
          releasing, gateway, boots>>

BranchOf(s) == IF s \in revisers THEN PrBranch ELSE s

(* "failed" stands for an aborted session as well.                          *)
Terminal == {"done", "failed"}
Live == {s \in Sessions : loop[s] # "none"}

(* inFlightWorktreePaths: allocations that have not returned; of these the  *)
(* last kind has its directory on disk.                                     *)
InFlight == {d \in Dirs : dirs[d].at \in {"reserved", "added"}}
OnDisk == {d \in Dirs : dirs[d].at \in {"added", "disk"}}
Has(s) == row[s].dir \in OnDisk
Content(branch) == IF branch = Absent THEN {} ELSE branch

(* The commits the session recorded are on its branch.                      *)
OnItsBranch(s) == row[s].ledger \subseteq Content(local[BranchOf(s)])

Statuses == Terminal \cup {"new", "planning", "executing", "reviewing", "paused", "interrupted"}

Rows == [status : Statuses, dir : Dirs \cup {NoDir}, kept : BOOLEAN, preserve : BOOLEAN,
         pr : BOOLEAN, cycled : BOOLEAN, old : BOOLEAN, idle : BOOLEAN,
         ledger : SUBSET Commits, saved : SUBSET Commits]
Worktrees == [at : {"free", "gone"}]
             \cup [at : {"reserved", "added", "disk"}, branch : Branches, owner : Sessions,
                   preserve : BOOLEAN]
Tips == (SUBSET Commits) \cup {Absent}
Sweeps == [at : {"sweep"}, guarded : SUBSET Dirs, aged : SUBSET Dirs, listed : BOOLEAN,
           todo : SUBSET Dirs]

StorageTypeOK ==
    /\ [revisers |-> revisers, root |-> root] \in Setups
    /\ row \in [Sessions -> Rows]
    /\ loop \in [Sessions -> {"none", "planning", "allocating", "working"}]
    /\ \A s \in Live : row[s].status \in {"planning", "executing", "reviewing"}
    /\ dirs \in [Dirs -> Worktrees]
    /\ local \in [Branches -> Tips] /\ remote \in [Branches -> Tips]
    /\ rescued \subseteq Commits /\ saved \in [Sessions -> SUBSET Commits]
    /\ made \in 0 .. MaxCommits /\ boots \in 0 .. MaxBoots /\ releasing \subseteq Dirs
    /\ gateway \in [at : {"up", "down", "recover"}] \cup Sweeps

StorageInit ==
    /\ \E setup \in Setups : revisers = setup.revisers /\ root = setup.root
    /\ row = [s \in Sessions |->
                [status |-> "new", dir |-> NoDir, kept |-> FALSE, preserve |-> FALSE, pr |-> FALSE,
                 cycled |-> FALSE, old |-> FALSE, idle |-> FALSE, ledger |-> {}, saved |-> {}]]
    /\ loop = [s \in Sessions |-> "none"]
    /\ dirs = [d \in Dirs |-> [at |-> "free"]]
    /\ local = [b \in Branches |-> Absent]
    /\ remote = [b \in Branches |-> IF b = PrBranch THEN {} ELSE Absent]
    /\ rescued = {} /\ saved = [s \in Sessions |-> {}] /\ made = 0
    /\ releasing = {} /\ gateway = [at |-> "up"] /\ boots = 0

Shelves == <<local, remote, rescued, saved, made>>
Fixed == <<revisers, root>>

----------------------------------------------------------------------------
(* How a run ends                                                           *)

(* failureHasRecoverableWork: commits past the plan's base, or files the    *)
(* status probe reports, which a missing worktree counts as.  Whether files *)
(* are left uncommitted is not tracked.                                     *)
RecoverableWork(s) ==
    IF row[s].dir = NoDir THEN {FALSE}
    ELSE IF ~Has(s) \/ row[s].ledger \cap Content(local[BranchOf(s)]) # {} THEN {TRUE} ELSE BOOLEAN

(* What is read of a row after its session ended.                           *)
Over(r, status, kept) ==
    [r EXCEPT !.status = status, !.kept = kept, !.preserve = FALSE, !.pr = FALSE,
              !.cycled = FALSE, !.old = FALSE, !.idle = FALSE]

(* A terminal row keeps its worktree, or has it removed behind its back.    *)
Ends(s, status, kept) ==
    /\ loop' = [loop EXCEPT ![s] = "none"]
    /\ row' = [row EXCEPT ![s] = Over(@, status, kept)]
    /\ releasing' = releasing \cup (IF kept \/ row[s].dir = NoDir THEN {} ELSE {row[s].dir})

FinaliseFailed(s) == \E kept \in RecoverableWork(s) : Ends(s, "failed", kept)

----------------------------------------------------------------------------
(* Allocation: a branch lock, a fetch, the removal of whatever worktree has *)
(* the branch, and a checkout.                                              *)

Start(s) ==
    /\ gateway.at # "down" /\ row[s].status = "new"
    /\ row' = [row EXCEPT ![s].status = "planning"]
    /\ loop' = [loop EXCEPT ![s] = "planning"]
    /\ UNCHANGED <<Fixed, dirs, Shelves, releasing, gateway, boots>>

BranchHeld(s) == \E d \in InFlight : dirs[d].branch = BranchOf(s)

Allocate(s) ==
    /\ loop[s] = "planning"
    /\ \/ /\ BranchHeld(s)
          /\ FinaliseFailed(s) /\ UNCHANGED dirs
       \/ /\ ~BranchHeld(s)
          /\ \E d \in Dirs :
                /\ dirs[d].at = "free" /\ \A e \in 1 .. d - 1 : dirs[e].at # "free"
                /\ dirs' = [dirs EXCEPT ![d] = [at |-> "reserved", branch |-> BranchOf(s),
                                                owner |-> s, preserve |-> row[s].preserve]]
          /\ loop' = [loop EXCEPT ![s] = "allocating"]
          /\ UNCHANGED <<row, releasing>>
    /\ UNCHANGED <<Fixed, Shelves, gateway, boots>>

(* reconcileBranchWorktrees: every worktree on the branch that is not being *)
(* allocated is removed, whoever it belongs to.                             *)
ReconcileBranchWorktrees(b) ==
    [e \in Dirs |-> IF dirs[e].at = "disk" /\ dirs[e].branch = b THEN [at |-> "gone"] ELSE dirs[e]]

(* Mutant: the branch is reset without a look at what it holds.             *)
RescueNothing(b, start) == UNCHANGED rescued

(* rescueBranchIfAhead: what the reset would orphan is parked.              *)
RescueBranchIfAhead(b, start) == rescued' = rescued \cup (Content(local[b]) \ start)

(* The last commit the ledger names, if some fetched branch still has it.   *)
Recoverable(s) ==
    {c \in row[s].ledger :
        /\ \A e \in row[s].ledger : e <= c
        /\ \E b \in Branches : c \in Content(remote[b]) \cup rescued}

(* The branch an answered session left is kept, or made again on its last   *)
(* commit; a pinned branch is taken from the remote, any other from the     *)
(* base branch.  Whether to keep it is what the stored brief says.          *)
Decision(s, b, preserve) ==
    IF preserve /\ local[b] # Absent THEN "preserve_local"
    ELSE IF preserve /\ Recoverable(s) # {} THEN "recovered_local"
    ELSE IF s \in revisers /\ remote[b] # Absent THEN "reuse_remote"
    ELSE "reset_to_base"

StartPoint(s, b, preserve) ==
    LET decision == Decision(s, b, preserve)
    IN CASE decision = "preserve_local" -> local[b]
         [] decision = "recovered_local" -> {c \in Content(remote[b]) \cup rescued :
                                                \E tip \in Recoverable(s) : c <= tip}
         [] decision = "reuse_remote" -> remote[b]
         [] decision = "reset_to_base" -> {}

Checkout(d) ==
    LET s == dirs[d].owner
        b == dirs[d].branch
        start == StartPoint(s, b, dirs[d].preserve)
    IN /\ dirs[d].at = "reserved"
       /\ local' = [local EXCEPT ![b] = start]
       /\ RescueBranchIfAhead(b, start)
       /\ dirs' = [ReconcileBranchWorktrees(b) EXCEPT ![d].at = "added"]
       /\ UNCHANGED <<Fixed, row, loop, remote, saved, made, releasing, gateway, boots>>

(* Mutant: nothing looks whether the recorded commits are on the branch.    *)
LedgerReachableTrusted(s) == TRUE

(* checkLedgerReachability: every commit the session recorded is on the     *)
(* branch its worktree has.                                                 *)
LedgerReachable(s) == OnItsBranch(s)

(* A worktree whose branch has lost recorded commits ends the run: what it  *)
(* has of them is kept.                                                     *)
TruncatedAt(s, d) ==
    /\ \E kept \in BOOLEAN :
           /\ row[s].ledger \cap Content(local[BranchOf(s)]) # {} => kept
           /\ row' = [row EXCEPT ![s] = Over([@ EXCEPT !.dir = d], "failed", kept)]
           /\ releasing' = IF kept THEN releasing ELSE releasing \cup {d}
    /\ loop' = [loop EXCEPT ![s] = "none"]

(* The allocation returns.  A run that still waits for it records the       *)
(* worktree and goes on if its recorded commits are there; one that did not *)
(* wait leaves the directory to the next sweep.                             *)
Allocated(d) ==
    LET s == dirs[d].owner
    IN /\ dirs[d].at = "added"
       /\ dirs' = [dirs EXCEPT ![d].at = "disk"]
       /\ \/ /\ loop[s] # "allocating"
             /\ UNCHANGED <<row, loop, releasing>>
          \/ /\ loop[s] = "allocating" /\ LedgerReachable(s)
             /\ row' = [row EXCEPT ![s].dir = d, ![s].status = "executing", ![s].cycled = TRUE]
             /\ loop' = [loop EXCEPT ![s] = "working"]
             /\ UNCHANGED releasing
          \/ loop[s] = "allocating" /\ ~LedgerReachable(s) /\ TruncatedAt(s, d)
       /\ UNCHANGED <<Fixed, Shelves, gateway, boots>>

(* The lead's deadline passes while its allocation goes on.                 *)
LeadTimesOut(s) ==
    /\ loop[s] = "allocating"
    /\ FinaliseFailed(s)
    /\ UNCHANGED <<Fixed, dirs, Shelves, gateway, boots>>

----------------------------------------------------------------------------
(* The run                                                                  *)

(* Mutant: bundles are written wherever the setting points.                 *)
CheckpointAllowedAnywhere == root # "unset"

(* checkpointRootIsSafe.                                                    *)
CheckpointAllowed == root = "apart"

(* createCheckpoint: a verified bundle of the branch and its manifest are   *)
(* renamed into place before the row names them; any step may fail, and     *)
(* then nothing that could be taken for a checkpoint is left.               *)
DurableCheckpoint(s, branch, rest) ==
    \/ /\ CheckpointAllowed /\ branch # {}
       /\ saved' = [saved EXCEPT ![s] = @ \cup branch]
       /\ row' = [rest EXCEPT ![s].saved = branch]
    \/ /\ row' = rest /\ UNCHANGED saved

(* A worker's commit, recorded as its turn ends, and the checkpoint after.  *)
Commit(s) ==
    LET b == BranchOf(s)
        c == made + 1
    IN /\ loop[s] = "working" /\ Has(s) /\ made < MaxCommits
       /\ made' = c
       /\ local' = [local EXCEPT ![b] = @ \cup {c}]
       /\ DurableCheckpoint(s, local[b] \cup {c},
              [row EXCEPT ![s].ledger = @ \cup {c}, ![s].status = "executing"])
       /\ UNCHANGED <<Fixed, loop, dirs, remote, rescued, releasing, gateway, boots>>

(* The candidate is published; a push that is no fast-forward is refused.   *)
(* What follows may end the session or add to the candidate.                *)
Publish(s) ==
    LET b == BranchOf(s)
    IN /\ loop[s] = "working" /\ row[s].status = "executing" /\ Has(s)
       /\ LedgerReachable(s) /\ Content(remote[b]) \subseteq local[b]
       /\ remote' = [remote EXCEPT ![b] = local[b]]
       /\ row' = [row EXCEPT ![s].status = "reviewing", ![s].pr = TRUE]
       /\ UNCHANGED <<Fixed, loop, dirs, local, rescued, saved, made, releasing, gateway, boots>>

Shipped(s) ==
    /\ loop[s] = "working" /\ row[s].status = "reviewing"
    /\ Ends(s, "done", FALSE)
    /\ UNCHANGED <<Fixed, dirs, Shelves, gateway, boots>>

(* A sub-task, a review or a push fails, or the session is stopped.         *)
RunFails(s) ==
    /\ loop[s] \in {"planning", "working"}
    /\ FinaliseFailed(s)
    /\ UNCHANGED <<Fixed, dirs, Shelves, gateway, boots>>

(* A question to a human: checkpoint, pause, and the run is over.           *)
Pause(s) ==
    /\ loop[s] = "working" /\ row[s].status = "executing"
    /\ loop' = [loop EXCEPT ![s] = "none"]
    /\ DurableCheckpoint(s, IF Has(s) THEN Content(local[BranchOf(s)]) ELSE {},
                         [row EXCEPT ![s].status = "paused"])
    /\ UNCHANGED <<Fixed, dirs, local, remote, rescued, made, releasing, gateway, boots>>

(* checkSessionStorage, storageIsUnrecoverable: recorded commits with       *)
(* nowhere left to live.                                                    *)
StorageGate(s) == row[s].dir # NoDir /\ row[s].ledger # {} => Has(s)

(* An answer stores in the brief that the branch is to be kept.             *)
Answer(s) ==
    /\ gateway.at # "down" /\ row[s].status = "paused" /\ StorageGate(s)
    /\ row' = [row EXCEPT ![s].status = "planning", ![s].preserve = TRUE, ![s].idle = FALSE, ![s].old = FALSE]
    /\ loop' = [loop EXCEPT ![s] = "planning"]
    /\ UNCHANGED <<Fixed, dirs, Shelves, releasing, gateway, boots>>

(* harness_resume runs the stored brief as it is; "force" takes a session   *)
(* whose run died.                                                          *)
Resume(s) ==
    /\ gateway.at # "down" /\ loop[s] = "none" /\ StorageGate(s)
    /\ row[s].status \in {"interrupted", "planning", "executing", "reviewing"}
    /\ row' = [row EXCEPT ![s].status = "planning", ![s].idle = FALSE, ![s].old = FALSE]
    /\ loop' = [loop EXCEPT ![s] = "planning"]
    /\ UNCHANGED <<Fixed, dirs, Shelves, releasing, gateway, boots>>

(* tryReleaseWorktree, releaseByPath.                                       *)
Release(d) ==
    /\ d \in releasing
    /\ releasing' = releasing \ {d}
    /\ dirs' = IF dirs[d].at = "disk" THEN [dirs EXCEPT ![d] = [at |-> "gone"]] ELSE dirs
    /\ UNCHANGED <<Fixed, row, loop, Shelves, gateway, boots>>

----------------------------------------------------------------------------
(* The gateway's start                                                      *)

(* The statuses whose rows claim local work, of those modelled.             *)
WorkBearing == {"planning", "executing", "reviewing", "paused", "interrupted"}

(* The process dies, and may stay down for longer than a session's hard     *)
(* timeout; the container's volume may go with it, bundles below the        *)
(* worktrees included.                                                      *)
Crash ==
    /\ boots < MaxBoots /\ boots' = boots + 1
    /\ gateway' = [at |-> "down"]
    /\ loop' = [s \in Sessions |-> "none"] /\ releasing' = {}
    /\ \E long \in BOOLEAN :
          row' = [s \in Sessions |-> IF long /\ row[s].status \in WorkBearing
                                    THEN [row[s] EXCEPT !.old = TRUE, !.idle = TRUE] ELSE row[s]]
    /\ \/ /\ dirs' = [d \in Dirs |-> CASE dirs[d].at = "added" -> [dirs[d] EXCEPT !.at = "disk"]
                                      [] d \in InFlight \ OnDisk -> [at |-> "gone"]
                                      [] OTHER -> dirs[d]]
          /\ UNCHANGED <<local, rescued, saved>>
       \/ /\ dirs' = [d \in Dirs |-> IF dirs[d].at = "free" THEN dirs[d] ELSE [at |-> "gone"]]
          /\ local' = [b \in Branches |-> Absent] /\ rescued' = {}
          /\ saved' = IF root = "below" THEN [s \in Sessions |-> {}] ELSE saved
    /\ UNCHANGED <<Fixed, remote, made>>

(* Mutant: allocations that have not returned are not protected.            *)
GuardedButAllocations ==
    {row[s].dir : s \in {t \in Sessions : t \in Live \/ row[t].status = "paused"}} \ {NoDir}

(* What the sweep is told to leave alone: the worktrees of live loops and   *)
(* of pauses, and those being allocated.                                    *)
Guarded == ({row[s].dir : s \in {t \in Sessions : t \in Live \/ row[t].status = "paused"}}
              \cup InFlight) \ {NoDir}

(* The plugin registers, after a death or again in a process whose loops    *)
(* live on, and begins its sweep.  A sweep is shorter than the grace period *)
(* of a worktree: what it may remove was there when it began (and is taken  *)
(* to be past the grace period, the worst case).                            *)
Register ==
    /\ \/ gateway.at = "down" /\ UNCHANGED boots
       \/ gateway.at = "up" /\ boots < MaxBoots /\ boots' = boots + 1
    /\ gateway' = [at |-> "sweep", guarded |-> Guarded, aged |-> OnDisk, listed |-> FALSE, todo |-> {}]
    /\ UNCHANGED <<Fixed, row, loop, dirs, Shelves, releasing>>

(* A directory no row names, or a terminal row that does not preserve it.   *)
Leftover(d) ==
    \A s \in Sessions : row[s].dir = d => row[s].status \in Terminal /\ ~row[s].kept

(* The directories are listed, then the rows are read.                      *)
HealLists ==
    /\ gateway.at = "sweep" /\ ~gateway.listed
    /\ gateway' = [gateway EXCEPT !.listed = TRUE,
                       !.todo = {d \in (OnDisk \cap gateway.aged) \ gateway.guarded : Leftover(d)}]
    /\ UNCHANGED <<Fixed, row, loop, dirs, Shelves, releasing, boots>>

HealRemoves(d) ==
    /\ gateway.at = "sweep" /\ d \in gateway.todo
    /\ gateway' = [gateway EXCEPT !.todo = @ \ {d}]
    /\ dirs' = IF d \in OnDisk THEN [dirs EXCEPT ![d] = [at |-> "gone"]] ELSE dirs
    /\ UNCHANGED <<Fixed, row, loop, Shelves, releasing, boots>>

(* The rows that claim local work are compared with the disk and stamped    *)
(* with the time, unless that failed.                                       *)
ReconcileRows ==
    /\ gateway.at = "sweep" /\ gateway.listed /\ gateway.todo = {}
    /\ gateway' = [at |-> "recover"]
    /\ \/ row' = [s \in Sessions |->
                    IF row[s].status \in WorkBearing THEN [row[s] EXCEPT !.old = FALSE] ELSE row[s]]
       \/ UNCHANGED row
    /\ UNCHANGED <<Fixed, loop, dirs, Shelves, releasing, boots>>

(* recoverSessions and the gateway's autoResume, for one row.               *)
AutoResume(s) ==
    /\ row[s].cycled = FALSE
    /\ row' = [row EXCEPT ![s].status = "planning"]
    /\ loop' = [loop EXCEPT ![s] = "planning"]

Recovers(s) ==
    /\ gateway.at = "recover" /\ loop[s] = "none"
    /\ row[s].status \in {"planning", "executing", "reviewing"}
    /\ \/ /\ row[s].old
          /\ row' = [row EXCEPT ![s].status = "interrupted"] /\ UNCHANGED loop
       \/ /\ ~row[s].old /\ \E tripped \in BOOLEAN :
             \/ /\ tripped
                /\ row' = [row EXCEPT ![s] = Over(@, "failed", FALSE)] /\ UNCHANGED loop
             \/ /\ ~tripped /\ row[s].status # "executing" /\ row[s].pr /\ row[s].cycled
                /\ row' = [row EXCEPT ![s] = Over(@, "done", FALSE)] /\ UNCHANGED loop
             \/ /\ ~tripped /\ (row[s].status = "executing" \/ (row[s].cycled /\ ~row[s].pr))
                /\ row' = [row EXCEPT ![s] = Over(@, "failed", TRUE)] /\ UNCHANGED loop
             \/ /\ ~tripped /\ row[s].status # "executing" /\ AutoResume(s)
    /\ UNCHANGED <<Fixed, dirs, Shelves, releasing, gateway, boots>>

Started ==
    /\ gateway.at = "recover"
    /\ \A s \in Sessions \ Live : row[s].status \notin {"planning", "executing", "reviewing"}
    /\ gateway' = [at |-> "up"]
    /\ UNCHANGED <<Fixed, row, loop, dirs, Shelves, releasing, boots>>

----------------------------------------------------------------------------
StorageNext ==
    \/ \E s \in Sessions :
        \/ Start(s) \/ Allocate(s) \/ LeadTimesOut(s) \/ Commit(s) \/ Publish(s) \/ Shipped(s)
        \/ RunFails(s) \/ Pause(s) \/ Answer(s) \/ Resume(s)
        \/ Recovers(s)
    \/ \E d \in Dirs :
        \/ Checkout(d) \/ Allocated(d) \/ Release(d)
        \/ HealRemoves(d)
    \/ Crash \/ Register \/ HealLists \/ ReconcileRows \/ Started

StorageSpec == StorageInit /\ [][StorageNext]_vars

----------------------------------------------------------------------------
(* As long as the volume is there, no commit a session recorded is lost: it *)
(* is on a branch, on the remote or parked.  (No two worktrees have a       *)
(* branch; every reset of one parks what it leaves behind.)                 *)
Kept == rescued \cup UNION {Content(local[b]) \cup Content(remote[b]) : b \in Branches}

CommitsSurvive ==
    [][(\E b \in Branches : local'[b] # Absent) \/ local' = local => Kept \subseteq Kept']_vars

(* A run that has its worktree has all it ever recorded on the branch it    *)
(* works on, whoever reset the branch before or needs it meanwhile.         *)
WorksOnItsCommits ==
    \A s \in Sessions : loop[s] = "working" /\ Has(s) => OnItsBranch(s)

(* The checkpoint a row names can be restored, after any loss of the volume.*)
DurableIsDurable == \A s \in Sessions : row[s].saved \subseteq saved[s]

(* The sweep removes no worktree of a live run, a running allocation, a     *)
(* pause, a session that is to be taken up again, or a preserved one (a     *)
(* crash in the middle of it may lose the volume).                          *)
Held(d) ==
    \/ d \in InFlight
    \/ \E s \in Sessions : row[s].dir = d /\ (row[s].status \notin Terminal \/ row[s].kept)

HealSparesWork ==
    [][gateway.at = "sweep" /\ gateway' # gateway /\ gateway'.at # "down" =>
         \A d \in Dirs : Held(d) /\ d \in OnDisk => d \in OnDisk']_vars

----------------------------------------------------------------------------
(* What docs and comments claim, and TLC refutes (README, section 14)      *)

(* recovery.ts says that a session older than the hard timeout is always    *)
(* marked 'interrupted', being too old to take up by itself.                *)
StaleAreNotResumed ==
    [][\A s \in Sessions : Recovers(s) /\ row[s].idle => row'[s].status = "interrupted"]_vars

(* To resume a session is to go on from its commits: an allocation for it   *)
(* does not move the branch off them.                                       *)
ResumeKeepsTheBranch ==
    [][\A d \in Dirs : Checkout(d) /\ OnItsBranch(dirs[d].owner)
         => row[dirs[d].owner].ledger \subseteq Content(local'[dirs[d].branch])]_vars

(* Nobody's live worktree is removed for another session's allocation.      *)
LiveWorktreesStay ==
    [][\A d \in Dirs, s \in Live : Checkout(d) /\ Has(s) => dirs'[row[s].dir].at # "gone"]_vars
=============================================================================
