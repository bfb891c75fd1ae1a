---------------------------- MODULE SnapshotStore ----------------------------
(***************************************************************************)
(* src/src/persistence.rs: callers in several threads or processes save    *)
(* and recover one snapshot path through its lock file, its temporary file *)
(* and its primary file.  Every file operation is a step of its own, so    *)
(* that callers interleave, fail, crash and lose power between any two.    *)
(*                                                                         *)
(* A snapshot is the number of the save call that wrote it.  The name of a *)
(* file and the bytes behind the name are separate: a directory entry is   *)
(* durable once the parent directory is synced, bytes once the file is.    *)
(***************************************************************************)
EXTENDS Naturals, FiniteSets

CONSTANTS
    Callers,   \* threads and processes that use the path
    MaxSaves,  \* bound on the temporary files ever created
    MaxTries   \* attempts of acquire_file_lock (500 in the code)

ASSUME StoreBounds == MaxSaves \in Nat /\ MaxTries \in Nat \ {0}

VARIABLES
    dir,       \* the directory: lock (its creator), tmp and primary, each an Option
    views,     \* the directories a power loss may leave: every one since the last sync
    partial,   \* saves whose bytes are not all written
    unsynced,  \* saves whose bytes are not durable
    saves,     \* number of temporary files created so far
    proc,      \* the call each caller is in
    acked,     \* history: snapshots that save or recover returned with Ok
    gambled    \* history: snapshots that recover promoted although unsynced

vars == <<dir, views, partial, unsynced, saves, proc, acked, gambled>>
files == <<partial, unsynced, saves>>

Operation == {"save", "recover"}
Idle == [pc |-> "idle", op |-> "none", tries |-> 0, version |-> 0, ok |-> FALSE]
Locked == {"token", "create", "write", "sync", "inspect", "rename", "sync_dir", "release"}

Init ==
    /\ dir = [lock |-> {}, tmp |-> {}, primary |-> {}]
    /\ views = {dir}
    /\ partial = {}
    /\ unsynced = {}
    /\ saves = 0
    /\ proc = [c \in Callers |-> Idle]
    /\ acked = {}
    /\ gambled = {}

At(c, pc) == proc[c].pc = pc
Become(c, p) == proc' = [proc EXCEPT ![c] = p]
Goto(c, pc) == Become(c, [proc[c] EXCEPT !.pc = pc])
Return(c) == Become(c, Idle)

Rewrite(new) == dir' = new /\ views' = views \cup {new}
Unlock == [dir EXCEPT !.lock = {}]

-----------------------------------------------------------------------------
(* acquire_file_lock: create_new of the lock file, the caller's token, and *)
(* both synced.                                                            *)

Call(c, op) ==
    /\ At(c, "idle")
    /\ Become(c, [proc[c] EXCEPT !.pc = "acquire", !.op = op])
    /\ UNCHANGED <<dir, views, files, acked, gambled>>

(* Mutant: the lock file is opened without create_new.                     *)
AcquireShared(c) ==
    /\ At(c, "acquire")
    /\ Rewrite([dir EXCEPT !.lock = {c}])
    /\ Goto(c, "token")
    /\ UNCHANGED <<files, acked, gambled>>

Acquire(c) ==
    /\ At(c, "acquire")
    /\ dir.lock = {}
    /\ Rewrite([dir EXCEPT !.lock = {c}])
    /\ Goto(c, "token")
    /\ UNCHANGED <<files, acked, gambled>>

(* Mutant: the loop has no bound.                                          *)
WaitForever(c) ==
    /\ At(c, "acquire")
    /\ dir.lock # {}
    /\ UNCHANGED vars

(* The lock exists: sleep and try again, or time out after the last try.   *)
Wait(c) ==
    /\ At(c, "acquire")
    /\ dir.lock # {}
    /\ IF proc[c].tries + 1 = MaxTries
       THEN Return(c)
       ELSE Become(c, [proc[c] EXCEPT !.tries = @ + 1])
    /\ UNCHANGED <<dir, views, files, acked, gambled>>

WriteToken(c) ==
    /\ At(c, "token")
    /\ Goto(c, IF proc[c].op = "save" THEN "create" ELSE "inspect")
    /\ views' = {dir}
    /\ UNCHANGED <<dir, files, acked, gambled>>

(* An error before the whole token is written leaves a lock file that drop *)
(* does not recognise; a later error removes it.                           *)
WriteTokenFails(c, written) ==
    /\ At(c, "token")
    /\ IF written THEN Rewrite(Unlock) ELSE UNCHANGED <<dir, views>>
    /\ Return(c)
    /\ UNCHANGED <<files, acked, gambled>>

-----------------------------------------------------------------------------
(* save_atomic_snapshot_locked.                                            *)

(* Mutant: the temporary file is truncated if it exists.                   *)
CreateOverTmp(c) ==
    /\ At(c, "create")
    /\ saves < MaxSaves
    /\ saves' = saves + 1
    /\ Rewrite([dir EXCEPT !.tmp = {saves'}])
    /\ partial' = partial \cup {saves'}
    /\ unsynced' = unsynced \cup {saves'}
    /\ Become(c, [proc[c] EXCEPT !.pc = "write", !.version = saves'])
    /\ UNCHANGED <<acked, gambled>>

CreateTmp(c) ==
    /\ At(c, "create")
    /\ dir.tmp = {}
    /\ saves < MaxSaves
    /\ saves' = saves + 1
    /\ Rewrite([dir EXCEPT !.tmp = {saves'}])
    /\ partial' = partial \cup {saves'}
    /\ unsynced' = unsynced \cup {saves'}
    /\ Become(c, [proc[c] EXCEPT !.pc = "write", !.version = saves'])
    /\ UNCHANGED <<acked, gambled>>

WriteTmp(c) ==
    /\ At(c, "write")
    /\ partial' = partial \ {proc[c].version}
    /\ Goto(c, "sync")
    /\ UNCHANGED <<dir, views, unsynced, saves, acked, gambled>>

(* Mutant: sync_all is forgotten.                                          *)
SkipSync(c) ==
    /\ At(c, "sync")
    /\ Goto(c, "rename")
    /\ UNCHANGED <<dir, views, files, acked, gambled>>

SyncTmp(c) ==
    /\ At(c, "sync")
    /\ unsynced' = unsynced \ {proc[c].version}
    /\ Goto(c, "rename")
    /\ UNCHANGED <<dir, views, partial, saves, acked, gambled>>

-----------------------------------------------------------------------------
(* recover_atomic_snapshot: a pending snapshot that loads is promoted,     *)
(* whether or not there is a primary; without one the primary is loaded.   *)

InspectPending(c) ==
    /\ At(c, "inspect")
    /\ \E v \in dir.tmp \ partial :
          Become(c, [proc[c] EXCEPT !.pc = "rename", !.version = v])
    /\ UNCHANGED <<dir, views, files, acked, gambled>>

InspectPrimary(c) ==
    /\ At(c, "inspect")
    /\ dir.tmp = {}
    /\ \E v \in dir.primary \ partial :
          Become(c, [proc[c] EXCEPT !.pc = "release", !.version = v, !.ok = TRUE])
    /\ UNCHANGED <<dir, views, files, acked, gambled>>

(* Mutant: the temporary file is copied over the primary.                  *)
CopyTmp(c) ==
    /\ At(c, "rename")
    /\ Rewrite([dir EXCEPT !.primary = dir.tmp])
    /\ gambled' = IF proc[c].op = "save" THEN gambled
                  ELSE gambled \cup (dir.tmp \cap unsynced)
    /\ Goto(c, "sync_dir")
    /\ UNCHANGED <<files, acked>>

RenameTmp(c) ==
    /\ At(c, "rename")
    /\ Rewrite([dir EXCEPT !.primary = dir.tmp, !.tmp = {}])
    /\ gambled' = IF proc[c].op = "save" THEN gambled
                  ELSE gambled \cup (dir.tmp \cap unsynced)
    /\ Goto(c, "sync_dir")
    /\ UNCHANGED <<files, acked>>

SyncDir(c) ==
    /\ At(c, "sync_dir")
    /\ views' = {dir}
    /\ Become(c, [proc[c] EXCEPT !.pc = "release", !.ok = TRUE])
    /\ UNCHANGED <<dir, files, acked, gambled>>

(* The errors of the code itself: the temporary file exists (or the bound  *)
(* on saves is reached), the pending snapshot does not load, or there is   *)
(* neither a pending snapshot nor a primary that loads.                    *)
Refuse(c) ==
    /\ \/ At(c, "create") /\ (dir.tmp # {} \/ saves = MaxSaves)
       \/ At(c, "inspect") /\ dir.tmp \cap partial # {}
       \/ At(c, "inspect") /\ dir.tmp = {} /\ dir.primary \ partial = {}
    /\ Goto(c, "release")
    /\ UNCHANGED <<dir, views, files, acked, gambled>>

(* ExclusiveFileLock::drop: the lock is removed, or the removal fails and  *)
(* is ignored, as is a failed sync of the directory.                       *)
Release(c, removed, synced) ==
    /\ At(c, "release")
    /\ dir' = IF removed THEN Unlock ELSE dir
    /\ views' = IF removed /\ synced THEN {dir'} ELSE views \cup {dir'}
    /\ acked' = IF proc[c].ok THEN acked \cup {proc[c].version} ELSE acked
    /\ Return(c)
    /\ UNCHANGED <<files, gambled>>

-----------------------------------------------------------------------------
(* The environment: a file operation returns an error, a caller dies, the  *)
(* machine loses power, an operator removes a lock whose creator is gone.  *)

OpenFails(c) ==
    /\ At(c, "acquire")
    /\ Return(c)
    /\ UNCHANGED <<dir, views, files, acked, gambled>>

IoError(c) ==
    /\ proc[c].pc \in Locked \ {"token", "release"}
    /\ Goto(c, "release")
    /\ UNCHANGED <<dir, views, files, acked, gambled>>

Crash(c) ==
    /\ ~At(c, "idle")
    /\ Return(c)
    /\ UNCHANGED <<dir, views, files, acked, gambled>>

PowerLoss ==
    /\ \E view \in views : dir' = view /\ views' = {view}
    /\ \E torn \in SUBSET unsynced : partial' = partial \cup torn
    /\ proc' = [c \in Callers |-> Idle]
    /\ UNCHANGED <<unsynced, saves, acked, gambled>>

Abandoned == \E c \in dir.lock : proc[c].pc \notin Locked

OperatorRemovesLock ==
    /\ Abandoned
    /\ Rewrite(Unlock)
    /\ UNCHANGED <<files, proc, acked, gambled>>

Step(c) ==
    \/ Acquire(c)
    \/ Wait(c)
    \/ WriteToken(c)
    \/ CreateTmp(c)
    \/ WriteTmp(c)
    \/ SyncTmp(c)
    \/ InspectPending(c)
    \/ InspectPrimary(c)
    \/ RenameTmp(c)
    \/ SyncDir(c)
    \/ Refuse(c)
    \/ \E removed, synced \in BOOLEAN : Release(c, removed, synced)

Fault(c) ==
    \/ OpenFails(c)
    \/ \E written \in BOOLEAN : WriteTokenFails(c, written)
    \/ IoError(c)
    \/ Crash(c)

Next ==
    \/ \E c \in Callers, op \in Operation : Call(c, op)
    \/ \E c \in Callers : Step(c)
    \/ \E c \in Callers : Fault(c)
    \/ PowerLoss
    \/ OperatorRemovesLock

Spec == Init /\ [][Next]_vars

(* A running caller is scheduled again and again.  Faults need not happen, *)
(* and no operator need remove a lock.                                     *)
FairSpec == Spec /\ \A c \in Callers : WF_vars(Step(c))

-----------------------------------------------------------------------------

Versions == 1 .. saves

Directory == [lock : SUBSET Callers, tmp : SUBSET Versions, primary : SUBSET Versions]

Process ==
    [pc : Locked \cup {"idle", "acquire"}, op : Operation \cup {"none"},
     tries : 0 .. MaxTries - 1, version : 0 .. saves, ok : BOOLEAN]

(* The directories, the files and the calls are well formed, and no caller *)
(* tries more often for the lock than acquire_file_lock's loop allows.     *)
TypeOK ==
    /\ dir \in views
    /\ views \subseteq Directory
    /\ partial \cup unsynced \cup gambled \subseteq Versions
    /\ acked \subseteq 0 .. saves
    /\ saves \in 0 .. MaxSaves
    /\ proc \in [Callers -> Process]

(* The lock file admits one caller at a time to the temporary file and the *)
(* primary, through timeouts, failed locks, crashes, power losses and an   *)
(* operator who removes locks whose creator is gone.                       *)
MutualExclusion ==
    \A c \in Callers : proc[c].pc \in Locked => dir.lock = {c}

(* Promoting a pending snapshot never goes back in time: whatever the file *)
(* system shows now, or would show after a power loss, a temporary file is *)
(* newer than the primary beside it.                                       *)
PendingIsNewer ==
    \A view \in views : \A t \in view.tmp, v \in view.primary : t > v

(* What save or recover returned with Ok stays: the primary is that        *)
(* snapshot or a newer one and is whole, even after a power loss.  The one *)
(* exception is a primary that recover promoted from a temporary file      *)
(* whose sync never finished; recover does not sync it.                    *)
AcknowledgedStays ==
    \A a \in acked : \A view \in views :
        \E v \in view.primary : v >= a /\ (v \notin partial \/ v \in gambled)

(* The strengthening of the properties above that every step preserves.    *)
(* The caller inside the lock knows what it works on: the temporary file   *)
(* is the one it created or inspected, the bytes it renames are written    *)
(* and, after a save, synced; while it looks at the directory there is     *)
(* nothing a power loss could undo; and when it is about to return Ok the  *)
(* snapshot is in every directory a power loss may leave.                  *)
Reaches(a) == \A view \in views : \E v \in view.primary : v >= a

Working(c) ==
    LET p == proc[c]
    IN  /\ p.pc \in {"write", "sync", "rename"} => dir.tmp = {p.version}
        /\ p.pc \in {"create", "write", "sync"} => p.op = "save"
        /\ p.pc \in {"sync", "rename"} => p.version \notin partial
        /\ p.pc = "rename" /\ p.op = "save" => p.version \notin unsynced
        /\ p.pc = "inspect" => p.op # "save" /\ views = {dir}
        /\ p.pc = "sync_dir" => dir.primary = {p.version}
        /\ p.ok => p.pc = "release" /\ Reaches(p.version)

Sound(view) ==
    /\ \A s, t \in view.tmp : s = t
    /\ view.primary \cap (partial \cup unsynced) \subseteq gambled

StoreInv ==
    /\ MutualExclusion
    /\ PendingIsNewer
    /\ \A view \in views : Sound(view)
    /\ \A a \in acked : Reaches(a)
    /\ \A c \in Callers : Working(c)

(* A complete pending snapshot is never dropped by a running caller: a     *)
(* save refuses while one exists, so it stays until it is the primary.     *)
PendingIsKept ==
    [][PowerLoss \/ dir.tmp \ partial \subseteq dir'.tmp \cup dir'.primary]_vars

(* Every save and recover returns, also while a dead caller's lock stays.  *)
EveryCallReturns ==
    \A c \in Callers : ~At(c, "idle") ~> At(c, "idle")
=============================================================================
