------------------------- MODULE SnapshotStoreProofs -------------------------
(***************************************************************************)
(* Proofs about SnapshotStore for any number of callers, saves and tries.  *)
(***************************************************************************)
EXTENDS SnapshotStore, TLAPS

-----------------------------------------------------------------------------
(* Types.                                                                  *)

(* The files are absent at the start and every caller is idle.             *)
LEMMA TypeInit == Init => TypeOK
  BY StoreBounds DEF Init, TypeOK, Directory, Process, Versions, Idle, Operation

(* A caller's next record is a process record again, also when a save has  *)
(* just been numbered.                                                     *)
LEMMA BecomesProcess ==
  ASSUME NEW c \in Callers, NEW p, proc \in [Callers -> Process], Become(c, p),
         p \in Process', saves \in Nat, saves' \in Nat, saves <= saves'
  PROVE  proc' \in [Callers -> Process']
  <1>1. Process \subseteq Process'
    BY DEF Process
  <1>2. QED
    BY <1>1 DEF Become

(* Every file operation, fault and crash keeps directories, files and      *)
(* calls well formed.                                                      *)
LEMMA TypeStep == TypeOK /\ [Next]_vars => TypeOK'
  <1> SUFFICES ASSUME TypeOK, [Next]_vars PROVE TypeOK'
    OBVIOUS
  <1>types. /\ saves \in Nat
            /\ \A c \in Callers : proc[c] \in Process
            /\ Idle \in Process
    BY StoreBounds DEF TypeOK, Process, Idle
  (* Steps in which a caller moves on and no file is created.              *)
  <1>move. ASSUME NEW c \in Callers, NEW p \in Process, Become(c, p), saves' = saves,
                  dir' \in views', views' \subseteq Directory,
                  partial' \cup unsynced' \cup gambled' \subseteq Versions,
                  acked' \subseteq 0 .. saves
           PROVE  TypeOK'
    <2>1. Process' = Process /\ Directory' = Directory /\ Versions' = Versions
      BY <1>move DEF Process, Directory, Versions
    <2>2. proc' \in [Callers -> Process']
      BY <2>1, <1>move, <1>types, BecomesProcess DEF TypeOK
    <2>3. QED
      BY <2>1, <2>2, <1>move DEF TypeOK
  <1>goto. ASSUME NEW c \in Callers, NEW pc \in Locked
           PROVE  [proc[c] EXCEPT !.pc = pc] \in Process
    BY <1>types DEF Process
  <1>unlock. Unlock \in Directory
    BY DEF TypeOK, Unlock, Directory
  <1>1. ASSUME NEW c \in Callers, NEW op \in Operation, Call(c, op)
        PROVE  TypeOK'
    <2>1. [proc[c] EXCEPT !.pc = "acquire", !.op = op] \in Process
      BY <1>types DEF Process
    <2>2. QED
      BY <2>1, <1>1, <1>move DEF TypeOK, Call, files
  <1>2. ASSUME NEW c \in Callers, Acquire(c)
        PROVE  TypeOK'
    <2>1. [dir EXCEPT !.lock = {c}] \in Directory
      BY DEF TypeOK, Directory
    <2>2. [proc[c] EXCEPT !.pc = "token"] \in Process
      BY <1>goto DEF Locked
    <2>3. QED
      BY <2>1, <2>2, <1>2, <1>move DEF TypeOK, Acquire, Rewrite, Goto, files
  <1>3. ASSUME NEW c \in Callers, Wait(c)
        PROVE  TypeOK'
    <2>1. CASE proc[c].tries + 1 = MaxTries
      BY <2>1, <1>3, <1>types, <1>move DEF TypeOK, Wait, Return, files
    <2>2. CASE proc[c].tries + 1 # MaxTries
      <3>1. [proc[c] EXCEPT !.tries = @ + 1] \in Process
        BY <2>2, <1>types, StoreBounds DEF Process
      <3>2. QED
        BY <2>2, <3>1, <1>3, <1>move DEF TypeOK, Wait, files
    <2>3. QED
      BY <2>1, <2>2
  <1>4. ASSUME NEW c \in Callers, WriteToken(c)
        PROVE  TypeOK'
    <2>1. [proc[c] EXCEPT !.pc = IF proc[c].op = "save" THEN "create" ELSE "inspect"]
             \in Process
      BY <1>goto DEF Locked
    <2>2. QED
      BY <2>1, <1>4, <1>move DEF TypeOK, WriteToken, Goto, files
  <1>5. ASSUME NEW c \in Callers, CreateTmp(c)
        PROVE  TypeOK'
    <2>0. /\ saves' = saves + 1 /\ saves' \in 0 .. MaxSaves
          /\ Versions \subseteq Versions' /\ saves' \in Versions'
          /\ 0 .. saves \subseteq 0 .. saves'
      BY <1>5, <1>types, StoreBounds DEF CreateTmp, TypeOK, Versions
    <2>1. Directory \subseteq Directory'
      BY <2>0 DEF Directory
    <2>2. [dir EXCEPT !.tmp = {saves'}] \in Directory'
      BY <2>0, <2>1 DEF TypeOK, Directory
    <2>p. proc[c] \in Process' /\ saves' \in 0 .. saves'
      BY <2>0, <1>types DEF Process
    <2>3. [proc[c] EXCEPT !.pc = "write", !.version = saves'] \in Process'
      BY <2>p DEF Process, Locked
    <2>4. proc' \in [Callers -> Process']
      BY <2>0, <2>3, <1>5, <1>types, BecomesProcess DEF TypeOK, CreateTmp
    <2>5. QED
      BY <2>0, <2>1, <2>2, <2>4, <1>5 DEF TypeOK, CreateTmp, Rewrite
  <1>6. ASSUME NEW c \in Callers, WriteTmp(c)
        PROVE  TypeOK'
    <2>1. [proc[c] EXCEPT !.pc = "sync"] \in Process
      BY <1>goto DEF Locked
    <2>2. QED
      BY <2>1, <1>6, <1>move DEF TypeOK, WriteTmp, Goto
  <1>7. ASSUME NEW c \in Callers, SyncTmp(c)
        PROVE  TypeOK'
    <2>1. [proc[c] EXCEPT !.pc = "rename"] \in Process
      BY <1>goto DEF Locked
    <2>2. QED
      BY <2>1, <1>7, <1>move DEF TypeOK, SyncTmp, Goto
  <1>8. ASSUME NEW c \in Callers, InspectPending(c)
        PROVE  TypeOK'
    <2>1. PICK v \in dir.tmp : Become(c, [proc[c] EXCEPT !.pc = "rename", !.version = v])
      BY <1>8 DEF InspectPending
    <2>v. v \in 0 .. saves
      BY DEF TypeOK, Directory, Versions
    <2>2. [proc[c] EXCEPT !.pc = "rename", !.version = v] \in Process
      BY <2>v, <1>types DEF Process, Locked
    <2>3. QED
      BY <2>1, <2>2, <1>8, <1>move DEF TypeOK, InspectPending, files
  <1>9. ASSUME NEW c \in Callers, InspectPrimary(c)
        PROVE  TypeOK'
    <2>1. PICK v \in dir.primary :
             Become(c, [proc[c] EXCEPT !.pc = "release", !.version = v, !.ok = TRUE])
      BY <1>9 DEF InspectPrimary
    <2>v. v \in 0 .. saves
      BY DEF TypeOK, Directory, Versions
    <2>2. [proc[c] EXCEPT !.pc = "release", !.version = v, !.ok = TRUE] \in Process
      BY <2>v, <1>types DEF Process, Locked
    <2>3. QED
      BY <2>1, <2>2, <1>9, <1>move DEF TypeOK, InspectPrimary, files
  <1>10. ASSUME NEW c \in Callers, RenameTmp(c)
         PROVE  TypeOK'
    <2>1. [dir EXCEPT !.primary = dir.tmp, !.tmp = {}] \in Directory
      BY DEF TypeOK, Directory
    <2>2. [proc[c] EXCEPT !.pc = "sync_dir"] \in Process
      BY <1>goto DEF Locked
    <2>3. gambled' \subseteq Versions
      BY <1>10 DEF RenameTmp, TypeOK
    <2>4. QED
      BY <2>1, <2>2, <2>3, <1>10, <1>move DEF TypeOK, RenameTmp, Rewrite, Goto, files
  <1>11. ASSUME NEW c \in Callers, SyncDir(c)
         PROVE  TypeOK'
    <2>1. [proc[c] EXCEPT !.pc = "release", !.ok = TRUE] \in Process
      BY <1>types DEF Process, Locked
    <2>2. QED
      BY <2>1, <1>11, <1>move DEF TypeOK, SyncDir, files
  <1>12. ASSUME NEW c \in Callers, Refuse(c) \/ IoError(c)
         PROVE  TypeOK'
    <2>1. [proc[c] EXCEPT !.pc = "release"] \in Process
      BY <1>goto DEF Locked
    <2>2. QED
      BY <2>1, <1>12, <1>move DEF TypeOK, Refuse, IoError, Goto, files
  <1>13. ASSUME NEW c \in Callers, NEW removed \in BOOLEAN, NEW synced \in BOOLEAN,
                Release(c, removed, synced)
         PROVE  TypeOK'
    <2>1. dir' \in Directory /\ dir' \in views' /\ views' \subseteq Directory
      BY <1>13, <1>unlock DEF Release, TypeOK
    <2>2. acked' \subseteq 0 .. saves
      BY <1>13, <1>types DEF Release, TypeOK, Process
    <2>3. QED
      BY <2>1, <2>2, <1>13, <1>types, <1>move DEF TypeOK, Release, Return, files
  <1>14. ASSUME NEW c \in Callers, OpenFails(c) \/ Crash(c)
         PROVE  TypeOK'
    BY <1>14, <1>types, <1>move DEF TypeOK, OpenFails, Crash, Return, files
  <1>15. ASSUME NEW c \in Callers, NEW written \in BOOLEAN, WriteTokenFails(c, written)
         PROVE  TypeOK'
    BY <1>15, <1>types, <1>unlock, <1>move
       DEF TypeOK, WriteTokenFails, Rewrite, Return, files
  <1>16. CASE PowerLoss
    BY <1>16, <1>types DEF PowerLoss, TypeOK, Versions, Directory, Process
  <1>17. CASE OperatorRemovesLock
    BY <1>17, <1>unlock DEF OperatorRemovesLock, Rewrite, TypeOK, files, Versions,
                            Directory, Process
  <1>18. CASE UNCHANGED vars
    BY <1>18 DEF vars, TypeOK, Versions, Directory, Process
  <1>19. QED
    BY <1>1, <1>2, <1>3, <1>4, <1>5, <1>6, <1>7, <1>8, <1>9, <1>10, <1>11,
       <1>12, <1>13, <1>14, <1>15, <1>16, <1>17, <1>18 DEF Next, Step, Fault

(* Directories, files and calls stay well formed, and no caller tries more *)
(* often than acquire_file_lock allows.                                    *)
THEOREM StoreTypeCorrect == Spec => []TypeOK
  BY TypeInit, TypeStep, PTL DEF Spec

-----------------------------------------------------------------------------
(* The invariant.                                                          *)

(* Nothing is locked, pending, saved or acknowledged at the start.         *)
LEMMA InvInit == Init => StoreInv
  BY DEF Init, StoreInv, MutualExclusion, PendingIsNewer, Sound, Working, Idle, Locked

(* Every file operation, fault and crash keeps the invariant.              *)
LEMMA InvStep == TypeOK /\ TypeOK' /\ StoreInv /\ [Next]_vars => StoreInv'
  <1> SUFFICES ASSUME TypeOK, TypeOK', StoreInv, [Next]_vars PROVE StoreInv'
    OBVIOUS
  <1>alone. ASSUME NEW c \in Callers, proc[c].pc \in Locked, NEW d \in Callers, d # c
            PROVE  proc[d].pc \notin Locked
    BY <1>alone DEF StoreInv, MutualExclusion
  (* A caller outside the lock relies on nothing.                          *)
  <1>out. ASSUME NEW d \in Callers, proc'[d].pc \notin Locked, ~proc'[d].ok
          PROVE  Working(d)'
    BY <1>out DEF Working, Locked
  <1>idle. ASSUME NEW d \in Callers, proc[d].pc \notin Locked
           PROVE  ~proc[d].ok
    BY <1>idle DEF StoreInv, Working, Locked
  <1>become. ASSUME NEW c \in Callers, NEW p, Become(c, p)
             PROVE  proc'[c] = p /\ \A d \in Callers \ {c} : proc'[d] = proc[d]
    BY <1>become DEF Become, TypeOK
  (* Only a caller outside the lock can have no effect on the others.      *)
  <1>others. ASSUME NEW c \in Callers, proc[c].pc \in Locked,
                    \A d \in Callers \ {c} : proc'[d] = proc[d],
                    Working(c)'
             PROVE  \A d \in Callers : Working(d)'
    BY <1>others, <1>alone, <1>out, <1>idle
  (* Steps that change no file and no directory.                           *)
  <1>quiet. ASSUME NEW c \in Callers, NEW p, Become(c, p),
                   UNCHANGED <<dir, views, partial, unsynced, saves, acked, gambled>>,
                   p.pc \in Locked => proc[c].pc \in Locked, Working(c)'
            PROVE  StoreInv'
    <2>1. MutualExclusion'
      BY <1>quiet, <1>become DEF StoreInv, MutualExclusion
    <2>2. PendingIsNewer' /\ (\A view \in views : Sound(view))' /\ (\A a \in acked : Reaches(a))'
      BY <1>quiet DEF StoreInv, PendingIsNewer, Sound, Reaches
    <2>3. \A d \in Callers : Working(d)'
      BY <1>quiet, <1>become DEF StoreInv, Working, Reaches
    <2>4. QED
      BY <2>1, <2>2, <2>3 DEF StoreInv
  <1>1. ASSUME NEW c \in Callers, NEW op \in Operation, Call(c, op)
        PROVE  StoreInv'
    <2>1. proc[c].pc = "idle" /\ ~proc[c].ok
      BY <1>1, <1>idle DEF Call, At, Locked
    <2> DEFINE p == [proc[c] EXCEPT !.pc = "acquire", !.op = op]
    <2>2. p.pc = "acquire" /\ p.ok = proc[c].ok
      BY DEF TypeOK, Process
    <2>3. Working(c)'
      BY <2>1, <2>2, <1>1, <1>become, <1>out DEF Call, Locked
    <2>4. QED
      BY <2>2, <2>3, <1>1, <1>quiet DEF Call, files, Locked
  <1>2. ASSUME NEW c \in Callers, Wait(c) \/ OpenFails(c) \/ Crash(c) \/ WriteTokenFails(c, FALSE)
        PROVE  StoreInv'
    <2>1. PICK p : Become(c, p) /\ p.pc \notin Locked /\ ~p.ok
      <3>1. CASE Become(c, Idle)
        BY <3>1 DEF Idle, Locked
      <3>2. CASE Become(c, [proc[c] EXCEPT !.tries = @ + 1]) /\ proc[c].pc = "acquire"
        BY <3>2, <1>idle DEF TypeOK, Process, Locked
      <3>3. QED
        BY <3>1, <3>2, <1>2 DEF Wait, OpenFails, Crash, WriteTokenFails, Return, At
    <2>2. UNCHANGED <<dir, views, partial, unsynced, saves, acked, gambled>>
      BY <1>2 DEF Wait, OpenFails, Crash, WriteTokenFails, files
    <2>3. QED
      BY <2>1, <2>2, <1>become, <1>out, <1>quiet
  <1>3. ASSUME NEW c \in Callers, Refuse(c) \/ IoError(c)
        PROVE  StoreInv'
    <2> DEFINE p == [proc[c] EXCEPT !.pc = "release"]
    <2>1. /\ Become(c, p) /\ proc[c].pc \in Locked \ {"release"}
          /\ UNCHANGED <<dir, views, partial, unsynced, saves, acked, gambled>>
      BY <1>3 DEF Refuse, IoError, Goto, At, files, Locked
    <2>2. p.pc = "release" /\ p.ok = proc[c].ok
      BY DEF TypeOK, Process
    <2>3. ~proc[c].ok
      BY <2>1 DEF StoreInv, Working
    <2>4. Working(c)'
      BY <2>1, <2>2, <2>3, <1>become DEF Working
    <2>5. QED
      BY <2>1, <2>4, <1>quiet
  <1>4. ASSUME NEW c \in Callers, InspectPending(c)
        PROVE  StoreInv'
    <2>1. PICK v \in dir.tmp \ partial :
             Become(c, [proc[c] EXCEPT !.pc = "rename", !.version = v])
      BY <1>4 DEF InspectPending
    <2> DEFINE p == [proc[c] EXCEPT !.pc = "rename", !.version = v]
    <2>2. p.pc = "rename" /\ p.version = v /\ p.ok = proc[c].ok /\ p.op = proc[c].op
      BY DEF TypeOK, Process
    <2>3. proc[c].pc = "inspect" /\ proc[c].op # "save" /\ ~proc[c].ok
      BY <1>4 DEF InspectPending, At, StoreInv, Working
    <2>4. dir.tmp = {v}
      BY DEF TypeOK, StoreInv, Sound
    <2>5. proc'[c] = p /\ dir' = dir /\ partial' = partial
      BY <2>1, <1>4, <1>become DEF InspectPending, files
    <2>6. Working(c)'
      BY <2>2, <2>3, <2>4, <2>5 DEF Working
    <2>7. QED
      BY <2>1, <2>3, <2>6, <1>4, <1>quiet DEF InspectPending, files, Locked
  <1>5. ASSUME NEW c \in Callers, InspectPrimary(c)
        PROVE  StoreInv'
    <2>1. PICK v \in dir.primary :
             Become(c, [proc[c] EXCEPT !.pc = "release", !.version = v, !.ok = TRUE])
      BY <1>5 DEF InspectPrimary
    <2> DEFINE p == [proc[c] EXCEPT !.pc = "release", !.version = v, !.ok = TRUE]
    <2>2. p.pc = "release" /\ p.version = v
      BY DEF TypeOK, Process
    <2>3. proc[c].pc = "inspect" /\ views = {dir}
      BY <1>5 DEF InspectPrimary, At, StoreInv, Working
    <2>4. v \in Nat
      BY DEF TypeOK, Directory, Versions
    <2>5. Reaches(v)'
      BY <2>3, <2>4, <1>5 DEF Reaches, InspectPrimary
    <2>6. proc'[c] = p
      BY <2>1, <1>become
    <2>7. Working(c)'
      BY <2>2, <2>5, <2>6 DEF Working
    <2>8. QED
      BY <2>1, <2>3, <2>7, <1>5, <1>quiet DEF InspectPrimary, files, Locked
  <1>6. ASSUME NEW c \in Callers, Acquire(c)
        PROVE  StoreInv'
    <2> DEFINE p == [proc[c] EXCEPT !.pc = "token"]
               new == [dir EXCEPT !.lock = {c}]
    <2>1. /\ dir.lock = {} /\ proc[c].pc = "acquire"
          /\ dir' = new /\ views' = views \cup {new}
          /\ UNCHANGED <<partial, unsynced, acked, gambled>>
      BY <1>6 DEF Acquire, Rewrite, At, files
    <2>2. proc'[c] = p /\ \A d \in Callers \ {c} : proc'[d] = proc[d]
      BY <1>6, <1>become DEF Acquire, Goto
    <2>3. p.pc = "token" /\ p.ok = proc[c].ok
      BY DEF TypeOK, Process
    <2>4. dir \in views /\ new.lock = {c} /\ new.tmp = dir.tmp /\ new.primary = dir.primary
      BY DEF TypeOK, Directory
    <2>5. \A d \in Callers : proc[d].pc \notin Locked
      BY <2>1 DEF StoreInv, MutualExclusion
    <2>6. MutualExclusion'
      BY <2>1, <2>2, <2>4, <2>5 DEF MutualExclusion
    <2>7. PendingIsNewer' /\ (\A view \in views : Sound(view))' /\ (\A a \in acked : Reaches(a))'
      BY <2>1, <2>4 DEF StoreInv, PendingIsNewer, Sound, Reaches
    <2>8. \A d \in Callers : Working(d)'
      <3>1. Working(c)'
        BY <2>2, <2>3, <2>5, <1>idle DEF Working
      <3>2. QED
        BY <3>1, <2>2, <2>5, <1>out, <1>idle
    <2>9. QED
      BY <2>6, <2>7, <2>8 DEF StoreInv
  <1>7. ASSUME NEW c \in Callers, WriteToken(c)
        PROVE  StoreInv'
    <2> DEFINE p == [proc[c] EXCEPT !.pc = IF proc[c].op = "save" THEN "create" ELSE "inspect"]
    <2>1. /\ proc[c].pc = "token" /\ proc[c].pc \in Locked
          /\ views' = {dir}
          /\ UNCHANGED <<dir, partial, unsynced, acked, gambled>>
      BY <1>7 DEF WriteToken, At, files, Locked
    <2>2. proc'[c] = p /\ \A d \in Callers \ {c} : proc'[d] = proc[d]
      BY <1>7, <1>become DEF WriteToken, Goto
    <2>3. /\ p.pc = IF proc[c].op = "save" THEN "create" ELSE "inspect"
          /\ p.ok = proc[c].ok /\ p.op = proc[c].op
      BY DEF TypeOK, Process
    <2>4. ~proc[c].ok
      BY <2>1 DEF StoreInv, Working
    <2>5. MutualExclusion'
      BY <2>1, <2>2 DEF StoreInv, MutualExclusion
    <2>6. PendingIsNewer' /\ (\A view \in views : Sound(view))' /\ (\A a \in acked : Reaches(a))'
      BY <2>1 DEF TypeOK, StoreInv, PendingIsNewer, Sound, Reaches
    <2>7. Working(c)'
      BY <2>1, <2>2, <2>3, <2>4 DEF Working
    <2>8. QED
      BY <2>1, <2>2, <2>5, <2>6, <2>7, <1>others DEF StoreInv
  <1>8. ASSUME NEW c \in Callers, CreateTmp(c)
        PROVE  StoreInv'
    <2> DEFINE p == [proc[c] EXCEPT !.pc = "write", !.version = saves']
               new == [dir EXCEPT !.tmp = {saves'}]
    <2>1. /\ proc[c].pc = "create" /\ proc[c].pc \in Locked
          /\ saves' = saves + 1
          /\ dir' = new /\ views' = views \cup {new}
          /\ partial' = partial \cup {saves'} /\ unsynced' = unsynced \cup {saves'}
          /\ UNCHANGED <<acked, gambled>>
      BY <1>8 DEF CreateTmp, Rewrite, At, Locked
    <2>2. proc'[c] = p /\ \A d \in Callers \ {c} : proc'[d] = proc[d]
      BY <1>8, <1>become DEF CreateTmp
    <2>3. p.pc = "write" /\ p.version = saves' /\ p.ok = proc[c].ok /\ p.op = proc[c].op
      BY DEF TypeOK, Process
    <2>4. ~proc[c].ok /\ proc[c].op = "save"
      BY <2>1 DEF StoreInv, Working
    <2>5. dir \in views /\ new.lock = dir.lock /\ new.tmp = {saves'} /\ new.primary = dir.primary
      BY DEF TypeOK, Directory
    <2>6. \A view \in views : \A v \in view.primary : v < saves' /\ v # saves'
      BY <2>1, StoreBounds DEF TypeOK, Directory, Versions
    <2>7. MutualExclusion'
      BY <2>1, <2>2, <2>5 DEF StoreInv, MutualExclusion
    <2>8. PendingIsNewer'
      <3>1. \A t \in new.tmp, v \in new.primary : t > v
        BY <2>5, <2>6
      <3>2. QED
        BY <3>1, <2>1 DEF StoreInv, PendingIsNewer
    <2>9. (\A view \in views : Sound(view))'
      <3>1. \A view \in views : view.primary \cap (partial' \cup unsynced') \subseteq gambled'
        BY <2>1, <2>6 DEF StoreInv, Sound
      <3>2. \A view \in views : Sound(view)'
        BY <3>1 DEF StoreInv, Sound
      <3>3. Sound(dir)'
        BY <3>1, <2>1, <2>5 DEF Sound
      <3>4. QED
        BY <3>2, <3>3, <2>1
    <2>10. (\A a \in acked : Reaches(a))'
      BY <2>1, <2>5 DEF StoreInv, Reaches
    <2>11. Working(c)'
      BY <2>1, <2>2, <2>3, <2>4, <2>5 DEF Working
    <2>12. QED
      BY <2>1, <2>2, <2>7, <2>8, <2>9, <2>10, <2>11, <1>others DEF StoreInv
  <1>9. ASSUME NEW c \in Callers, WriteTmp(c) \/ SyncTmp(c)
        PROVE  StoreInv'
    <2>1. /\ proc[c].pc \in {"write", "sync"} /\ proc[c].pc \in Locked
          /\ partial' \subseteq partial /\ unsynced' \subseteq unsynced
          /\ UNCHANGED <<dir, views, acked, gambled>>
      BY <1>9 DEF WriteTmp, SyncTmp, At, Locked
    <2>2. PICK pc \in {"sync", "rename"} :
             /\ Become(c, [proc[c] EXCEPT !.pc = pc])
             /\ proc[c].version \notin partial'
             /\ pc = "rename" => proc[c].version \notin unsynced'
      BY <1>9 DEF WriteTmp, SyncTmp, At, Goto, StoreInv, Working
    <2> DEFINE p == [proc[c] EXCEPT !.pc = pc]
    <2>3. proc'[c] = p /\ \A d \in Callers \ {c} : proc'[d] = proc[d]
      BY <2>2, <1>become
    <2>4. p.pc = pc /\ p.version = proc[c].version /\ p.ok = proc[c].ok /\ p.op = proc[c].op
      BY DEF TypeOK, Process
    <2>5. ~proc[c].ok /\ proc[c].op = "save" /\ dir.tmp = {proc[c].version}
      BY <2>1 DEF StoreInv, Working
    <2>6. MutualExclusion'
      BY <2>1, <2>3 DEF StoreInv, MutualExclusion
    <2>7. PendingIsNewer' /\ (\A view \in views : Sound(view))' /\ (\A a \in acked : Reaches(a))'
      BY <2>1 DEF StoreInv, PendingIsNewer, Sound, Reaches
    <2>8. Working(c)'
      BY <2>1, <2>2, <2>3, <2>4, <2>5 DEF Working
    <2>9. QED
      BY <2>1, <2>3, <2>6, <2>7, <2>8, <1>others DEF StoreInv
  <1>10. ASSUME NEW c \in Callers, RenameTmp(c)
         PROVE  StoreInv'
    <2> DEFINE p == [proc[c] EXCEPT !.pc = "sync_dir"]
               new == [dir EXCEPT !.primary = dir.tmp, !.tmp = {}]
               w == proc[c].version
    <2>1. /\ proc[c].pc = "rename" /\ proc[c].pc \in Locked
          /\ dir' = new /\ views' = views \cup {new}
          /\ gambled' = IF proc[c].op = "save" THEN gambled
                        ELSE gambled \cup (dir.tmp \cap unsynced)
          /\ UNCHANGED <<partial, unsynced, acked>>
      BY <1>10 DEF RenameTmp, Rewrite, At, files, Locked
    <2>2. proc'[c] = p /\ \A d \in Callers \ {c} : proc'[d] = proc[d]
      BY <1>10, <1>become DEF RenameTmp, Goto
    <2>3. p.pc = "sync_dir" /\ p.version = w /\ p.ok = proc[c].ok
      BY DEF TypeOK, Process
    <2>4. /\ ~proc[c].ok /\ dir.tmp = {w} /\ w \notin partial
          /\ proc[c].op = "save" => w \notin unsynced
      BY <2>1 DEF StoreInv, Working
    <2>5. dir \in views /\ new.lock = dir.lock /\ new.tmp = {} /\ new.primary = {w}
      BY <2>4 DEF TypeOK, Directory
    <2>6. gambled \subseteq gambled' /\ {w} \cap (partial \cup unsynced) \subseteq gambled'
      BY <2>1, <2>4
    <2>7. MutualExclusion'
      BY <2>1, <2>2, <2>5 DEF StoreInv, MutualExclusion
    <2>8. PendingIsNewer'
      BY <2>1, <2>5 DEF StoreInv, PendingIsNewer
    <2>9. (\A view \in views : Sound(view))'
      BY <2>1, <2>5, <2>6 DEF StoreInv, Sound
    <2>10. (\A a \in acked : Reaches(a))'
      <3>1. \A a \in acked : w >= a
        <4> SUFFICES ASSUME NEW a \in acked PROVE w >= a
          OBVIOUS
        <4>1. PICK v \in dir.primary : v >= a
          BY <2>5 DEF StoreInv, Reaches
        <4>2. w > v
          BY <2>4, <2>5 DEF StoreInv, PendingIsNewer
        <4>3. w \in Nat /\ v \in Nat /\ a \in Nat
          BY <2>5, <2>4 DEF TypeOK, Directory, Versions
        <4>4. QED
          BY <4>1, <4>2, <4>3
      <3>2. QED
        BY <3>1, <2>1, <2>5 DEF StoreInv, Reaches
    <2>11. Working(c)'
      BY <2>1, <2>2, <2>3, <2>4, <2>5 DEF Working
    <2>12. QED
      BY <2>1, <2>2, <2>7, <2>8, <2>9, <2>10, <2>11, <1>others DEF StoreInv
  <1>11. ASSUME NEW c \in Callers, SyncDir(c)
         PROVE  StoreInv'
    <2> DEFINE p == [proc[c] EXCEPT !.pc = "release", !.ok = TRUE]
    <2>1. /\ proc[c].pc = "sync_dir" /\ proc[c].pc \in Locked
          /\ views' = {dir}
          /\ UNCHANGED <<dir, partial, unsynced, acked, gambled>>
      BY <1>11 DEF SyncDir, At, files, Locked
    <2>2. proc'[c] = p /\ \A d \in Callers \ {c} : proc'[d] = proc[d]
      BY <1>11, <1>become DEF SyncDir
    <2>3. p.pc = "release" /\ p.version = proc[c].version
      BY DEF TypeOK, Process
    <2>4. dir.primary = {proc[c].version}
      BY <2>1 DEF StoreInv, Working
    <2>5. MutualExclusion'
      BY <2>1, <2>2 DEF StoreInv, MutualExclusion
    <2>6. PendingIsNewer' /\ (\A view \in views : Sound(view))' /\ (\A a \in acked : Reaches(a))'
      BY <2>1 DEF TypeOK, StoreInv, PendingIsNewer, Sound, Reaches
    <2>7. \A view \in views' : \E v \in view.primary : v >= proc[c].version
      BY <2>1, <2>4 DEF TypeOK, Directory, Versions
    <2>8. Working(c)'
      BY <2>2, <2>3, <2>7 DEF Working, Reaches
    <2>9. QED
      BY <2>1, <2>2, <2>5, <2>6, <2>8, <1>others DEF StoreInv
  (* The lock is removed: by its holder, by drop after a failed start, or  *)
  (* by an operator.                                                       *)
  <1>unlock. ASSUME dir' \in {dir, Unlock}, dir' \in views', views' \subseteq views \cup {dir'},
                    UNCHANGED <<partial, unsynced, gambled>>,
                    \A a \in acked' : Reaches(a),
                    \A d \in Callers : proc'[d].pc \notin Locked /\ ~proc'[d].ok
             PROVE  StoreInv'
    <2>1. dir \in views /\ dir'.tmp = dir.tmp /\ dir'.primary = dir.primary
      BY <1>unlock DEF Unlock, TypeOK, Directory
    <2>2. MutualExclusion' /\ \A d \in Callers : Working(d)'
      BY <1>unlock, <1>out DEF MutualExclusion
    <2>3. PendingIsNewer' /\ (\A view \in views : Sound(view))'
      BY <2>1, <1>unlock DEF StoreInv, PendingIsNewer, Sound
    <2>4. (\A a \in acked : Reaches(a))'
      BY <2>1, <1>unlock DEF Reaches
    <2>5. QED
      BY <2>2, <2>3, <2>4 DEF StoreInv
  <1>12. ASSUME NEW c \in Callers, NEW removed \in BOOLEAN, NEW synced \in BOOLEAN,
                Release(c, removed, synced)
         PROVE  StoreInv'
    <2>1. /\ proc[c].pc \in Locked
          /\ dir' \in {dir, Unlock} /\ dir' \in views' /\ views' \subseteq views \cup {dir'}
          /\ UNCHANGED <<partial, unsynced, gambled>>
      BY <1>12 DEF Release, At, files, Locked
    <2>2. \A a \in acked' : Reaches(a)
      BY <1>12 DEF Release, StoreInv, Working
    <2>3. \A d \in Callers : proc'[d].pc \notin Locked /\ ~proc'[d].ok
      BY <2>1, <1>12, <1>become, <1>alone, <1>idle DEF Release, Return, Idle, Locked
    <2>4. QED
      BY <2>1, <2>2, <2>3, <1>unlock
  <1>13. ASSUME NEW c \in Callers, WriteTokenFails(c, TRUE)
         PROVE  StoreInv'
    <2>1. proc[c].pc \in Locked
      BY <1>13 DEF WriteTokenFails, At, Locked
    <2>2. \A d \in Callers : proc'[d].pc \notin Locked /\ ~proc'[d].ok
      BY <2>1, <1>13, <1>become, <1>alone, <1>idle DEF WriteTokenFails, Return, Idle, Locked
    <2>3. QED
      BY <2>2, <1>13, <1>unlock DEF WriteTokenFails, Rewrite, files, StoreInv
  <1>14. CASE OperatorRemovesLock
    <2>1. \A d \in Callers : proc[d].pc \notin Locked
      BY <1>14 DEF OperatorRemovesLock, Abandoned, StoreInv, MutualExclusion
    <2>2. QED
      BY <2>1, <1>14, <1>idle, <1>unlock DEF OperatorRemovesLock, Rewrite, files, StoreInv
  <1>15. CASE PowerLoss
    <2>1. PICK view \in views : dir' = view /\ views' = {view}
      BY <1>15 DEF PowerLoss
    <2>2. /\ partial' \subseteq partial \cup unsynced
          /\ UNCHANGED <<unsynced, acked, gambled>>
      BY <1>15 DEF PowerLoss
    <2>3. \A d \in Callers : proc'[d].pc \notin Locked /\ ~proc'[d].ok
      BY <1>15 DEF PowerLoss, Idle, Locked
    <2>4. MutualExclusion' /\ \A d \in Callers : Working(d)'
      BY <2>3, <1>out DEF MutualExclusion
    <2>5. PendingIsNewer' /\ (\A v \in views : Sound(v))' /\ (\A a \in acked : Reaches(a))'
      BY <2>1, <2>2 DEF StoreInv, PendingIsNewer, Sound, Reaches
    <2>6. QED
      BY <2>4, <2>5 DEF StoreInv
  <1>16. CASE UNCHANGED vars
    BY <1>16 DEF vars, StoreInv, MutualExclusion, PendingIsNewer, Sound, Reaches, Working
  <1>17. QED
    BY <1>1, <1>2, <1>3, <1>4, <1>5, <1>6, <1>7, <1>8, <1>9, <1>10, <1>11,
       <1>12, <1>13, <1>14, <1>15, <1>16 DEF Next, Step, Fault

(* The invariant of the lock, the pending file and the acknowledged        *)
(* snapshots, for any number of callers and saves.                         *)
THEOREM StoreInvariant == Spec => []StoreInv
  BY InvInit, InvStep, StoreTypeCorrect, PTL DEF Spec

(* acquire_file_lock admits one caller at a time, whatever fails, crashes  *)
(* or is removed by an operator.                                           *)
THEOREM LockIsExclusive == Spec => []MutualExclusion
  <1>1. StoreInv => MutualExclusion
    BY DEF StoreInv
  <1>2. QED
    BY <1>1, StoreInvariant, PTL

(* recover_atomic_snapshot never goes back in time when it promotes.       *)
THEOREM PromotionMovesForward == Spec => []PendingIsNewer
  <1>1. StoreInv => PendingIsNewer
    BY DEF StoreInv
  <1>2. QED
    BY <1>1, StoreInvariant, PTL

(* A snapshot that save_atomic_snapshot acknowledged, or a newer one, is   *)
(* the primary from then on, also after a power loss.  It is whole unless  *)
(* recover_atomic_snapshot promoted it from a file that was never synced.  *)
THEOREM AcknowledgedSurvives == Spec => []AcknowledgedStays
  <1>1. StoreInv => AcknowledgedStays
    BY DEF StoreInv, AcknowledgedStays, Reaches, Sound
  <1>2. QED
    BY <1>1, StoreInvariant, PTL

(* No step of a running caller drops a complete pending snapshot.          *)
THEOREM PendingIsNeverDropped == Spec => PendingIsKept
  <1> DEFINE Keeps == PowerLoss \/ dir.tmp \ partial \subseteq dir'.tmp \cup dir'.primary
  <1>1. TypeOK /\ [Next]_vars => [Keeps]_vars
    <2> SUFFICES ASSUME TypeOK, Next, ~PowerLoss
                 PROVE  dir.tmp \ partial \subseteq dir'.tmp \cup dir'.primary
      BY DEF Keeps
    <2>1. CASE dir' = dir
      BY <2>1
    <2>2. CASE dir' = Unlock \/ \E c \in Callers : dir' = [dir EXCEPT !.lock = {c}]
      BY <2>2 DEF Unlock, TypeOK, Directory
    <2>3. CASE \E c \in Callers : CreateTmp(c)
      BY <2>3 DEF CreateTmp
    <2>4. CASE \E c \in Callers : RenameTmp(c)
      BY <2>4 DEF RenameTmp, Rewrite, TypeOK, Directory
    <2>5. QED
      BY <2>1, <2>2, <2>3, <2>4
         DEF Next, Step, Fault, Call, Acquire, Wait, WriteToken, WriteTmp, SyncTmp,
             InspectPending, InspectPrimary, SyncDir, Refuse, Release, OpenFails,
             WriteTokenFails, IoError, Crash, OperatorRemovesLock, Rewrite
  <1>2. QED
    BY <1>1, StoreTypeCorrect, PTL DEF Spec, PendingIsKept
=============================================================================
