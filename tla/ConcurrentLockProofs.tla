------------------------- MODULE ConcurrentLockProofs -------------------------
(***************************************************************************)
(* Proofs about ConcurrentLock, for any keys and any calls.                *)
(***************************************************************************)
EXTENDS ConcurrentLock, TLAPS

(* A running task has all its keys, and none of them is past its TTL.      *)
TasksHaveEntries ==
    \A t \in running : \A k \in KeysOf(t) : locks[k] = t /\ ~due[k]

LockInv ==
    /\ TypeOK
    /\ OneTimerPerEntry
    /\ EntriesHaveTasks
    /\ ~outlived => TasksHaveEntries

LEMMA KeysOfType ==
    ASSUME NEW t \in Tasks
    PROVE  KeysOf(t) \subseteq Keys
    BY LockAssumption DEF KeysOf, NormalizeKeys

(* Releasing a set of keys takes their entries and exactly their timers.   *)
LEMMA ForceReleaseInv ==
    ASSUME TypeOK, OneTimerPerEntry, NEW ks \in SUBSET Keys, ForceRelease(ks)
    PROVE  /\ locks' \in [Keys -> Tasks \cup {NoTask}]
           /\ due' \in [Keys -> BOOLEAN]
           /\ timers' \subseteq Keys \X Tasks
           /\ OneTimerPerEntry'
           /\ \A k \in Keys : IF k \in ks THEN locks'[k] = NoTask /\ ~due'[k]
                              ELSE locks'[k] = locks[k] /\ due'[k] = due[k]
    <1>1. \A k \in Keys : IF k \in ks THEN locks'[k] = NoTask /\ ~due'[k]
                          ELSE locks'[k] = locks[k] /\ due'[k] = due[k]
        BY DEF ForceRelease, TypeOK
    <1>2. timers' = {<<k, locks[k]>> : k \in {j \in Keys : Held(j)}}
                      \ {<<k, locks[k]>> : k \in {j \in ks : Held(j)}}
        BY DEF ForceRelease, OneTimerPerEntry, TimersOf
    <1>3. timers' = {<<k, locks[k]>> : k \in {j \in Keys \ ks : Held(j)}}
        BY <1>2
    <1>4. {j \in Keys : locks'[j] # NoTask} = {j \in Keys \ ks : Held(j)}
        BY <1>1 DEF Held
    <1>5. {<<k, locks'[k]>> : k \in {j \in Keys : locks'[j] # NoTask}}
            = {<<k, locks[k]>> : k \in {j \in Keys \ ks : Held(j)}}
        BY <1>1, <1>4
    <1>6. OneTimerPerEntry'
        BY <1>3, <1>5 DEF OneTimerPerEntry, Held
    <1> QED BY <1>1, <1>6 DEF ForceRelease, TypeOK

LEMMA AcquireInv ==
    ASSUME LockInv, NEW t \in Tasks, Acquire(t)
    PROVE  LockInv'
    <1>0. TypeOK /\ OneTimerPerEntry /\ EntriesHaveTasks /\ KeysOf(t) \subseteq Keys /\ t # NoTask
        BY KeysOfType, LockAssumption DEF LockInv
    <1>1. \A k \in Keys : IF k \in KeysOf(t) THEN locks'[k] = t /\ ~due'[k]
                          ELSE locks'[k] = locks[k] /\ due'[k] = due[k]
        BY <1>0 DEF Acquire, TypeOK
    <1>2. TypeOK'
        BY <1>0 DEF Acquire, TypeOK
    <1>3. OneTimerPerEntry'
        <2>1. timers' = {<<k, locks[k]>> : k \in {j \in Keys \ KeysOf(t) : Held(j)}}
                          \cup {<<k, t>> : k \in KeysOf(t)}
            BY <1>0 DEF Acquire, OneTimerPerEntry, TimersOf
        <2>2. {j \in Keys : locks'[j] # NoTask} = {j \in Keys \ KeysOf(t) : Held(j)} \cup KeysOf(t)
            BY <1>0, <1>1 DEF Held
        <2>3. {<<k, locks'[k]>> : k \in {j \in Keys : locks'[j] # NoTask}}
                = {<<k, locks[k]>> : k \in {j \in Keys \ KeysOf(t) : Held(j)}}
                    \cup {<<k, t>> : k \in KeysOf(t)}
            BY <1>0, <1>1, <2>2
        <2> QED BY <2>1, <2>3 DEF OneTimerPerEntry, Held
    <1>4. EntriesHaveTasks'
        BY <1>0, <1>1 DEF Acquire, EntriesHaveTasks, Held
    <1>5. ~outlived' => TasksHaveEntries'
        <2> SUFFICES ASSUME ~outlived', NEW s \in running', NEW k \in KeysOf(s)
                     PROVE  locks'[k] = s /\ ~due'[k]
            BY DEF TasksHaveEntries
        <2>0. s \in Tasks /\ k \in Keys
            BY <1>0, KeysOfType DEF Acquire, TypeOK
        <2>1. CASE s = t
            BY <1>1, <2>0, <2>1
        <2>2. CASE s # t
            <3>1. s \in running /\ locks[k] = s /\ ~due[k] /\ s # NoTask
                BY <2>0, <2>2, LockAssumption DEF Acquire, LockInv, TasksHaveEntries
            <3>2. k \notin KeysOf(t)
                BY <3>1 DEF Acquire, Conflicts, Blocked, Held
            <3> QED BY <1>1, <2>0, <3>1, <3>2
        <2> QED BY <2>1, <2>2
    <1> QED BY <1>2, <1>3, <1>4, <1>5 DEF LockInv

(* A refused call, a call that ends and a look at a key release keys that  *)
(* no other running task has in time.                                      *)
LEMMA ReleaseInv ==
    ASSUME LockInv, NEW ks \in SUBSET Keys, ForceRelease(ks),
           running' \subseteq running,
           \A k \in Keys \ ks : locks[k] \in running => locks[k] \in running',
           outlived' = outlived,
           ~outlived => \A s \in running' : KeysOf(s) \cap ks = {}
    PROVE  LockInv'
    <1>0. TypeOK /\ OneTimerPerEntry /\ EntriesHaveTasks
        BY DEF LockInv
    <1>1. /\ OneTimerPerEntry'
          /\ \A k \in Keys : IF k \in ks THEN locks'[k] = NoTask /\ ~due'[k]
                             ELSE locks'[k] = locks[k] /\ due'[k] = due[k]
        BY <1>0, ForceReleaseInv
    <1>2. TypeOK'
        BY <1>0, ForceReleaseInv DEF TypeOK
    <1>3. EntriesHaveTasks'
        BY <1>0, <1>1 DEF EntriesHaveTasks, Held
    <1>4. ASSUME ~outlived, NEW s \in running', NEW k \in KeysOf(s)
          PROVE  locks'[k] = s /\ ~due'[k]
        <2>1. k \in Keys /\ k \notin ks /\ locks[k] = s /\ ~due[k]
            BY <1>0, <1>4, KeysOfType DEF LockInv, TasksHaveEntries, TypeOK
        <2> QED BY <1>1, <2>1
    <1> QED BY <1>1, <1>2, <1>3, <1>4 DEF LockInv, TasksHaveEntries

LEMMA RefuseInv ==
    ASSUME LockInv, NEW t \in Tasks, Refuse(t)
    PROVE  LockInv'
    <1>1. Passed(t) \subseteq Keys /\ ForceRelease(Passed(t)) /\ running' = running /\ outlived' = outlived
        BY KeysOfType DEF Passed, Refuse
    <1>2. ASSUME ~outlived, NEW s \in running, NEW k \in KeysOf(s), k \in Passed(t)
          PROVE  FALSE
        <2>1. k \in Keys /\ locks[k] = s /\ ~due[k] /\ s # NoTask
            BY <1>1, <1>2, LockAssumption DEF LockInv, TasksHaveEntries, TypeOK
        <2>2. k \in Conflicts(t)
            BY <1>2, <2>1 DEF Conflicts, Blocked, Held, Passed
        <2> QED BY <1>2, <2>1, <2>2, LockAssumption DEF Passed
    <1> QED BY <1>1, <1>2, ReleaseInv

LEMMA FinishInv ==
    ASSUME LockInv, NEW t \in Tasks, Finish(t)
    PROVE  LockInv'
    <1>1. KeysOf(t) \subseteq Keys /\ ForceRelease(KeysOf(t)) /\ running' = running \ {t} /\ outlived' = outlived
        BY KeysOfType DEF Finish
    <1>2. \A k \in Keys \ KeysOf(t) : locks[k] \in running => locks[k] \in running'
        BY <1>1, LockAssumption DEF LockInv, EntriesHaveTasks, Held, TypeOK
    <1>3. ~outlived => \A s \in running' : KeysOf(s) \cap KeysOf(t) = {}
        BY <1>1 DEF Finish, LockInv, TasksHaveEntries
    <1> QED BY <1>1, <1>2, <1>3, ReleaseInv

LEMMA IsLockedInv ==
    ASSUME LockInv, NEW k \in Keys, IsLocked(k)
    PROVE  LockInv'
    <1>1. {k} \subseteq Keys /\ ForceRelease({k}) /\ running' = running /\ outlived' = outlived /\ due[k]
        BY DEF IsLocked
    <1>2. ~outlived => \A s \in running' : KeysOf(s) \cap {k} = {}
        BY <1>1 DEF LockInv, TasksHaveEntries
    <1> QED BY <1>1, <1>2, ReleaseInv

LEMMA ElapseInv ==
    ASSUME LockInv, NEW k \in Keys, Elapse(k)
    PROVE  LockInv'
    <1>1. /\ UNCHANGED <<locks, timers, running>> /\ due' = [due EXCEPT ![k] = TRUE]
          /\ outlived' \in BOOLEAN
          /\ ~outlived' => ~outlived /\ locks[k] \notin running
        BY DEF Elapse, LockInv, TypeOK
    <1>2. TypeOK' /\ OneTimerPerEntry' /\ EntriesHaveTasks'
        BY <1>1 DEF LockInv, TypeOK, OneTimerPerEntry, EntriesHaveTasks, Held
    <1>3. ASSUME ~outlived', NEW s \in running', NEW j \in KeysOf(s)
          PROVE  locks'[j] = s /\ ~due'[j]
        <2>1. s \in running /\ j \in Keys /\ locks[j] = s /\ ~due[j]
            BY <1>1, <1>3, KeysOfType DEF LockInv, TypeOK, TasksHaveEntries
        <2>2. j # k
            BY <1>1, <1>3, <2>1
        <2> QED BY <1>1, <2>1, <2>2 DEF LockInv, TypeOK
    <1> QED BY <1>2, <1>3 DEF LockInv, TasksHaveEntries

(* A timer fires for the entry that armed it: the timer of an earlier one  *)
(* was cleared with it.                                                    *)
LEMMA FireInv ==
    ASSUME LockInv, NEW k \in Keys, NEW t \in Tasks, Fire(k, t)
    PROVE  LockInv'
    <1>0. TypeOK /\ OneTimerPerEntry
        BY DEF LockInv
    <1>1. locks[k] = t /\ Held(k) /\ due[k]
        BY <1>0 DEF Fire, OneTimerPerEntry
    <1>2. ForceRelease({k})
        <2>1. locks' = [j \in Keys |-> IF j \in {k} THEN NoTask ELSE locks[j]]
            BY <1>0 DEF Fire, TypeOK
        <2>2. due' = [j \in Keys |-> due[j] /\ j \notin {k}]
            BY <1>0 DEF Fire, TypeOK
        <2>3. TimersOf({k}) = {<<k, t>>}
            BY <1>1 DEF TimersOf
        <2> QED BY <2>1, <2>2, <2>3 DEF Fire, ForceRelease
    <1>3. running' = running /\ outlived' = outlived
        BY DEF Fire
    <1>4. ~outlived => \A s \in running' : KeysOf(s) \cap {k} = {}
        BY <1>1, <1>3 DEF LockInv, TasksHaveEntries
    <1> QED BY <1>2, <1>3, <1>4, ReleaseInv

LEMMA InitLockInv == Init => LockInv
    <1> SUFFICES ASSUME Init PROVE LockInv OBVIOUS
    <1>1. TypeOK /\ OneTimerPerEntry /\ EntriesHaveTasks
        BY DEF Init, TypeOK, OneTimerPerEntry, EntriesHaveTasks, Held
    <1>2. TasksHaveEntries
        BY DEF Init, TasksHaveEntries
    <1> QED BY <1>1, <1>2 DEF LockInv

LEMMA NextLockInv == LockInv /\ [Next]_vars => LockInv'
    <1> SUFFICES ASSUME LockInv, [Next]_vars PROVE LockInv' OBVIOUS
    <1>1. ASSUME NEW t \in Tasks, RunExclusive(t) PROVE LockInv'
        BY <1>1, AcquireInv, RefuseInv, FinishInv DEF RunExclusive
    <1>2. ASSUME NEW k \in Keys, IsLocked(k) \/ Elapse(k) PROVE LockInv'
        BY <1>2, IsLockedInv, ElapseInv
    <1>3. ASSUME NEW k \in Keys, NEW t \in Tasks, Fire(k, t) PROVE LockInv'
        BY <1>3, FireInv
    <1>4. CASE UNCHANGED vars
        BY <1>4 DEF vars, LockInv, TypeOK, OneTimerPerEntry, EntriesHaveTasks, TasksHaveEntries, Held
    <1> QED BY <1>1, <1>2, <1>3, <1>4 DEF Next

(* The map, the timers and the running tasks agree as LockInv says.        *)
THEOREM LockInvariant == Spec => []LockInv
    BY InitLockInv, NextLockInv, PTL DEF Spec

(* However long tasks take, the timer of a released entry is cleared: it   *)
(* never removes an entry of a later call.                                 *)
THEOREM TimersMatchEntries == Spec => []OneTimerPerEntry
    <1>1. LockInv => OneTimerPerEntry
        BY DEF LockInv
    <1> QED BY <1>1, LockInvariant, PTL

(* No entry outlives the task it was made for, and a refused call leaves   *)
(* none: a key is locked only while a task that asked for it runs.         *)
THEOREM EntriesMatchTasks == Spec => []EntriesHaveTasks
    <1>1. LockInv => EntriesHaveTasks
        BY DEF LockInv
    <1> QED BY <1>1, LockInvariant, PTL

(* Until a task has run past its TTL, two tasks that share a key never run *)
(* at the same time.                                                       *)
THEOREM TasksExclude == Spec => []MutualExclusion
    <1>1. LockInv => MutualExclusion
        BY DEF LockInv, TasksHaveEntries, MutualExclusion
    <1> QED BY <1>1, LockInvariant, PTL

=============================================================================
