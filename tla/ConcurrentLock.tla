--------------------------- MODULE ConcurrentLock ---------------------------
(***************************************************************************)
(* InMemoryConcurrentLockService (share/component/concurrent-lock.ts):     *)
(* runExclusive(keys, task) holds every key of a call while its task runs. *)
(* An entry has a timer that removes it when the TTL has passed, whether   *)
(* or not the task has ended; the task's own release is by key.            *)
(*                                                                         *)
(* JavaScript runs one step at a time: the loop that acquires the keys, a  *)
(* release and a timer callback are each one action.                       *)
(***************************************************************************)
EXTENDS Naturals, FiniteSets

CONSTANTS
    Tasks,      \* the calls of runExclusive
    NoTask,     \* the owner of a key nobody holds
    Keys,       \* the normalised keys: naturals, in the order sort() puts them
    RawKeys     \* RawKeys[t]: the keys call t passes, 0 being a blank one

ASSUME LockAssumption ==
    /\ NoTask \notin Tasks
    /\ Keys \subseteq Nat \ {0}
    /\ RawKeys \in [Tasks -> SUBSET (Keys \cup {0})]

VARIABLES
    locks,    \* locks[k]: the call whose entry the map holds for k, or NoTask
    due,      \* due[k]: expiresAt of the entry of k has passed
    timers,   \* the armed timeouts: pairs <<key, call that armed it>>
    running,  \* the calls whose task has started and not ended
    outlived  \* whether a task has run past the TTL of an entry of its (history)

vars == <<locks, due, timers, running, outlived>>

NormalizeKeys(ks) == ks \ {0}
KeysOf(t) == NormalizeKeys(RawKeys[t])

TypeOK ==
    /\ locks \in [Keys -> Tasks \cup {NoTask}]
    /\ due \in [Keys -> BOOLEAN]
    /\ timers \subseteq Keys \X Tasks
    /\ running \subseteq Tasks
    /\ outlived \in BOOLEAN

Init ==
    /\ locks = [k \in Keys |-> NoTask]
    /\ due = [k \in Keys |-> FALSE]
    /\ timers = {}
    /\ running = {}
    /\ outlived = FALSE

-----------------------------------------------------------------------------
(* forceRelease(key): whoever holds the entry, it and its timer go.        *)

Held(k) == locks[k] # NoTask
TimersOf(ks) == {<<k, locks[k]>> : k \in {j \in ks : Held(j)}}

\* The release of a call that forgot clearTimeout.
ReleaseKeepingTimers(ks) ==
    /\ locks' = [k \in Keys |-> IF k \in ks THEN NoTask ELSE locks[k]]
    /\ due' = [k \in Keys |-> due[k] /\ k \notin ks]
    /\ UNCHANGED timers

ForceRelease(ks) ==
    /\ locks' = [k \in Keys |-> IF k \in ks THEN NoTask ELSE locks[k]]
    /\ due' = [k \in Keys |-> due[k] /\ k \notin ks]
    /\ timers' = timers \ TimersOf(ks)

\* An acquire that tests nothing.
Unblocked(k) == FALSE

(* acquire(key) succeeds on a free key and on an entry past its TTL, which *)
(* pruneExpired removes first.                                             *)
Blocked(k) == Held(k) /\ ~due[k]
Conflicts(t) == {k \in KeysOf(t) : Blocked(k)}

Acquire(t) ==
    /\ t \notin running
    /\ Conflicts(t) = {}
    /\ locks' = [k \in Keys |-> IF k \in KeysOf(t) THEN t ELSE locks[k]]
    /\ due' = [k \in Keys |-> due[k] /\ k \notin KeysOf(t)]
    /\ timers' = (timers \ TimersOf(KeysOf(t))) \cup (KeysOf(t) \X {t})
    /\ running' = running \cup {t}
    /\ UNCHANGED outlived

(* The keys before the first conflict were acquired and are released: an   *)
(* expired entry among them is gone too.                                   *)
Passed(t) == {k \in KeysOf(t) : \A c \in Conflicts(t) : k < c}
Refuse(t) ==
    /\ t \notin running
    /\ Conflicts(t) # {}
    /\ ForceRelease(Passed(t))
    /\ UNCHANGED <<running, outlived>>

\* An end without the finally block.
FinishKeepingKeys(t) ==
    /\ t \in running
    /\ running' = running \ {t}
    /\ UNCHANGED <<locks, due, timers, outlived>>

\* finally { releaseMany(acquiredKeys) }
Finish(t) ==
    /\ t \in running
    /\ running' = running \ {t}
    /\ UNCHANGED outlived
    /\ ForceRelease(KeysOf(t))

\* isLocked(key) prunes before it answers.
IsLocked(k) ==
    /\ due[k]
    /\ ForceRelease({k})
    /\ UNCHANGED <<running, outlived>>

\* The TTL of an entry passes.
Elapse(k) ==
    /\ Held(k) /\ ~due[k]
    /\ due' = [due EXCEPT ![k] = TRUE]
    /\ outlived' = (outlived \/ locks[k] \in running)
    /\ UNCHANGED <<locks, timers, running>>

\* A timeout that is never delivered.
NeverFire(k, t) == FALSE /\ UNCHANGED vars

(* The timeout armed with an entry fires: it removes the entry its key has *)
(* at that moment. One armed for an entry that is gone fires at any time.  *)
Fire(k, t) ==
    /\ <<k, t>> \in timers
    /\ locks[k] = t => due[k]
    /\ locks' = [locks EXCEPT ![k] = NoTask]
    /\ due' = [due EXCEPT ![k] = FALSE]
    /\ timers' = (timers \ {<<k, t>>}) \ TimersOf({k})
    /\ UNCHANGED <<running, outlived>>

RunExclusive(t) == Acquire(t) \/ Refuse(t) \/ Finish(t)

Next ==
    \/ \E t \in Tasks : RunExclusive(t)
    \/ \E k \in Keys : IsLocked(k) \/ Elapse(k)
    \/ \E k \in Keys, t \in Tasks : Fire(k, t)

Spec == Init /\ [][Next]_vars

(* Timers fire and time passes; that a task ends is not assumed.           *)
FairSpec ==
    /\ Spec
    /\ \A k \in Keys : WF_vars(Elapse(k))
    /\ \A k \in Keys, t \in Tasks : WF_vars(Fire(k, t))

-----------------------------------------------------------------------------
(* No two tasks that share a key run at the same time, which is what         *)
(* runExclusive is for, as long as no task has run past its TTL: refusals,    *)
(* expired entries and the timers of earlier calls take no key of another.   *)
MutualExclusion ==
    ~outlived => \A s, t \in running : s # t => KeysOf(s) \cap KeysOf(t) = {}

(* Every armed timeout belongs to the entry the map holds: the timer of a  *)
(* released entry is cleared and can never remove a later entry. It holds  *)
(* however long tasks take.                                                *)
OneTimerPerEntry == timers = {<<k, locks[k]>> : k \in {j \in Keys : Held(j)}}

(* An entry belongs to a running task that asked for its key: a call that  *)
(* was refused, or ended, leaves no key locked.                            *)
EntriesHaveTasks ==
    \A k \in Keys : Held(k) => locks[k] \in running /\ k \in KeysOf(locks[k])

(* A key is not held for ever, even by a task that never ends: the TTL     *)
(* gives it back.                                                          *)
KeysComeBack == \A k \in Keys, t \in Tasks : locks[k] = t ~> locks[k] # t
=============================================================================
