---------------------------- MODULE SharedMutex ----------------------------
(* wawo::thread::_impl_::shared_mutex (include/wawo/thread/Mutex.hpp): a   *)
(* reader/writer lock with an upgradable shared mode, built from a state   *)
(* mutex, a state_data record and three condition variables.  Every method *)
(* body runs under m_state_mutex, so it is one atomic step up to the wait *)
(* of its while loop; a waiting thread sleeps until notified, then         *)
(* re-takes the state mutex and re-tests its loop condition.  Spurious     *)
(* wakeups are possible in C++ but never guaranteed, so no progress may    *)
(* rely on them: a waiter here wakes only when notified.                   *)
EXTENDS Naturals, FiniteSets

CONSTANTS
  Threads,   \* the threads that use one shared_mutex
  Calls,     \* the methods those threads call
  MaxOps     \* lock calls per thread, mode changes included (bounds the run)

ASSUME Calls \subseteq {"lock_shared", "try_lock_shared", "lock", "try_lock",
                        "lock_upgrade", "unlock_shared_and_lock",
                        "unlock_and_lock_shared", "unlock_upgrade_and_lock"}
ASSUME MaxOps \in Nat

\* state_data::UpgradeState
S_UP_SET == 1
S_UP_UPING == 2
S_UP_NOSET == 3

\* where a thread is: outside the lock, holding it, or in a method's wait loop
Held == {"shared", "upgrade", "excl"}
Waits == {"w_lock_shared", "w_lock_upgrade", "w_lock", "w_shared_to_lock",
          "w_upgrade_to_lock"}

\* the condition variable each wait loop sleeps on
CondOf(w) ==
  CASE w \in {"w_lock_shared", "w_lock_upgrade"} -> "shared"
    [] w \in {"w_lock", "w_shared_to_lock"}      -> "exclusive"
    [] w = "w_upgrade_to_lock"                    -> "upgrade"

VARIABLES
  shared_count, upgrade, exclusive,  \* m_state
  pc,        \* pc[t]: "idle", a member of Held, or a member of Waits
  blocked,   \* the waiting threads that have not been notified
  ops,       \* lock calls and mode changes made per thread
  failed     \* WAWO_ASSERTs that did not hold

vars == <<shared_count, upgrade, exclusive, pc, blocked, ops, failed>>

Init ==
  /\ shared_count = 0 /\ upgrade = S_UP_NOSET /\ exclusive = FALSE
  /\ pc = [t \in Threads |-> "idle"]
  /\ blocked = {}
  /\ ops = [t \in Threads |-> 0]
  /\ failed = {}

\* Fault-injection variants of the state tests: a reader ignores an
\* exclusive holder; a writer ignores the readers.
CanLockSharedNoExcl(sc, up, ex) == up = S_UP_NOSET
CanLockExclNoReaders(sc, up, ex) == ~ex
\* ... and a reader ignores the upgrade state.
CanLockSharedIgnoresUpgrade(sc, up, ex) == ~ex

\* state_data::can_lock_shared() (= can_lock_upgrade()) on state (sc, up, ex)
CanLockShared(sc, up, ex) == ~ex /\ up = S_UP_NOSET
\* the loop condition of lock(), unlock_shared_and_lock() and
\* unlock_upgrade_and_lock(), negated
CanLockExcl(sc, up, ex) == sc = 0 /\ ~ex

\* the loop test of wait w passes on state (sc, up, ex)
CanProceed(w, sc, up, ex) ==
  IF CondOf(w) = "shared" THEN CanLockShared(sc, up, ex)
                          ELSE CanLockExcl(sc, up, ex)

(* The sets of threads a notify can wake, as a set of choices *)
Sleepers(c) == {u \in blocked : CondOf(pc[u]) = c}
NotifyOne(c) == IF Sleepers(c) = {} THEN {{}} ELSE {{u} : u \in Sleepers(c)}
\* _notify_waiters(): m_exclusive_cond.notify_one(), m_shared_cond.notify_all()
NotifyWaiters == {w \cup Sleepers("shared") : w \in NotifyOne("exclusive")}

Check(ok, name) == failed' = failed \cup (IF ok THEN {} ELSE {name})

(* Fault-injection variant of the wait loop: lock_upgrade() does not count *)
(* its holder in shared_count.                                             *)
LoopUpgradeUncounted(t, w, sc, up, ex) ==
  IF CanProceed(w, sc, up, ex)
  THEN CASE w = "w_lock_shared" ->
              /\ shared_count' = sc + 1 /\ upgrade' = up /\ exclusive' = ex
              /\ pc' = [pc EXCEPT ![t] = "shared"]
         [] w = "w_lock_upgrade" ->
              /\ shared_count' = sc /\ upgrade' = S_UP_SET
              /\ exclusive' = ex
              /\ pc' = [pc EXCEPT ![t] = "upgrade"]
         [] w \in {"w_lock", "w_shared_to_lock"} ->
              /\ shared_count' = sc /\ upgrade' = up /\ exclusive' = TRUE
              /\ pc' = [pc EXCEPT ![t] = "excl"]
         [] w = "w_upgrade_to_lock" ->
              /\ shared_count' = sc /\ exclusive' = TRUE
              /\ upgrade' = S_UP_NOSET
              /\ pc' = [pc EXCEPT ![t] = "excl"]
  ELSE /\ shared_count' = sc /\ upgrade' = up /\ exclusive' = ex
       /\ pc' = [pc EXCEPT ![t] = w]

(* The loop of wait w, entered by t on state (sc, up, ex) with the state  *)
(* mutex held: take the lock (state_data effects) or sleep on CondOf(w). *)
Loop(t, w, sc, up, ex) ==
  IF CanProceed(w, sc, up, ex)
  THEN CASE w = "w_lock_shared" ->
              /\ shared_count' = sc + 1 /\ upgrade' = up /\ exclusive' = ex
              /\ pc' = [pc EXCEPT ![t] = "shared"]
         [] w = "w_lock_upgrade" ->
              /\ shared_count' = sc + 1 /\ upgrade' = S_UP_SET
              /\ exclusive' = ex
              /\ pc' = [pc EXCEPT ![t] = "upgrade"]
         [] w \in {"w_lock", "w_shared_to_lock"} ->
              /\ shared_count' = sc /\ upgrade' = up /\ exclusive' = TRUE
              /\ pc' = [pc EXCEPT ![t] = "excl"]
         [] w = "w_upgrade_to_lock" ->
              /\ shared_count' = sc /\ exclusive' = TRUE
              /\ upgrade' = S_UP_NOSET    \* lock_upgrade_up_done()
              /\ pc' = [pc EXCEPT ![t] = "excl"]
  ELSE /\ shared_count' = sc /\ upgrade' = up /\ exclusive' = ex
       /\ pc' = [pc EXCEPT ![t] = w]

\* t sleeps after Loop(t, w, ...) exactly when it did not take the lock
SleepsIn(t, w, sc, up, ex) == IF CanProceed(w, sc, up, ex) THEN {} ELSE {t}

-----------------------------------------------------------------------------
(* Acquiring calls, from outside the lock *)

\* lock_shared(), lock() and lock_upgrade(): the wait loop on the current state
Acquire(t, m, w) ==
  /\ pc[t] = "idle" /\ m \in Calls /\ ops[t] < MaxOps
  /\ Loop(t, w, shared_count, upgrade, exclusive)
  /\ blocked' = blocked \cup SleepsIn(t, w, shared_count, upgrade, exclusive)
  /\ ops' = [ops EXCEPT ![t] = @ + 1]
  /\ UNCHANGED failed

LockShared(t) == Acquire(t, "lock_shared", "w_lock_shared")
Lock(t) == Acquire(t, "lock", "w_lock")
LockUpgrade(t) == Acquire(t, "lock_upgrade", "w_lock_upgrade")

\* try_lock_shared() and try_lock(): take the lock if the test passes, else
\* return false
TryAcquire(t, m, w) ==
  /\ pc[t] = "idle" /\ m \in Calls /\ ops[t] < MaxOps
  /\ IF CanProceed(w, shared_count, upgrade, exclusive)
     THEN Loop(t, w, shared_count, upgrade, exclusive)
     ELSE UNCHANGED <<shared_count, upgrade, exclusive, pc>>
  /\ ops' = [ops EXCEPT ![t] = @ + 1]
  /\ UNCHANGED <<blocked, failed>>

TryLockShared(t) == TryAcquire(t, "try_lock_shared", "w_lock_shared")
TryLock(t) == TryAcquire(t, "try_lock", "w_lock")

(* A notified waiter re-takes the state mutex and re-tests its loop *)
Recheck(t) ==
  /\ pc[t] \in Waits /\ t \notin blocked
  /\ Loop(t, pc[t], shared_count, upgrade, exclusive)
  /\ blocked' = blocked \cup SleepsIn(t, pc[t], shared_count, upgrade, exclusive)
  /\ UNCHANGED <<ops, failed>>

-----------------------------------------------------------------------------
(* Releasing calls, from a held mode *)

(* unlock_shared(): the last reader out wakes the upgrader if one holds    *)
(* the upgrade mode, the waiters otherwise.                                *)
UnlockShared(t) ==
  LET sc == shared_count - 1 IN
  /\ pc[t] = "shared"
  /\ Check(shared_count > 0 /\ ~exclusive, "unlock_shared")
  /\ shared_count' = sc
  /\ pc' = [pc EXCEPT ![t] = "idle"]
  /\ \E w \in (IF sc > 0 THEN {{}}
               ELSE IF upgrade = S_UP_SET THEN NotifyOne("upgrade")
               ELSE NotifyWaiters) :
       blocked' = blocked \ w
  /\ UNCHANGED <<upgrade, exclusive, ops>>

(* unlock_shared_and_lock(): give up the shared mode, wait for exclusive  *)
UnlockSharedAndLock(t) ==
  /\ pc[t] = "shared" /\ "unlock_shared_and_lock" \in Calls
  /\ ops[t] < MaxOps /\ ops' = [ops EXCEPT ![t] = @ + 1]
  /\ Check(shared_count > 0 /\ ~exclusive, "unlock_shared_and_lock")
  /\ Loop(t, "w_shared_to_lock", shared_count - 1, upgrade, exclusive)
  /\ blocked' = blocked \cup
       SleepsIn(t, "w_shared_to_lock", shared_count - 1, upgrade, exclusive)


(* Fault-injection variant of unlock(): only one exclusive waiter is woken *)
UnlockNotifyOne(t) ==
  /\ pc[t] = "excl"
  /\ Check(shared_count = 0 /\ exclusive, "unlock")
  /\ exclusive' = FALSE
  /\ pc' = [pc EXCEPT ![t] = "idle"]
  /\ \E w \in NotifyOne("exclusive") : blocked' = blocked \ w
  /\ UNCHANGED <<shared_count, upgrade, ops>>

(* unlock(): clear exclusive and wake the waiters *)
Unlock(t) ==
  /\ pc[t] = "excl"
  /\ Check(shared_count = 0 /\ exclusive, "unlock")
  /\ exclusive' = FALSE
  /\ pc' = [pc EXCEPT ![t] = "idle"]
  /\ \E w \in NotifyWaiters : blocked' = blocked \ w
  /\ UNCHANGED <<shared_count, upgrade, ops>>

(* unlock_and_lock_shared(): downgrade to shared without notifying anyone *)
UnlockAndLockShared(t) ==
  /\ pc[t] = "excl" /\ "unlock_and_lock_shared" \in Calls
  /\ ops[t] < MaxOps /\ ops' = [ops EXCEPT ![t] = @ + 1]
  /\ Check(shared_count = 0 /\ exclusive /\ upgrade = S_UP_NOSET,
            "unlock_and_lock_shared")
  /\ exclusive' = FALSE
  /\ shared_count' = shared_count + 1
  /\ pc' = [pc EXCEPT ![t] = "shared"]
  /\ UNCHANGED <<upgrade, blocked>>

(* unlock_upgrade(): leave the upgrade mode; wake the shared waiters if    *)
(* readers remain, all waiters otherwise.                                  *)
UnlockUpgrade(t) ==
  LET sc == shared_count - 1 IN
  /\ pc[t] = "upgrade"
  /\ Check(upgrade = S_UP_SET /\ shared_count > 0, "unlock_upgrade")
  /\ upgrade' = S_UP_NOSET
  /\ shared_count' = sc
  /\ pc' = [pc EXCEPT ![t] = "idle"]
  /\ \E w \in (IF sc > 0 THEN {Sleepers("shared")} ELSE NotifyWaiters) :
       blocked' = blocked \ w
  /\ UNCHANGED <<exclusive, ops>>

(* unlock_upgrade_and_lock(): unlock_upgrade_and_up() marks S_UP_UPING and *)
(* drops the shared count, then wait on m_upgrade_cond for exclusive.      *)
UnlockUpgradeAndLock(t) ==
  /\ pc[t] = "upgrade" /\ "unlock_upgrade_and_lock" \in Calls
  /\ ops[t] < MaxOps /\ ops' = [ops EXCEPT ![t] = @ + 1]
  /\ Check(upgrade = S_UP_SET /\ shared_count > 0, "unlock_upgrade_and_lock")
  /\ Loop(t, "w_upgrade_to_lock", shared_count - 1, S_UP_UPING, exclusive)
  /\ blocked' = blocked \cup
       SleepsIn(t, "w_upgrade_to_lock", shared_count - 1, S_UP_UPING, exclusive)


-----------------------------------------------------------------------------
\* the calls that leave a held mode: every holder eventually makes one
Release(t) ==
  \/ UnlockShared(t) \/ UnlockSharedAndLock(t)
  \/ Unlock(t) \/ UnlockAndLockShared(t)
  \/ UnlockUpgrade(t) \/ UnlockUpgradeAndLock(t)

Next ==
  \E t \in Threads :
    \/ LockShared(t) \/ Lock(t) \/ LockUpgrade(t)
    \/ TryLockShared(t) \/ TryLock(t)
    \/ Recheck(t)
    \/ Release(t)

(* Threads hold the lock for a finite time, and a notified thread is      *)
(* scheduled; when to take the lock is the caller's choice.               *)
Fairness == \A t \in Threads : WF_vars(Release(t)) /\ WF_vars(Recheck(t))

Spec == Init /\ [][Next]_vars
FairSpec == Spec /\ Fairness

-----------------------------------------------------------------------------
(* Properties *)

TypeOK ==
  /\ shared_count \in Nat
  /\ upgrade \in {S_UP_SET, S_UP_UPING, S_UP_NOSET}
  /\ exclusive \in BOOLEAN
  /\ pc \in [Threads -> {"idle"} \cup Held \cup Waits]
  /\ blocked \subseteq {t \in Threads : pc[t] \in Waits}
  /\ ops \in [Threads -> 0..MaxOps]
  /\ failed \subseteq {"unlock_shared", "unlock_shared_and_lock", "unlock",
                       "unlock_and_lock_shared", "unlock_upgrade",
                       "unlock_upgrade_and_lock"}

(* Mutual exclusion over every interleaving of the lock, unlock, upgrade   *)
(* and downgrade methods: an exclusive holder is alone, at most one thread *)
(* holds the upgrade mode, and m_state's shared_count and exclusive flag   *)
(* agree with the threads that hold the lock.                              *)
MutualExclusion ==
  /\ \A t, u \in Threads :
       t # u /\ pc[t] = "excl" => pc[u] \notin Held
  /\ \A t, u \in Threads :
       t # u /\ pc[t] = "upgrade" => pc[u] # "upgrade"
  /\ shared_count = Cardinality({t \in Threads : pc[t] \in {"shared", "upgrade"}})
  /\ exclusive = (\E t \in Threads : pc[t] = "excl")

(* Upgrade priority: from lock_upgrade() until the upgrader holds the      *)
(* exclusive lock or leaves, no other thread newly enters the shared or   *)
(* upgrade mode.  can_lock_shared() and can_lock_upgrade() refuse while    *)
(* upgrade is S_UP_SET or S_UP_UPING, so readers arriving one after the   *)
(* other cannot keep shared_count above zero and starve the upgrader;     *)
(* only a writer can overtake it.                                          *)
Upgrading(t) == pc[t] \in {"upgrade", "w_upgrade_to_lock"}
UpgradeHoldsOffReaders ==
  [][\A t, u \in Threads :
       t # u /\ Upgrading(t) /\ pc[u] \notin {"shared", "upgrade"}
         => pc'[u] \notin {"shared", "upgrade"}]_vars

(* No WAWO_ASSERT of the release methods fails *)
NoFailedAsserts == failed = {}

(* No lost wakeup: a thread in a wait loop of lock_shared(), lock(),       *)
(* lock_upgrade(), unlock_shared_and_lock() or unlock_upgrade_and_lock()   *)
(* eventually gets the lock it waits for.                                  *)
WaitersProceed == \A t \in Threads : pc[t] \in Waits ~> pc[t] \in Held
=============================================================================
