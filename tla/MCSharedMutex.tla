---------------------------- MODULE MCSharedMutex ----------------------------
(* Model-checking instance of SharedMutex *)
EXTENDS SharedMutex, TLC

CONSTANTS t1, t2, t3

MCThreads == {t1, t2, t3}

\* every method except the upgrade to exclusive
MCNoUpgradeToLock == {"lock_shared", "try_lock_shared", "lock", "try_lock",
                      "lock_upgrade", "unlock_shared_and_lock",
                      "unlock_and_lock_shared"}

\* readers, a writer and an upgrader that upgrades
MCAllCalls == MCNoUpgradeToLock \cup {"unlock_upgrade_and_lock"}

\* every method except the downgrade from exclusive
MCNoDowngrade == MCAllCalls \ {"unlock_and_lock_shared"}

MCSymmetry == Permutations(MCThreads)
=============================================================================
