---------------------------- MODULE LockManager ----------------------------
(***************************************************************************)
(* The lock table of a shard: LockManager in pkg/txn/types.go.              *)
(*                                                                         *)
(* The table keeps two maps that must agree: the lock of each key and the   *)
(* keys of each transaction.  It has no mutex, and its one user in the      *)
(* repository calls it from one goroutine: a call is one action.  Of a lock *)
(* the owner and the expiry matter; time passing is an action.              *)
(***************************************************************************)
EXTENDS Naturals

CONSTANTS LockKey, LockTxn, NoTxn

ASSUME LockAssumption == NoTxn \notin LockTxn

VARIABLES
    locks,       \* LockManager.locks: owner of each key's lock and its expiry
    txnLocks     \* LockManager.txnLocks: the keys of each transaction

lockVars == <<locks, txnLocks>>

\* "never": ExpiresAt is zero; "ahead" and "past": before and after ExpiresAt.
Expiry == {"never", "ahead", "past"}

Free == [txn |-> NoTxn, expiry |-> "never"]

LockInit ==
    /\ locks = [k \in LockKey |-> Free]
    /\ txnLocks = [t \in LockTxn |-> {}]

HasConflict(k, t) == locks[k].txn \notin {NoTxn, t}

Expired(k) == locks[k].expiry = "past"

\* The key's lock becomes t's.
Take(k, t, e) == locks' = [locks EXCEPT ![k] = [txn |-> t, expiry |-> e]]

TryLockFree(k, t, e) ==
    /\ locks[k] = Free
    /\ Take(k, t, e)
    /\ txnLocks' = [txnLocks EXCEPT ![t] = @ \cup {k}]

\* Mutant: a lock without an expiry time is taken for one that expired long ago.
StealMutant(k, t, e) ==
    /\ HasConflict(k, t) /\ locks[k].expiry # "ahead"
    /\ Take(k, t, e)
    /\ txnLocks' = [txnLocks EXCEPT ![locks[k].txn] = @ \ {k}, ![t] = @ \cup {k}]

\* A lock past its expiry is taken over.  A transaction that locks its own key
\* again changes nothing (the expiry stays), and any other caller is refused.
Steal(k, t, e) ==
    /\ HasConflict(k, t) /\ Expired(k)
    /\ Take(k, t, e)
    /\ txnLocks' = [txnLocks EXCEPT ![locks[k].txn] = @ \ {k}, ![t] = @ \cup {k}]

TryLock(k, t, e) == TryLockFree(k, t, e) \/ Steal(k, t, e)

\* Every lock the transaction is known to hold is deleted.
Unlock(t) ==
    /\ locks' = [k \in LockKey |-> IF k \in txnLocks[t] THEN Free ELSE locks[k]]
    /\ txnLocks' = [txnLocks EXCEPT ![t] = {}]

UnlockKey(k, t) ==
    /\ locks[k].txn = t
    /\ locks' = [locks EXCEPT ![k] = Free]
    /\ txnLocks' = [txnLocks EXCEPT ![t] = @ \ {k}]

\* The clock passes the expiry of a lock.
LockExpires(k) ==
    /\ locks[k].expiry = "ahead"
    /\ locks' = [locks EXCEPT ![k].expiry = "past"]
    /\ UNCHANGED txnLocks

LockNext ==
    \/ \E k \in LockKey, t \in LockTxn, e \in {"never", "ahead"} : TryLock(k, t, e)
    \/ \E t \in LockTxn : Unlock(t)
    \/ \E k \in LockKey, t \in LockTxn : UnlockKey(k, t)
    \/ \E k \in LockKey : LockExpires(k)

LockSpec == LockInit /\ [][LockNext]_lockVars

-----------------------------------------------------------------------------
\* The two maps of the table have their types and agree with one another: a key is
\* among a transaction's keys exactly when the transaction owns its lock (TryLock,
\* Unlock and UnlockKey each change both maps).
MapsAgree ==
    /\ locks \in [LockKey -> [txn : LockTxn \cup {NoTxn}, expiry : Expiry]]
    /\ txnLocks \in [LockTxn -> SUBSET LockKey]
    /\ \A k \in LockKey, t \in LockTxn : k \in txnLocks[t] <=> locks[k].txn = t

\* Nobody loses a lock to another before it expires: a lock that is ahead of its
\* expiry, or has none, goes away only by a call of its owner, which then no longer
\* holds the key (a stale owner's Unlock must not delete the thief's lock).
LockIsKept ==
    [][\A k \in LockKey, t \in LockTxn :
         locks[k].txn = t /\ ~Expired(k) /\ locks'[k].txn # t
            => \/ UnlockKey(k, t)
               \/ Unlock(t) /\ locks'[k] = Free]_lockVars

\* The lock table keeps its word: both its maps agree at all times, and a lock that has
\* not expired is lost only by its owner.
LockTableIsSound == []MapsAgree /\ LockIsKept
=============================================================================
