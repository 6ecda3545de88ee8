------------------------------- MODULE Lease -------------------------------
(***************************************************************************)
(* RecoverableLease: the one mutual-exclusion primitive of rpotato.        *)
(* Processes exclude one another on a lock path with three objects of the  *)
(* file system: a namespace guard and a directory of owner claims (both in *)
(* the temporary directory, where cleaners may remove them) and the lock   *)
(* file itself.  Kernel locks belong to an inode, not to a path, and die   *)
(* with their process; every object may be replaced behind its path.       *)
(*                                                                         *)
(* On Unix the guard is the claims directory (SplitGuard = FALSE); on the  *)
(* other platforms it is a separate file beside it (SplitGuard = TRUE).    *)
(***************************************************************************)
EXTENDS Integers, FiniteSets

CONSTANTS
    Proc,          \* the slots in which processes run
    NoProc,        \* nobody
    SplitGuard,    \* is the namespace guard a file of its own?
    Displaceable,  \* the objects whose path may come to name another inode
    ScanLimit,     \* OWNER_SCAN_LIMIT: the claims one attempt looks at
    MaxDisplaced   \* bound: how often each object is replaced

ASSUME NoProcAssumption == NoProc \notin Proc
ASSUME SplitAssumption == SplitGuard \in BOOLEAN
ASSUME ScanAssumption == ScanLimit \in Nat \ {0}
ASSUME DisplacedAssumption == MaxDisplaced \in Nat

Object == {"guard", "claims", "lock"}
Inode == 1 .. (MaxDisplaced + 1)

VARIABLES
    pc,           \* where a process stands in acquire or in the drops
    result,       \* how the last attempt of a process ended
    late,         \* has the deadline of acquire_with_wait passed?
    at,           \* the inode the path of each object names now
    guard,        \* the guard handle a process has open, 0 for none
    file,         \* the lock-file handle a process has open, 0 for none
    guardHolder,  \* who holds the kernel lock of a guard inode
    lockHolder,   \* who holds the kernel lock of a lock-file inode
    matched,      \* how many claims the current scan has looked at
    claim,        \* the directory a live process has its claim in, 0 for none
    stale         \* how many claims of dead processes a directory holds

vars == <<pc, result, late, at, guard, file, guardHolder, lockHolder, matched,
          claim, stale>>

Holder == Proc \cup {NoProc}

PcSet == {"idle", "waiting", "opening", "guard_opened", "guard_locked", "scanning",
          "scanned", "claimed", "lock_opened", "lock_locked", "held",
          "unwinding", "file_dropped", "claim_dropped"}

Init ==
    /\ pc = [p \in Proc |-> "idle"]
    /\ result = [p \in Proc |-> "none"]
    /\ late = [p \in Proc |-> TRUE]
    /\ at = [o \in Object |-> 1]
    /\ guard = [p \in Proc |-> 0]
    /\ file = [p \in Proc |-> 0]
    /\ guardHolder = [i \in Inode |-> NoProc]
    /\ lockHolder = [i \in Inode |-> NoProc]
    /\ matched = [p \in Proc |-> 0]
    /\ claim = [p \in Proc |-> 0]
    /\ stale = [i \in Inode |-> 0]

Goto(p, here, there) ==
    /\ pc[p] = here
    /\ pc' = [pc EXCEPT ![p] = there]

(* An attempt ends: its drops run, then the caller sees the result. *)
Fail(p, how) ==
    /\ pc' = [pc EXCEPT ![p] = "unwinding"]
    /\ result' = [result EXCEPT ![p] = how]

(* The kernel lock table of one object after p closed its handle. *)
Unlocked(table, p) == [i \in Inode |-> IF table[i] = p THEN NoProc ELSE table[i]]

(* try_lock reports WouldBlock.  Defect: the answer is ignored. *)
Taken_Ignored(table, i) == FALSE
Taken(table, i) == table[i] # NoProc

(* The directory still holds a claim nobody locks.  Defect: a scan that    *)
(* leaves such claims alone.                                               *)
StaleIn_Never(d) == FALSE
StaleIn(d) == stale[d] > 0

(* A live process has its claim in the directory.  Defect: dead owners count. *)
LiveIn_Dead(d) == stale[d] > 0 \/ \E q \in Proc : claim[q] = d
LiveIn(d) == \E q \in Proc : claim[q] = d

(* acquire_with_wait goes round again.  Defect: without looking at the clock. *)
Retries_Forever(p) == result[p] = "blocked"
Retries(p) == result[p] = "blocked" /\ ~late[p]

-----------------------------------------------------------------------------
(* acquire: late from the start, so that its first block is final;         *)
(* acquire_with_wait: retried until the deadline.                          *)
Acquire(p) ==
    /\ Goto(p, "idle", "opening")
    /\ result' = [result EXCEPT ![p] = "none"]
    /\ \E waits \in BOOLEAN : late' = [late EXCEPT ![p] = ~waits]
    /\ UNCHANGED <<at, guard, file, guardHolder, lockHolder, matched, claim, stale>>

OpenGuard(p) ==
    /\ Goto(p, "opening", "guard_opened")
    /\ guard' = [guard EXCEPT ![p] = at["guard"]]
    /\ UNCHANGED <<result, late, at, file, guardHolder, lockHolder, matched, claim, stale>>

LockGuard(p) ==
    /\ pc[p] = "guard_opened"
    /\ \/ /\ guard[p] # at["guard"]
          /\ Fail(p, "error")
          /\ UNCHANGED guardHolder
       \/ /\ guard[p] = at["guard"]
          /\ Taken(guardHolder, guard[p])
          /\ Fail(p, "blocked")
          /\ UNCHANGED guardHolder
       \/ /\ guard[p] = at["guard"]
          /\ ~Taken(guardHolder, guard[p])
          /\ guardHolder' = [guardHolder EXCEPT ![guard[p]] = p]
          /\ pc' = [pc EXCEPT ![p] = "guard_locked"]
          /\ UNCHANGED result
    /\ UNCHANGED <<late, at, guard, file, lockHolder, matched, claim, stale>>

ConfirmGuard(p) ==
    /\ pc[p] = "guard_locked"
    /\ \/ /\ guard[p] = at["guard"]
          /\ pc' = [pc EXCEPT ![p] = "scanning"]
          /\ UNCHANGED result
       \/ /\ guard[p] # at["guard"]
          /\ Fail(p, "error")
    /\ UNCHANGED <<late, at, guard, file, guardHolder, lockHolder, matched, claim, stale>>

(* One entry of the claims directory: past the budget the attempt fails, a *)
(* claim nobody locks is removed, a locked one blocks.                     *)
Scan(p) ==
    /\ pc[p] = "scanning"
    /\ \/ /\ StaleIn(at["claims"])
          /\ matched[p] < ScanLimit
          /\ stale' = [stale EXCEPT ![at["claims"]] = @ - 1]
          /\ matched' = [matched EXCEPT ![p] = @ + 1]
          /\ UNCHANGED <<pc, result>>
       \/ /\ LiveIn(at["claims"])
          /\ matched[p] < ScanLimit
          /\ Fail(p, "blocked")
          /\ matched' = [matched EXCEPT ![p] = 0]
          /\ UNCHANGED stale
       \/ /\ StaleIn(at["claims"]) \/ LiveIn(at["claims"])
          /\ matched[p] >= ScanLimit
          /\ Fail(p, "error")
          /\ matched' = [matched EXCEPT ![p] = 0]
          /\ UNCHANGED stale
       \/ /\ ~StaleIn(at["claims"]) /\ ~LiveIn(at["claims"])
          /\ pc' = [pc EXCEPT ![p] = "scanned"]
          /\ matched' = [matched EXCEPT ![p] = 0]
          /\ UNCHANGED <<result, stale>>
    /\ UNCHANGED <<late, at, guard, file, guardHolder, lockHolder, claim>>

CreateClaim(p) ==
    /\ Goto(p, "scanned", "claimed")
    /\ claim' = [claim EXCEPT ![p] = at["claims"]]
    /\ UNCHANGED <<result, late, at, guard, file, guardHolder, lockHolder, matched, stale>>

OpenLock(p) ==
    /\ Goto(p, "claimed", "lock_opened")
    /\ file' = [file EXCEPT ![p] = at["lock"]]
    /\ UNCHANGED <<result, late, at, guard, guardHolder, lockHolder, matched, claim, stale>>

LockFile(p) ==
    /\ pc[p] = "lock_opened"
    /\ \/ /\ file[p] # at["lock"]
          /\ Fail(p, "error")
          /\ UNCHANGED lockHolder
       \/ /\ file[p] = at["lock"]
          /\ Taken(lockHolder, file[p])
          /\ Fail(p, "blocked")
          /\ UNCHANGED lockHolder
       \/ /\ file[p] = at["lock"]
          /\ ~Taken(lockHolder, file[p])
          /\ lockHolder' = [lockHolder EXCEPT ![file[p]] = p]
          /\ pc' = [pc EXCEPT ![p] = "lock_locked"]
          /\ UNCHANGED result
    /\ UNCHANGED <<late, at, guard, file, guardHolder, matched, claim, stale>>

(* The owner's identity is written and the path checked a last time. *)
ConfirmLock(p) ==
    /\ pc[p] = "lock_locked"
    /\ \/ /\ file[p] = at["lock"]
          /\ pc' = [pc EXCEPT ![p] = "held"]
          /\ UNCHANGED result
       \/ /\ file[p] # at["lock"]
          /\ Fail(p, "error")
    /\ UNCHANGED <<late, at, guard, file, guardHolder, lockHolder, matched, claim, stale>>

(* Drop of RecoverableLease, and of what a failed attempt had acquired:    *)
(* the lock file, the claim, and the guard last.                           *)
Release(p) ==
    /\ Goto(p, "held", "unwinding")
    /\ UNCHANGED <<result, late, at, guard, file, guardHolder, lockHolder, matched, claim, stale>>

DropFile(p) ==
    /\ Goto(p, "unwinding", "file_dropped")
    /\ lockHolder' = Unlocked(lockHolder, p)
    /\ file' = [file EXCEPT ![p] = 0]
    /\ UNCHANGED <<result, late, at, guard, guardHolder, matched, claim, stale>>

(* A claim is removed where the path still leads to it and orphaned where  *)
(* the directory was displaced.                                            *)
DropClaim(p) ==
    /\ Goto(p, "file_dropped", "claim_dropped")
    /\ stale' = IF claim[p] # 0 /\ claim[p] # at["claims"]
                THEN [stale EXCEPT ![claim[p]] = @ + 1] ELSE stale
    /\ claim' = [claim EXCEPT ![p] = 0]
    /\ UNCHANGED <<result, late, at, guard, file, guardHolder, lockHolder, matched>>

(* The caller sees the result: a block is retried while there is time. *)
DropGuard(p) ==
    /\ Goto(p, "claim_dropped",
            IF Retries(p) THEN "waiting" ELSE "idle")
    /\ guardHolder' = Unlocked(guardHolder, p)
    /\ guard' = [guard EXCEPT ![p] = 0]
    /\ UNCHANGED <<result, late, at, file, lockHolder, matched, claim, stale>>

Retry(p) ==
    /\ Goto(p, "waiting", "opening")
    /\ result' = [result EXCEPT ![p] = "none"]
    /\ UNCHANGED <<late, at, guard, file, guardHolder, lockHolder, matched, claim, stale>>

-----------------------------------------------------------------------------
(* The clock passes the deadline of a waiting acquire. *)
DeadlinePasses(p) ==
    /\ ~late[p]
    /\ late' = [late EXCEPT ![p] = TRUE]
    /\ UNCHANGED <<pc, result, at, guard, file, guardHolder, lockHolder, matched, claim, stale>>

(* A process is killed: the kernel closes its handles and drops its locks, *)
(* its claim stays; another process may run in its slot later.             *)
Kill(p) ==
    /\ pc[p] # "idle"
    /\ pc' = [pc EXCEPT ![p] = "idle"]
    /\ result' = [result EXCEPT ![p] = "none"]
    /\ guard' = [guard EXCEPT ![p] = 0]
    /\ file' = [file EXCEPT ![p] = 0]
    /\ guardHolder' = Unlocked(guardHolder, p)
    /\ lockHolder' = Unlocked(lockHolder, p)
    /\ stale' = IF claim[p] = 0 THEN stale ELSE [stale EXCEPT ![claim[p]] = @ + 1]
    /\ claim' = [claim EXCEPT ![p] = 0]
    /\ matched' = [matched EXCEPT ![p] = 0]
    /\ UNCHANGED <<late, at>>

(* Someone outside replaces what a path names; handles keep their inodes.  *)
(* Where the guard is the claims directory the two move together.          *)
Displace(o) ==
    /\ o \in Displaceable
    /\ at[o] <= MaxDisplaced
    /\ SplitGuard \/ o # "claims"
    /\ at' = [x \in Object |->
                IF x = o \/ (~SplitGuard /\ o = "guard" /\ x = "claims")
                THEN at[o] + 1 ELSE at[x]]
    /\ UNCHANGED <<pc, result, late, guard, file, guardHolder, lockHolder, matched, claim, stale>>

Step(p) ==
    \/ OpenGuard(p) \/ LockGuard(p) \/ ConfirmGuard(p) \/ Scan(p) \/ CreateClaim(p)
    \/ OpenLock(p) \/ LockFile(p) \/ ConfirmLock(p)
    \/ DropFile(p) \/ DropClaim(p) \/ DropGuard(p) \/ Retry(p)

Next ==
    \/ \E p \in Proc : Acquire(p) \/ Step(p) \/ Release(p) \/ DeadlinePasses(p) \/ Kill(p)
    \/ \E o \in Object : Displace(o)

Spec == Init /\ [][Next]_vars

(* A live process keeps running and the clock keeps advancing; nobody is   *)
(* obliged to ask for the lease, to release it or to be killed.            *)
Fairness == \A p \in Proc : WF_vars(Step(p)) /\ WF_vars(DeadlinePasses(p))

-----------------------------------------------------------------------------
TypeOK ==
    /\ pc \in [Proc -> PcSet]
    /\ result \in [Proc -> {"none", "blocked", "error"}]
    /\ late \in [Proc -> BOOLEAN]
    /\ at \in [Object -> Inode]
    /\ guard \in [Proc -> Inode \cup {0}]
    /\ file \in [Proc -> Inode \cup {0}]
    /\ guardHolder \in [Inode -> Holder]
    /\ lockHolder \in [Inode -> Holder]
    /\ matched \in [Proc -> 0 .. ScanLimit]
    /\ claim \in [Proc -> Inode \cup {0}]
    /\ stale \in [Inode -> Nat]

(* Two processes never hold the lease of one path together, whatever is    *)
(* killed and displaced, as long as the guard or the lock file stays put   *)
(* (see Stable): RecoverableLease::acquire.                                *)
MutualExclusion ==
    \A p, q \in Proc : pc[p] = "held" /\ pc[q] = "held" => p = q

(* The environment under which the lease promises exclusion. *)
Stable == "guard" \notin Displaceable \/ "lock" \notin Displaceable

(* Crashes do not pile claims up: every acquire sweeps the dead ones under *)
(* the guard before it adds its own, so the scan budget is never consumed  *)
(* by crashes (remove_stale_owner_claims).                                 *)
ClaimBudget ==
    \A d \in Inode : stale[d] + Cardinality({p \in Proc : claim[p] = d}) <= 1

(* What a scan of the claims may rely on, with the shape of the state      *)
(* (remove_stale_owner_claims).                                            *)
ScanKept == TypeOK /\ ClaimBudget

(* A lease nobody alive works on blocks nobody: an attempt is turned away  *)
(* as blocked only while another process holds a kernel lock or a claim.   *)
BlockedByTheLiving ==
    [][\A p \in Proc :
         result'[p] = "blocked" /\ result[p] # "blocked" =>
            \E q \in Proc \ {p} :
                \/ \E i \in Inode : guardHolder[i] = q \/ lockHolder[i] = q
                \/ claim[q] # 0]_vars

(* acquire_with_wait returns: with the lease, with an error or with the    *)
(* block that outlived the deadline.                                       *)
AcquireReturns ==
    \A p \in Proc : []<>(pc[p] \in {"idle", "held"})
=============================================================================
