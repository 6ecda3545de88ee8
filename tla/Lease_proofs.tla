---------------------------- MODULE Lease_proofs ----------------------------
(***************************************************************************)
(* Type correctness of the lease and mutual exclusion, for every number of *)
(* processes, displacements and crashes.                                   *)
(***************************************************************************)
EXTENDS Lease, FiniteSetTheorems, TLAPS

ConstantAssumptions == NoProc \notin Proc /\ SplitGuard \in BOOLEAN
                       /\ ScanLimit \in Nat \ {0} /\ MaxDisplaced \in Nat

(* An inode number and the table of an object stay in range. *)
LEMMA ConstantFacts == ConstantAssumptions
BY NoProcAssumption, SplitAssumption, ScanAssumption, DisplacedAssumption
   DEF ConstantAssumptions

(* Closing the handles of one process is a well-typed change of a table    *)
(* that no other process notices (Drop, and the kernel at a kill).         *)
LEMMA UnlockedFacts ==
    ASSUME NEW table \in [Inode -> Holder], NEW p \in Proc
    PROVE  /\ Unlocked(table, p) \in [Inode -> Holder]
           /\ \A i \in Inode : table[i] # p => Unlocked(table, p)[i] = table[i]
BY DEF Unlocked, Holder

(* Every variable of the lease keeps its type (RecoverableLease). *)
THEOREM TypeCorrect == Spec => []TypeOK
<1> USE ConstantFacts DEF ConstantAssumptions
<1>1. Init => TypeOK
  BY DEF Init, TypeOK, Inode, Object, PcSet, Holder
<1>2. TypeOK /\ [Next]_vars => TypeOK'
  <2> SUFFICES ASSUME TypeOK, [Next]_vars PROVE TypeOK'
    OBVIOUS
  <2> USE DEF TypeOK, PcSet, Goto, Fail
  <2>1. ASSUME NEW p \in Proc, Acquire(p) PROVE TypeOK'
    BY <2>1 DEF Acquire
  <2>2. ASSUME NEW p \in Proc, OpenGuard(p) PROVE TypeOK'
    BY <2>2 DEF OpenGuard, Object
  <2>3. ASSUME NEW p \in Proc, LockGuard(p) PROVE TypeOK'
    BY <2>3 DEF LockGuard, Holder
  <2>4. ASSUME NEW p \in Proc, ConfirmGuard(p) PROVE TypeOK'
    BY <2>4 DEF ConfirmGuard
  <2>5. ASSUME NEW p \in Proc, Scan(p) PROVE TypeOK'
    <3>1. at["claims"] \in Inode /\ stale[at["claims"]] \in Nat /\ matched[p] \in 0 .. ScanLimit
      BY DEF Object
    <3>2. stale' \in [Inode -> Nat]
      BY <2>5, <3>1 DEF Scan, StaleIn
    <3>3. matched' \in [Proc -> 0 .. ScanLimit]
      BY <2>5, <3>1 DEF Scan
    <3>4. pc' \in [Proc -> PcSet] /\ result' \in [Proc -> {"none", "blocked", "error"}]
      BY <2>5 DEF Scan
    <3> QED
      BY <2>5, <3>2, <3>3, <3>4 DEF Scan
  <2>6. ASSUME NEW p \in Proc, CreateClaim(p) PROVE TypeOK'
    BY <2>6 DEF CreateClaim, Object
  <2>7. ASSUME NEW p \in Proc, OpenLock(p) PROVE TypeOK'
    BY <2>7 DEF OpenLock, Object
  <2>8. ASSUME NEW p \in Proc, LockFile(p) PROVE TypeOK'
    BY <2>8 DEF LockFile, Holder
  <2>9. ASSUME NEW p \in Proc, ConfirmLock(p) PROVE TypeOK'
    BY <2>9 DEF ConfirmLock
  <2>10. ASSUME NEW p \in Proc, Release(p) PROVE TypeOK'
    BY <2>10 DEF Release
  <2>11. ASSUME NEW p \in Proc, DropFile(p) PROVE TypeOK'
    BY <2>11, UnlockedFacts DEF DropFile
  <2>12. ASSUME NEW p \in Proc, DropClaim(p) PROVE TypeOK'
    <3>1. stale' \in [Inode -> Nat]
      BY <2>12 DEF DropClaim
    <3> QED
      BY <2>12, <3>1 DEF DropClaim
  <2>13. ASSUME NEW p \in Proc, DropGuard(p) PROVE TypeOK'
    BY <2>13, UnlockedFacts DEF DropGuard
  <2>14. ASSUME NEW p \in Proc, Retry(p) PROVE TypeOK'
    BY <2>14 DEF Retry
  <2>15. ASSUME NEW p \in Proc, DeadlinePasses(p) PROVE TypeOK'
    BY <2>15 DEF DeadlinePasses
  <2>16. ASSUME NEW p \in Proc, Kill(p) PROVE TypeOK'
    <3>1. stale' \in [Inode -> Nat]
      BY <2>16 DEF Kill
    <3>2. guardHolder' \in [Inode -> Holder] /\ lockHolder' \in [Inode -> Holder]
      BY <2>16, UnlockedFacts DEF Kill
    <3> QED
      BY <2>16, <3>1, <3>2 DEF Kill
  <2>17. ASSUME NEW o \in Object, Displace(o) PROVE TypeOK'
    <3>1. at[o] + 1 \in Inode
      BY <2>17 DEF Displace, Inode
    <3>2. at' \in [Object -> Inode]
      BY <2>17, <3>1 DEF Displace
    <3> QED
      BY <2>17, <3>2 DEF Displace
  <2>18. CASE UNCHANGED vars
    BY <2>18 DEF vars
  <2> QED
    BY <2>1, <2>2, <2>3, <2>4, <2>5, <2>6, <2>7, <2>8, <2>9, <2>10, <2>11, <2>12,
       <2>13, <2>14, <2>15, <2>16, <2>17, <2>18 DEF Next, Step
<1> QED
  BY <1>1, <1>2, PTL DEF Spec

-----------------------------------------------------------------------------
(* Mutual exclusion.  Kernel locks do not exclude by themselves: they are  *)
(* taken on inodes.  The inductive invariant says that past its try_lock a *)
(* process owns the inode it opened, and that the object which is never    *)
(* displaced has one inode only.                                           *)

GuardedPcs == {"guard_locked", "scanning", "scanned", "claimed", "lock_opened",
               "lock_locked", "held"}

GuardOwned == \A p \in Proc :
                 pc[p] \in GuardedPcs => guard[p] \in Inode /\ guardHolder[guard[p]] = p
LockOwned == \A p \in Proc :
                pc[p] \in {"lock_locked", "held"} => file[p] \in Inode /\ lockHolder[file[p]] = p
GuardStays == "guard" \notin Displaceable =>
                 at["guard"] = 1 /\ \A p \in Proc : guard[p] \in {0, 1}
LockStays == "lock" \notin Displaceable =>
                at["lock"] = 1 /\ \A p \in Proc : file[p] \in {0, 1}

LeaseInv == TypeOK /\ GuardOwned /\ LockOwned /\ GuardStays /\ LockStays

(* The objects the environment leaves alone identify the owner. *)
LEMMA InvImpliesExclusion == ASSUME Stable, LeaseInv PROVE MutualExclusion
<1> SUFFICES ASSUME NEW p \in Proc, NEW q \in Proc, pc[p] = "held", pc[q] = "held"
             PROVE p = q
  BY DEF MutualExclusion
<1>1. CASE "guard" \notin Displaceable
  <2>1. guard[p] = 1 /\ guard[q] = 1
    BY <1>1 DEF LeaseInv, GuardOwned, GuardStays, GuardedPcs, Inode
  <2> QED
    BY <2>1 DEF LeaseInv, GuardOwned, GuardedPcs
<1>2. CASE "lock" \notin Displaceable
  <2>1. file[p] = 1 /\ file[q] = 1
    BY <1>2 DEF LeaseInv, LockOwned, LockStays, Inode
  <2> QED
    BY <2>1 DEF LeaseInv, LockOwned
<1> QED
  BY <1>1, <1>2 DEF Stable

(* The locks are owned as the invariant says, whatever is displaced. *)
LEMMA LocksOwned == Spec => []LeaseInv
<1> USE ConstantFacts DEF ConstantAssumptions
<1>1. Init => LeaseInv
  <2> SUFFICES ASSUME Init PROVE LeaseInv
    OBVIOUS
  <2>1. TypeOK
    BY DEF Init, TypeOK, Inode, Object, PcSet, Holder
  <2> QED
    BY <2>1 DEF Init, LeaseInv, GuardOwned, LockOwned, GuardStays, LockStays, GuardedPcs,
                Object
<1>2. LeaseInv /\ TypeOK' /\ [Next]_vars => LeaseInv'
  <2> SUFFICES ASSUME LeaseInv, TypeOK', [Next]_vars PROVE LeaseInv'
    OBVIOUS
  <2> USE DEF LeaseInv, TypeOK, GuardOwned, LockOwned, GuardStays, LockStays, GuardedPcs,
              Goto, Fail
  <2>1. ASSUME NEW p \in Proc, Acquire(p) PROVE LeaseInv'
    BY <2>1 DEF Acquire
  <2>2. ASSUME NEW p \in Proc, OpenGuard(p) PROVE LeaseInv'
    BY <2>2 DEF OpenGuard
  <2>3. ASSUME NEW p \in Proc, LockGuard(p) PROVE LeaseInv'
    <3>1. guard[p] \in Inode \/ pc[p] # "guard_opened" \/ guard[p] # at["guard"]
      BY DEF Object
    <3>2. GuardOwned'
      BY <2>3, <3>1 DEF LockGuard, Taken
    <3> QED
      BY <2>3, <3>2 DEF LockGuard
  <2>4. ASSUME NEW p \in Proc, ConfirmGuard(p) PROVE LeaseInv'
    BY <2>4 DEF ConfirmGuard
  <2>5. ASSUME NEW p \in Proc, Scan(p) PROVE LeaseInv'
    BY <2>5 DEF Scan
  <2>6. ASSUME NEW p \in Proc, CreateClaim(p) PROVE LeaseInv'
    BY <2>6 DEF CreateClaim
  <2>7. ASSUME NEW p \in Proc, OpenLock(p) PROVE LeaseInv'
    BY <2>7 DEF OpenLock
  <2>8. ASSUME NEW p \in Proc, LockFile(p) PROVE LeaseInv'
    <3>1. at["lock"] \in Inode
      BY DEF Object
    <3>2. LockOwned'
      BY <2>8, <3>1 DEF LockFile, Taken
    <3> QED
      BY <2>8, <3>2 DEF LockFile
  <2>9. ASSUME NEW p \in Proc, ConfirmLock(p) PROVE LeaseInv'
    BY <2>9 DEF ConfirmLock
  <2>10. ASSUME NEW p \in Proc, Release(p) PROVE LeaseInv'
    BY <2>10 DEF Release
  <2>11. ASSUME NEW p \in Proc, DropFile(p) PROVE LeaseInv'
    <3>1. ASSUME NEW q \in Proc, pc'[q] \in {"lock_locked", "held"}
          PROVE  file'[q] \in Inode /\ lockHolder'[file'[q]] = q
      <4>1. q # p /\ pc[q] = pc'[q] /\ file'[q] = file[q]
        BY <2>11, <3>1 DEF DropFile
      <4>2. file[q] \in Inode /\ lockHolder[file[q]] = q
        BY <3>1, <4>1
      <4>3. Unlocked(lockHolder, p)[file[q]] = lockHolder[file[q]]
        BY <4>1, <4>2, UnlockedFacts, SMTT(30)
      <4> QED
        BY <2>11, <4>1, <4>2, <4>3 DEF DropFile
    <3> QED
      BY <2>11, <3>1 DEF DropFile
  <2>12. ASSUME NEW p \in Proc, DropClaim(p) PROVE LeaseInv'
    BY <2>12 DEF DropClaim
  <2>13. ASSUME NEW p \in Proc, DropGuard(p) PROVE LeaseInv'
    <3>1. GuardOwned'
      BY <2>13, UnlockedFacts DEF DropGuard
    <3> QED
      BY <2>13, <3>1 DEF DropGuard
  <2>14. ASSUME NEW p \in Proc, Retry(p) PROVE LeaseInv'
    BY <2>14 DEF Retry
  <2>15. ASSUME NEW p \in Proc, DeadlinePasses(p) PROVE LeaseInv'
    BY <2>15 DEF DeadlinePasses
  <2>16. ASSUME NEW p \in Proc, Kill(p) PROVE LeaseInv'
    <3>1. GuardOwned' /\ LockOwned'
      BY <2>16, UnlockedFacts, SMTT(30) DEF Kill
    <3> QED
      BY <2>16, <3>1 DEF Kill
  <2>17. ASSUME NEW o \in Object, Displace(o) PROVE LeaseInv'
    <3>1. \A x \in Object : x \notin Displaceable /\ x # "claims" => at'[x] = at[x]
      BY <2>17 DEF Displace, Object
    <3> QED
      BY <2>17, <3>1 DEF Displace, Object
  <2>18. CASE UNCHANGED vars
    BY <2>18 DEF vars
  <2> QED
    BY <2>1, <2>2, <2>3, <2>4, <2>5, <2>6, <2>7, <2>8, <2>9, <2>10, <2>11, <2>12,
       <2>13, <2>14, <2>15, <2>16, <2>17, <2>18 DEF Next, Step
<1> QED
  BY <1>1, <1>2, TypeCorrect, PTL DEF Spec

(* As long as the guard or the lock file keeps its inode, two processes    *)
(* never hold the lease together, however many run, are killed, retry or   *)
(* see the other objects replaced (RecoverableLease::acquire).             *)
THEOREM Exclusion == ASSUME Stable PROVE Spec => []MutualExclusion
<1>1. LeaseInv => MutualExclusion
  BY Stable, InvImpliesExclusion
<1> QED
  BY <1>1, LocksOwned, PTL

-----------------------------------------------------------------------------
(* Claims.  The guard lets one process at a time sweep the directory and   *)
(* add its claim; a directory that was moved into place is empty.          *)

Claimant == {"claimed", "lock_opened", "lock_locked", "held", "unwinding", "file_dropped"}

(* A claim stands between its creation and its drop. *)
ClaimsPlaced == \A p \in Proc : claim[p] # 0 => pc[p] \in Claimant
(* Only a process behind the guard has a claim. *)
ClaimsGuarded == \A p \in Proc : claim[p] # 0 => guardHolder[1] = p
(* The directory a claim will go to has been swept; one not yet in place was never used. *)
Unused(d) == stale[d] = 0 /\ \A q \in Proc : claim[q] # d
Swept == \A p \in Proc : pc[p] = "scanned" => Unused(at["claims"])
Fresh == \A d \in Inode : d > at["claims"] => Unused(d)
(* A dead claim is alone in its directory. *)
DeadAlone == \A d \in Inode : /\ stale[d] <= 1
                              /\ \A q \in Proc : claim[q] = d => stale[d] = 0

ClaimInv == LeaseInv /\ ClaimsPlaced /\ ClaimsGuarded /\ Swept /\ Fresh /\ DeadAlone

(* One claim at most, dead or alive, is what the budget counts. *)
LEMMA OneClaim == ASSUME ClaimInv PROVE ClaimBudget
<1> SUFFICES ASSUME NEW d \in Inode
             PROVE  stale[d] + Cardinality({p \in Proc : claim[p] = d}) <= 1
  BY DEF ClaimBudget
<1>1. stale[d] \in Nat /\ stale[d] <= 1
  BY DEF ClaimInv, LeaseInv, TypeOK, DeadAlone
<1>2. CASE \E p \in Proc : claim[p] = d
  <2> PICK p \in Proc : claim[p] = d
    BY <1>2
  <2>1. \A q \in Proc : claim[q] = d => q = p
    BY DEF ClaimInv, ClaimsGuarded, Inode
  <2>2. {q \in Proc : claim[q] = d} = {p}
    BY <2>1
  <2>3. stale[d] = 0
    BY DEF ClaimInv, DeadAlone
  <2> QED
    <3>1. Cardinality({p}) = 1
      BY FS_Singleton
    <3> QED
      BY <2>2, <2>3, <3>1
<1>3. CASE ~ \E p \in Proc : claim[p] = d
  <2>1. {p \in Proc : claim[p] = d} = {}
    BY <1>3
  <2> QED
    BY <1>1, <2>1, FS_EmptySet
<1> QED
  BY <1>2, <1>3

(* A process behind the guard is alone there, when the guard cannot be displaced. *)
LEMMA BehindGuard ==
    ASSUME "guard" \notin Displaceable, LeaseInv, NEW p \in Proc, pc[p] \in GuardedPcs
    PROVE  guard[p] = 1 /\ guardHolder[1] = p
BY DEF LeaseInv, GuardOwned, GuardStays, TypeOK, Inode

(* Every step keeps the claims in order. *)
LEMMA ClaimsKept ==
    ASSUME "guard" \notin Displaceable, ClaimInv, LeaseInv', [Next]_vars
    PROVE  ClaimInv'
<1> USE ConstantFacts DEF ConstantAssumptions
<1> USE DEF ClaimInv, ClaimsPlaced, ClaimsGuarded, Claimant, Unused, Swept, Fresh, DeadAlone,
            Goto, Fail
<1>0. TypeOK /\ TypeOK' /\ at["claims"] \in Inode /\ 1 \in Inode
  <2>1. TypeOK /\ TypeOK'
    BY DEF LeaseInv
  <2>2. at["claims"] \in Inode
    BY <2>1 DEF TypeOK, Object
  <2> QED
    BY <2>1, <2>2 DEF Inode
<1>1. ASSUME NEW p \in Proc, Acquire(p) PROVE ClaimInv'
  BY <1>0, <1>1 DEF Acquire, TypeOK
<1>2. ASSUME NEW p \in Proc, OpenGuard(p) PROVE ClaimInv'
  BY <1>0, <1>2 DEF OpenGuard, TypeOK
<1>3. ASSUME NEW p \in Proc, LockGuard(p) PROVE ClaimInv'
  <2>1. \A i \in Inode : guardHolder[i] \in Proc => guardHolder'[i] = guardHolder[i]
    BY <1>0, <1>3, NoProcAssumption DEF LockGuard, Taken, TypeOK, Holder
  <2> QED
    BY <1>0, <1>3, <2>1 DEF LockGuard, TypeOK
<1>4. ASSUME NEW p \in Proc, ConfirmGuard(p) PROVE ClaimInv'
  BY <1>0, <1>4 DEF ConfirmGuard, TypeOK
<1>5. ASSUME NEW p \in Proc, Scan(p) PROVE ClaimInv'
  <2>1. \A d \in Inode : stale'[d] <= stale[d] /\ stale'[d] \in Nat /\ stale[d] \in Nat
    BY <1>0, <1>5 DEF Scan, StaleIn, TypeOK
  <2>2. UNCHANGED <<at, guardHolder, claim>> /\ pc'[p] \in {"scanning", "unwinding", "scanned"}
    BY <1>0, <1>5 DEF Scan, TypeOK
  <2>3. \A q \in Proc \ {p} : pc'[q] = pc[q]
    BY <1>0, <1>5 DEF Scan, TypeOK
  <2>4. pc'[p] = "scanned" => Unused(at["claims"])
    BY <1>0, <1>5 DEF Scan, StaleIn, LiveIn, TypeOK
  <2>5. claim[p] = 0
    BY <1>0, <1>5 DEF Scan, TypeOK
  <2>6. Swept'
    BY <1>0, <2>1, <2>2, <2>3, <2>4
  <2>7. Fresh' /\ DeadAlone'
    BY <1>0, <2>1, <2>2
  <2> QED
    BY <2>2, <2>3, <2>5, <2>6, <2>7
<1>6. ASSUME NEW p \in Proc, CreateClaim(p) PROVE ClaimInv'
  <2>1. guardHolder[1] = p
    BY <1>6, BehindGuard DEF CreateClaim, GuardedPcs
  <2>2. Unused(at["claims"])
    BY <1>6 DEF CreateClaim
  <2>3. \A q \in Proc : pc'[q] = "scanned" => FALSE
    <3> SUFFICES ASSUME NEW q \in Proc, pc'[q] = "scanned" PROVE FALSE
      OBVIOUS
    <3>1. q # p /\ pc[q] = "scanned"
      BY <1>0, <1>6 DEF CreateClaim, TypeOK
    <3> QED
      BY <2>1, <3>1, BehindGuard DEF GuardedPcs
  <2>4. Swept'
    BY <2>3
  <2>5. Fresh' /\ DeadAlone'
    BY <1>0, <1>6, <2>2 DEF CreateClaim, TypeOK, Inode
  <2> QED
    BY <1>0, <1>6, <2>1, <2>4, <2>5 DEF CreateClaim, TypeOK
<1>7. ASSUME NEW p \in Proc, OpenLock(p) PROVE ClaimInv'
  BY <1>0, <1>7 DEF OpenLock, TypeOK
<1>8. ASSUME NEW p \in Proc, LockFile(p) PROVE ClaimInv'
  BY <1>0, <1>8 DEF LockFile, TypeOK
<1>9. ASSUME NEW p \in Proc, ConfirmLock(p) PROVE ClaimInv'
  BY <1>0, <1>9 DEF ConfirmLock, TypeOK
<1>10. ASSUME NEW p \in Proc, Release(p) PROVE ClaimInv'
  BY <1>0, <1>10 DEF Release, TypeOK
<1>11. ASSUME NEW p \in Proc, DropFile(p) PROVE ClaimInv'
  BY <1>0, <1>11 DEF DropFile, TypeOK
<1>12. ASSUME NEW p \in Proc, claim' = [claim EXCEPT ![p] = 0], at' = at,
              stale' = stale \/ (claim[p] # 0 /\ stale' = [stale EXCEPT ![claim[p]] = @ + 1]),
              \A q \in Proc : pc'[q] = "scanned" => pc[q] = "scanned"
       PROVE  Swept' /\ Fresh' /\ DeadAlone'
  <2>1. CASE claim[p] = 0
    BY <1>0, <1>12, <2>1 DEF TypeOK
  <2>2. CASE claim[p] # 0
    <3>1. claim[p] \in Inode /\ stale[claim[p]] = 0
      BY <1>0, <2>2 DEF TypeOK
    <3>2. \A q \in Proc : claim[q] # 0 => q = p
      BY <2>2
    <3>3. Swept'
      BY <1>0, <1>12, <2>2, <3>1, <3>2 DEF TypeOK
    <3>4. Fresh' /\ DeadAlone'
      BY <1>0, <1>12, <2>2, <3>1, <3>2, SMTT(30) DEF TypeOK, Inode
    <3> QED
      BY <3>3, <3>4
  <2> QED
    BY <2>1, <2>2
<1>13. ASSUME NEW p \in Proc, DropClaim(p) PROVE ClaimInv'
  <2>1. Swept' /\ Fresh' /\ DeadAlone'
    BY <1>0, <1>12, <1>13 DEF DropClaim, TypeOK
  <2> QED
    BY <1>0, <1>13, <2>1 DEF DropClaim, TypeOK
<1>14. ASSUME NEW p \in Proc, DropGuard(p) PROVE ClaimInv'
  <2>1. claim[p] = 0
    BY <1>14 DEF DropGuard
  <2>2. \A q \in Proc : q # p /\ guardHolder[1] = q => guardHolder'[1] = q
    BY <1>0, <1>14, UnlockedFacts, SMTT(30) DEF DropGuard, TypeOK
  <2>3. \A q \in Proc : claim'[q] # 0 => guardHolder'[1] = q
    BY <1>14, <2>1, <2>2 DEF DropGuard
  <2> QED
    BY <1>0, <1>14, <2>1, <2>3 DEF DropGuard, TypeOK
<1>15. ASSUME NEW p \in Proc, Retry(p) PROVE ClaimInv'
  BY <1>0, <1>15 DEF Retry, TypeOK
<1>16. ASSUME NEW p \in Proc, DeadlinePasses(p) PROVE ClaimInv'
  BY <1>0, <1>16 DEF DeadlinePasses, TypeOK
<1>17. ASSUME NEW p \in Proc, Kill(p) PROVE ClaimInv'
  <2>1. Swept' /\ Fresh' /\ DeadAlone'
    BY <1>0, <1>12, <1>17 DEF Kill, TypeOK
  <2>2. \A q \in Proc : q # p /\ guardHolder[1] = q => guardHolder'[1] = q
    BY <1>0, <1>17, UnlockedFacts DEF Kill, TypeOK
  <2> QED
    BY <1>0, <1>17, <2>1, <2>2 DEF Kill, TypeOK
<1>18. ASSUME NEW o \in Object, Displace(o) PROVE ClaimInv'
  <2>1. UNCHANGED <<pc, guardHolder, claim, stale>> /\ at'["claims"] \in Inode
    BY <1>0, <1>18 DEF Displace, TypeOK, Object
  <2>2. at'["claims"] = at["claims"] \/ at'["claims"] = at["claims"] + 1
    BY <1>0, <1>18 DEF Displace, TypeOK, Object
  <2>3. Unused(at["claims"]) => Unused(at'["claims"])
    BY <1>0, <2>1, <2>2 DEF Inode
  <2> QED
    BY <1>0, <2>1, <2>2, <2>3 DEF Inode
<1>19. CASE UNCHANGED vars
  BY <1>19 DEF vars
<1> QED
  BY <1>1, <1>2, <1>3, <1>4, <1>5, <1>6, <1>7, <1>8, <1>9, <1>10, <1>11, <1>13, <1>14,
     <1>15, <1>16, <1>17, <1>18, <1>19 DEF Next, Step

(* Where the guard stays put, a scan meets one claim at most, however many *)
(* processes crashed and however often the directory was replaced          *)
(* (remove_stale_owner_claims).                                            *)
THEOREM ScanStays == ASSUME "guard" \notin Displaceable PROVE Spec => []ScanKept
<1>1. Init => ClaimsPlaced /\ ClaimsGuarded /\ Swept /\ Fresh /\ DeadAlone
  BY DEF Init, ClaimsPlaced, ClaimsGuarded, Swept, Fresh, DeadAlone, Unused, Inode
<1>2. LeaseInv /\ ClaimsPlaced /\ ClaimsGuarded /\ Swept /\ Fresh /\ DeadAlone => ClaimInv
  BY DEF ClaimInv
<1>3. ClaimInv /\ LeaseInv' /\ [Next]_vars => ClaimInv'
  BY "guard" \notin Displaceable, ClaimsKept
<1>4. ClaimInv => ScanKept
  BY OneClaim DEF ClaimInv, LeaseInv, ScanKept
<1> QED
  BY <1>1, <1>2, <1>3, <1>4, LocksOwned, PTL DEF Spec

-----------------------------------------------------------------------------
(* Who is turned away.  The inductive invariant says where a process       *)
(* stands that owns a lock or a claim: none of it before an attempt's end. *)

GuardsInUse == \A p \in Proc, i \in Inode : guardHolder[i] = p =>
                  pc[p] \in GuardedPcs \cup {"unwinding", "file_dropped", "claim_dropped"}
LocksInUse == \A p \in Proc, i \in Inode : lockHolder[i] = p =>
                 pc[p] \in {"lock_locked", "held", "unwinding"}

OwnInv == TypeOK /\ GuardsInUse /\ LocksInUse /\ ClaimsPlaced

(* Every step keeps it. *)
LEMMA OwnKept == OwnInv /\ TypeOK' /\ [Next]_vars => OwnInv'
<1> SUFFICES ASSUME OwnInv, TypeOK', [Next]_vars PROVE OwnInv'
  OBVIOUS
<1> USE ConstantFacts DEF ConstantAssumptions
<1> USE DEF OwnInv, TypeOK, GuardsInUse, LocksInUse, ClaimsPlaced, Claimant, GuardedPcs, Goto,
            Fail
<1>1. ASSUME NEW p \in Proc, Acquire(p) \/ OpenGuard(p) \/ ConfirmGuard(p) \/ OpenLock(p)
                            \/ ConfirmLock(p)
      PROVE  OwnInv'
  BY <1>1, SMTT(30) DEF Acquire, OpenGuard, ConfirmGuard, OpenLock, ConfirmLock
<1>2. ASSUME NEW p \in Proc, LockGuard(p) PROVE OwnInv'
  BY <1>2 DEF LockGuard
<1>3. ASSUME NEW p \in Proc, Scan(p) PROVE OwnInv'
  BY <1>3 DEF Scan
<1>4. ASSUME NEW p \in Proc, CreateClaim(p) \/ Release(p) \/ Retry(p) \/ DeadlinePasses(p)
      PROVE  OwnInv'
  BY <1>4, SMTT(30) DEF CreateClaim, Release, Retry, DeadlinePasses
<1>5. ASSUME NEW p \in Proc, LockFile(p) PROVE OwnInv'
  BY <1>5 DEF LockFile
<1>6. ASSUME NEW p \in Proc, DropFile(p) PROVE OwnInv'
  BY <1>6 DEF DropFile, Unlocked
<1>7. ASSUME NEW p \in Proc, DropClaim(p) PROVE OwnInv'
  BY <1>7 DEF DropClaim
<1>8. ASSUME NEW p \in Proc, DropGuard(p) PROVE OwnInv'
  BY <1>8 DEF DropGuard, Unlocked
<1>9. ASSUME NEW p \in Proc, Kill(p) PROVE OwnInv'
  BY <1>9 DEF Kill, Unlocked
<1>10. ASSUME NEW o \in Object, Displace(o) PROVE OwnInv'
  BY <1>10 DEF Displace
<1>11. CASE UNCHANGED vars
  BY <1>11 DEF vars
<1> QED
  BY <1>1, <1>2, <1>3, <1>4, <1>5, <1>6, <1>7, <1>8, <1>9, <1>10, <1>11 DEF Next, Step

(* A process is turned away as blocked only where somebody else stands: no *)
(* crash and no attempt of its own can lock it out (RecoverableLease).     *)
THEOREM OnlyTheLivingBlock == Spec => BlockedByTheLiving
<1> DEFINE Blocks == \A p \in Proc :
             result'[p] = "blocked" /\ result[p] # "blocked" =>
                \E q \in Proc \ {p} :
                    \/ \E i \in Inode : guardHolder[i] = q \/ lockHolder[i] = q
                    \/ claim[q] # 0
<1>1. Init => GuardsInUse /\ LocksInUse /\ ClaimsPlaced
  BY NoProcAssumption DEF Init, GuardsInUse, LocksInUse, ClaimsPlaced, Inode
<1>2. TypeOK /\ GuardsInUse /\ LocksInUse /\ ClaimsPlaced => OwnInv
  BY DEF OwnInv
<1>3. OwnInv /\ [Next]_vars => [Blocks]_vars
  <2> SUFFICES ASSUME OwnInv, Next PROVE Blocks
    OBVIOUS
  <2> SUFFICES ASSUME NEW p \in Proc, result'[p] = "blocked", result[p] # "blocked"
               PROVE  \E q \in Proc \ {p} :
                         \/ \E i \in Inode : guardHolder[i] = q \/ lockHolder[i] = q
                         \/ claim[q] # 0
    OBVIOUS
  <2>1. LockGuard(p) \/ Scan(p) \/ LockFile(p)
    BY DEF Next, Step, OwnInv, TypeOK, Acquire, OpenGuard, LockGuard, ConfirmGuard, Scan,
           CreateClaim, OpenLock, LockFile, ConfirmLock, Release, DropFile, DropClaim,
           DropGuard, Retry, DeadlinePasses, Kill, Displace, Fail
  <2>2. CASE LockGuard(p)
    <3>1. guardHolder[guard[p]] # NoProc /\ guard[p] \in Inode /\ pc[p] = "guard_opened"
      BY <2>2 DEF LockGuard, Taken, Fail, OwnInv, TypeOK, Object
    <3> QED
      BY <3>1 DEF OwnInv, TypeOK, Holder, GuardsInUse, GuardedPcs
  <2>3. CASE Scan(p)
    <3>1. LiveIn(at["claims"]) /\ at["claims"] \in Inode /\ pc[p] = "scanning"
      BY <2>3 DEF Scan, Fail, OwnInv, TypeOK, Object
    <3> QED
      BY <3>1 DEF OwnInv, LiveIn, ClaimsPlaced, Claimant, Inode
  <2>4. CASE LockFile(p)
    <3>1. lockHolder[file[p]] # NoProc /\ file[p] \in Inode /\ pc[p] = "lock_opened"
      BY <2>4 DEF LockFile, Taken, Fail, OwnInv, TypeOK, Object
    <3> QED
      BY <3>1 DEF OwnInv, TypeOK, Holder, LocksInUse
  <2> QED
    BY <2>1, <2>2, <2>3, <2>4
<1> QED
  BY <1>1, <1>2, <1>3, OwnKept, TypeCorrect, PTL DEF Spec, BlockedByTheLiving

=============================================================================
