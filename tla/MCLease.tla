------------------------------ MODULE MCLease ------------------------------
(* A lock path on Unix, where the lock file is replaced, and one on another   *)
(* platform, where the guard and the claims directory are, each on its own.   *)
(* They share no state: which of them a behaviour is about is chosen in its    *)
(* initial state, and the other rests in its own.                              *)
EXTENDS Lease

CONSTANT OtherProc

VARIABLES
    platform,
    otherPc, otherResult, otherLate, otherAt, otherGuard, otherFile, otherGuardHolder,
    otherLockHolder, otherMatched, otherClaim, otherStale

otherVars == <<otherPc, otherResult, otherLate, otherAt, otherGuard, otherFile,
               otherGuardHolder, otherLockHolder, otherMatched, otherClaim, otherStale>>

Other == INSTANCE Lease WITH
    Proc <- OtherProc, SplitGuard <- TRUE, Displaceable <- {"guard", "claims"},
    pc <- otherPc, result <- otherResult, late <- otherLate, at <- otherAt,
    guard <- otherGuard, file <- otherFile, guardHolder <- otherGuardHolder,
    lockHolder <- otherLockHolder, matched <- otherMatched, claim <- otherClaim,
    stale <- otherStale

LeaseInit == platform \in {"unix", "other"} /\ Init /\ Other!Init

LeaseNext ==
    \/ platform = "unix" /\ Next /\ UNCHANGED <<platform, otherVars>>
    \/ platform = "other" /\ Other!Next /\ UNCHANGED <<platform, vars>>

LeaseSpec ==
    LeaseInit /\ [][LeaseNext]_<<platform, vars, otherVars>> /\ Other!Fairness

(* Where the claims of two namespaces meet, acquire_with_wait still returns: *)
(* with the lease, with an error or with the block that outlived the         *)
(* deadline.                                                                 *)
AcquiresReturn == Other!AcquireReturns
=============================================================================
