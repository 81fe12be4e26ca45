----------------------------- MODULE SamplePool -----------------------------
(***************************************************************************)
(* The allocator of media samples all the filters share                    *)
(* (src/common/cmemallocator.cc, with the reference counting of            *)
(* cmediasample.cc): threads that take samples and may have to wait for    *)
(* one, holders that give them back, and an owner that commits, decommits  *)
(* and lets go of the allocator.                                           *)
(*                                                                         *)
(* The free list is a set: which free sample is taken makes no difference. *)
(* Each call takes the allocator's lock for its whole length, but for the  *)
(* wait in GetBuffer and for CMediaSample::Release, which first takes the  *)
(* count to zero and then calls ReleaseBuffer.                             *)
(***************************************************************************)
EXTENDS Integers, FiniteSets

CONSTANTS
  Samples,      \* the sample objects memory has room for
  Getters,      \* threads that call GetBuffer
  MaxBuffers,   \* the largest cBuffers asked for
  CreateFails,  \* whether CreateSample may run out of memory
  MaxRefs,      \* references held on one sample
  MaxCalls      \* SetProperties, Commit, Decommit and GetBuffer calls

ASSUME PoolAssumption ==
  /\ IsFiniteSet(Samples) /\ CreateFails \in BOOLEAN
  /\ MaxBuffers \in Nat /\ MaxRefs \in Nat /\ MaxCalls \in Nat

VARIABLES
  cBuffers,   \* m_props.cBuffers
  active,     \* m_cActive, -1 when the properties are not set
  committed,  \* m_bCommitted
  free,       \* m_samples
  out,        \* samples handed out and not yet returned by ReleaseBuffer
  refs,       \* m_cRef of the samples handed out
  hCond,      \* m_hCond is set
  getter,     \* where each thread is in GetBuffer: "idle", "check", "wait"
  owned,      \* the owner has its reference to the allocator
  deleted,    \* the allocator's destructor has run
  calls

pvars == <<cBuffers, active, committed, free, out, refs, hCond, getter,
           owned, deleted, calls>>

PoolInit ==
  /\ cBuffers = 0 /\ active = -1 /\ committed = FALSE
  /\ free = {} /\ out = {} /\ refs = [s \in Samples |-> 0]
  /\ hCond = FALSE /\ getter = [g \in Getters |-> "idle"]
  /\ owned = TRUE /\ deleted = FALSE /\ calls = 0

Call == owned /\ calls < MaxCalls /\ calls' = calls + 1

-----------------------------------------------------------------------------
(* (Mutated form: samples that are still out do not matter.)               *)
SetPropertiesAnyTime(n) ==
  /\ Call /\ ~committed
  /\ cBuffers' = n /\ active' = 0
  /\ UNCHANGED <<committed, free, out, refs, hCond, getter, owned, deleted>>

(***************************************************************************)
(* CMemAllocator::SetProperties: refused while committed and while samples *)
(* are out.                                                                *)
(***************************************************************************)
SetProperties(n) ==
  /\ Call /\ ~committed /\ active <= 0
  /\ cBuffers' = n /\ active' = 0
  /\ UNCHANGED <<committed, free, out, refs, hCond, getter, owned, deleted>>

(***************************************************************************)
(* CMemAllocator::Commit: the samples are created one by one; if one       *)
(* cannot be, those created so far stay in the list.                       *)
(***************************************************************************)
Fresh(n) == {new \in SUBSET (Samples \ (free \cup out)) : Cardinality(new) = n}

(* (Mutated form: one sample too few is created.)                          *)
CommitOneShort ==
  /\ Call /\ ~committed /\ active = 0
  /\ \E new \in Fresh(IF cBuffers > 0 THEN cBuffers - 1 ELSE 0) : free' = free \cup new
  /\ committed' = TRUE
  /\ UNCHANGED <<cBuffers, active, out, refs, hCond, getter, owned, deleted>>

Commit ==
  /\ Call /\ ~committed /\ active = 0
  /\ \E new \in Fresh(cBuffers) : free' = free \cup new
  /\ committed' = TRUE
  /\ UNCHANGED <<cBuffers, active, out, refs, hCond, getter, owned, deleted>>

CommitFails ==
  /\ CreateFails /\ Call /\ ~committed /\ active = 0
  /\ \E n \in 0 .. cBuffers - 1 : \E new \in Fresh(n) : free' = free \cup new
  /\ UNCHANGED <<cBuffers, active, committed, out, refs, hCond, getter, owned, deleted>>

(* (Mutated form: waiting threads are not woken.)                          *)
DecommitQuietly ==
  /\ Call
  /\ committed' = FALSE /\ free' = {}
  /\ UNCHANGED <<cBuffers, active, out, refs, hCond, getter, owned, deleted>>

(***************************************************************************)
(* CMemAllocator::Decommit: the free samples are destroyed, the others     *)
(* when they come back; a thread in GetBuffer is woken to fail.            *)
(***************************************************************************)
Decommit ==
  /\ Call
  /\ committed' = FALSE /\ free' = {} /\ hCond' = TRUE
  /\ UNCHANGED <<cBuffers, active, out, refs, getter, owned, deleted>>

-----------------------------------------------------------------------------
(***************************************************************************)
(* CMemAllocator::GetBuffer.  With AM_GBF_NOWAIT it returns at once with a *)
(* sample or an error; without, it waits on the auto-reset m_hCond, with   *)
(* the lock released, and looks again.                                     *)
(***************************************************************************)
GetSample ==
  \E s \in free :
    /\ free' = free \ {s} /\ out' = out \cup {s}
    /\ refs' = [refs EXCEPT ![s] = 1]
    /\ active' = active + 1

Available == committed /\ active < cBuffers

GetBufferNoWait ==
  /\ Call /\ Available /\ GetSample
  /\ UNCHANGED <<cBuffers, committed, hCond, getter, owned, deleted>>

GetBuffer(g) ==
  /\ Call /\ getter[g] = "idle"
  /\ getter' = [getter EXCEPT ![g] = "check"]
  /\ UNCHANGED <<cBuffers, active, committed, free, out, refs, hCond, owned, deleted>>

Take(g) ==
  /\ getter[g] = "check" /\ Available /\ GetSample
  /\ getter' = [getter EXCEPT ![g] = "idle"]
  /\ UNCHANGED <<cBuffers, committed, hCond, owned, deleted, calls>>

NotCommitted(g) ==
  /\ getter[g] = "check" /\ ~committed
  /\ getter' = [getter EXCEPT ![g] = "idle"]
  /\ UNCHANGED <<cBuffers, active, committed, free, out, refs, hCond, owned, deleted, calls>>

Wait(g) ==
  /\ getter[g] = "check" /\ committed /\ active >= cBuffers
  /\ getter' = [getter EXCEPT ![g] = "wait"]
  /\ UNCHANGED <<cBuffers, active, committed, free, out, refs, hCond, owned, deleted, calls>>

Wake(g) ==
  /\ getter[g] = "wait" /\ hCond
  /\ hCond' = FALSE
  /\ getter' = [getter EXCEPT ![g] = "check"]
  /\ UNCHANGED <<cBuffers, active, committed, free, out, refs, owned, deleted, calls>>

-----------------------------------------------------------------------------
(***************************************************************************)
(* CMediaSample::AddRef and Release, and the ReleaseBuffer that follows    *)
(* when the count has come to zero.  An active sample holds a reference to *)
(* the allocator, which is deleted with the last one.                      *)
(***************************************************************************)
AddRef(s) ==
  /\ refs[s] \in 1 .. MaxRefs - 1
  /\ refs' = [refs EXCEPT ![s] = @ + 1]
  /\ UNCHANGED <<cBuffers, active, committed, free, out, hCond, getter, owned, deleted, calls>>

Release(s) ==
  /\ refs[s] > 0
  /\ refs' = [refs EXCEPT ![s] = @ - 1]
  /\ UNCHANGED <<cBuffers, active, committed, free, out, hCond, getter, owned, deleted, calls>>

(* (Mutated form: the sample goes back to the list in any case.)           *)
ReleaseBufferToList(s) ==
  /\ s \in out /\ refs[s] = 0
  /\ active' = active - 1 /\ out' = out \ {s}
  /\ free' = free \cup {s}
  /\ hCond' = TRUE
  /\ deleted' = (~owned /\ active' = 0)
  /\ UNCHANGED <<cBuffers, committed, refs, getter, owned, calls>>

ReleaseBuffer(s) ==
  /\ s \in out /\ refs[s] = 0
  /\ active' = active - 1 /\ out' = out \ {s}
  /\ free' = IF committed THEN free \cup {s} ELSE free
  /\ hCond' = TRUE
  /\ deleted' = (~owned /\ active' = 0)
  /\ UNCHANGED <<cBuffers, committed, refs, getter, owned, calls>>

(***************************************************************************)
(* The owner, a pin, lets go when it is disconnected: the filter is        *)
(* stopped, so the allocator has been decommitted and nobody is in         *)
(* GetBuffer.                                                              *)
(***************************************************************************)
Disconnected == ~committed /\ free = {} /\ \A g \in Getters : getter[g] = "idle"

OwnerReleases ==
  /\ owned /\ Disconnected
  /\ owned' = FALSE /\ deleted' = (active <= 0)
  /\ UNCHANGED <<cBuffers, active, committed, free, out, refs, hCond, getter, calls>>

OwnerCalls ==
  \/ \E n \in 0 .. MaxBuffers : SetProperties(n)
  \/ Commit \/ CommitFails \/ Decommit \/ OwnerReleases

GetterSteps(g) == Take(g) \/ NotCommitted(g) \/ Wait(g) \/ Wake(g)

PoolNext ==
  \/ OwnerCalls \/ GetBufferNoWait
  \/ \E g \in Getters : GetBuffer(g) \/ GetterSteps(g)
  \/ \E s \in Samples : AddRef(s) \/ Release(s) \/ ReleaseBuffer(s)

PoolSpec == PoolInit /\ [][PoolNext]_pvars

(***************************************************************************)
(* A thread in GetBuffer runs when it can, and who holds a sample lets go  *)
(* of it some day.                                                         *)
(***************************************************************************)
PoolFairness ==
  /\ \A g \in Getters : WF_pvars(GetterSteps(g))
  /\ \A s \in Samples : /\ WF_pvars(Release(s)) /\ WF_pvars(ReleaseBuffer(s))
                         /\ SF_pvars(refs[s] = 1 /\ Release(s))

FairPoolSpec == PoolSpec /\ PoolFairness

-----------------------------------------------------------------------------
(***************************************************************************)
(* Types.                                                                  *)
(***************************************************************************)
PoolTypeOK ==
  /\ cBuffers \in Nat /\ active \in Int /\ active >= -1
  /\ committed \in BOOLEAN /\ hCond \in BOOLEAN
  /\ free \subseteq Samples /\ out \subseteq Samples
  /\ refs \in [Samples -> Nat]
  /\ getter \in [Getters -> {"idle", "check", "wait"}]
  /\ owned \in BOOLEAN /\ deleted \in BOOLEAN /\ calls \in Nat

(***************************************************************************)
(* A sample is free or handed out, never both; who has a reference to a    *)
(* sample has one that is out, and m_cActive counts those.                 *)
(***************************************************************************)
OneOwner ==
  /\ free \cap out = {}
  /\ \A s \in Samples : refs[s] > 0 => s \in out
  /\ active = IF active = -1 THEN -1 ELSE Cardinality(out)

(***************************************************************************)
(* "assert(!m_samples.empty())": when the count says that a sample is to   *)
(* be had, the list has one.                                               *)
(***************************************************************************)
SampleThere == Available => free # {}

(***************************************************************************)
(* What the destructor asserts: the allocator goes only when it is         *)
(* decommitted, its list is empty and no sample is out.                    *)
(***************************************************************************)
DeletedWhenUnused ==
  deleted => ~owned /\ ~committed /\ active <= 0 /\ free = {} /\ out = {}

(***************************************************************************)
(* A thread that waits in GetBuffer returns, with a sample or an error,    *)
(* unless the allocator has been committed with no buffers at all.         *)
(***************************************************************************)
GetBufferReturns ==
  \A g \in Getters :
    getter[g] # "idle" ~> getter[g] = "idle" \/ (committed /\ cBuffers = 0)

=============================================================================
