-------------------------- MODULE SamplePoolProofs --------------------------
(***************************************************************************)
(* The safety of the sample allocator, for every number of samples,        *)
(* threads and buffers.  The inductive invariant adds to the checked       *)
(* invariants that the list and the count together make up what has been   *)
(* asked for, which SampleThere needs, and what is left when the owner has *)
(* gone, which DeletedWhenUnused needs.                                    *)
(***************************************************************************)
EXTENDS SamplePool, FiniteSetTheorems, TLAPS

PoolCount ==
  /\ active = -1 => out = {} /\ ~committed
  /\ active >= 0 => active = Cardinality(out)

ListFilled == committed => Cardinality(free) + active >= cBuffers

OwnerGone ==
  /\ ~owned => ~committed /\ free = {} /\ \A g \in Getters : getter[g] = "idle"
  /\ deleted => ~owned /\ active <= 0

PoolInv ==
  /\ PoolTypeOK
  /\ free \cap out = {}
  /\ \A s \in Samples : refs[s] > 0 => s \in out
  /\ PoolCount /\ ListFilled /\ OwnerGone

-----------------------------------------------------------------------------
(* Sets of samples are finite.                                             *)
LEMMA SamplesFinite ==
  ASSUME NEW S \in SUBSET Samples
  PROVE  IsFiniteSet(S) /\ Cardinality(S) \in Nat
BY PoolAssumption, FS_Subset, FS_CardinalityType

(* Sizes when one sample is taken out of a set, or put into it.            *)
LEMMA OneLess ==
  ASSUME NEW S \in SUBSET Samples, NEW s \in S
  PROVE  Cardinality(S \ {s}) = Cardinality(S) - 1 /\ Cardinality(S) >= 1
<1>1. IsFiniteSet(S) /\ Cardinality(S) \in Nat
  BY SamplesFinite
<1>2. Cardinality(S \ {s}) = Cardinality(S) - 1
  BY <1>1, FS_RemoveElement
<1>3. Cardinality(S) # 0
  BY <1>1, FS_EmptySet
<1> QED
  BY <1>1, <1>2, <1>3

LEMMA OneMore ==
  ASSUME NEW S \in SUBSET Samples, NEW s \in Samples, s \notin S
  PROVE  Cardinality(S \cup {s}) = Cardinality(S) + 1
BY SamplesFinite, FS_AddElement

(* Samples created by Commit make the list that much longer.               *)
LEMMA Created ==
  ASSUME NEW S \in SUBSET Samples, NEW T \in SUBSET Samples, S \cap T = {}
  PROVE  Cardinality(S \cup T) = Cardinality(S) + Cardinality(T)
<1>1. IsFiniteSet(S) /\ IsFiniteSet(T) /\ Cardinality(S) \in Nat /\ Cardinality(T) \in Nat
  BY SamplesFinite
<1>2. Cardinality(S \cup T) = Cardinality(S) + Cardinality(T) - Cardinality(S \cap T)
  BY <1>1, FS_Union
<1>3. Cardinality(S \cap T) = 0
  BY FS_EmptySet
<1> QED
  BY <1>1, <1>2, <1>3

-----------------------------------------------------------------------------
LEMMA PoolInitInv == PoolInit => PoolInv
<1> SUFFICES ASSUME PoolInit PROVE PoolInv
  OBVIOUS
<1>1. PoolTypeOK
  <2>1. cBuffers \in Nat /\ active \in Int /\ active >= -1 /\ calls \in Nat
    BY SMT DEF PoolInit
  <2>2. refs \in [Samples -> Nat] /\ getter \in [Getters -> {"idle", "check", "wait"}]
    BY SMT DEF PoolInit
  <2>3. /\ committed \in BOOLEAN /\ hCond \in BOOLEAN /\ owned \in BOOLEAN /\ deleted \in BOOLEAN
        /\ free \subseteq Samples /\ out \subseteq Samples
    BY Zenon DEF PoolInit
  <2> QED
    BY <2>1, <2>2, <2>3 DEF PoolTypeOK
<1> QED
  BY <1>1 DEF PoolInit, PoolInv, PoolCount, ListFilled, OwnerGone

(* A sample is taken, by either form of GetBuffer.                         *)
LEMMA GetSampleInv ==
  ASSUME PoolInv, Available, GetSample, owned,
         UNCHANGED <<cBuffers, committed, hCond, owned, deleted>>,
         getter' \in [Getters -> {"idle", "check", "wait"}], calls' \in Nat
  PROVE  PoolInv'
<1> USE DEF PoolInv, PoolTypeOK
<1>1. PICK s \in free : /\ free' = free \ {s} /\ out' = out \cup {s}
                        /\ refs' = [refs EXCEPT ![s] = 1]
                        /\ active' = active + 1
  BY DEF GetSample
<1>2. s \in Samples /\ s \notin out
  BY <1>1
<1>3. committed /\ active >= 0
  BY DEF Available, PoolCount
<1>4. PoolTypeOK'
  BY <1>1, <1>2
<1>5. free' \cap out' = {}
  BY <1>1
<1>6. \A x \in Samples : refs'[x] > 0 => x \in out'
  BY <1>1
<1>7. PoolCount'
  <2>1. Cardinality(out') = Cardinality(out) + 1
    BY <1>1, <1>2, OneMore
  <2> QED
    BY <1>1, <1>3, <2>1 DEF PoolCount
<1>8. ListFilled'
  <2>1. Cardinality(free') = Cardinality(free) - 1
    BY <1>1, OneLess
  <2>2. Cardinality(free) \in Nat
    BY SamplesFinite
  <2> QED
    BY <1>1, <1>3, <2>1, <2>2 DEF ListFilled
<1>9. OwnerGone'
  BY DEF OwnerGone
<1> QED
  BY <1>4, <1>5, <1>6, <1>7, <1>8, <1>9

LEMMA PoolStep == PoolInv /\ [PoolNext]_pvars => PoolInv'
<1> SUFFICES ASSUME PoolInv, [PoolNext]_pvars PROVE PoolInv'
  OBVIOUS
<1> USE DEF PoolInv, PoolTypeOK
<1>0. Cardinality(free) \in Nat /\ Cardinality(out) \in Nat /\ MaxBuffers \in Nat
  BY SamplesFinite, PoolAssumption
<1>1. ASSUME NEW n \in 0 .. MaxBuffers, SetProperties(n) PROVE PoolInv'
  <2>1. n \in Nat
    BY <1>0, <1>1
  <2>2. out = {}
    BY <1>1, SamplesFinite, FS_EmptySet DEF SetProperties, PoolCount
  <2>3. Cardinality(out) = 0
    BY <2>2, FS_EmptySet
  <2> QED
    BY <1>1, <2>1, <2>2, <2>3 DEF SetProperties, Call, PoolCount, ListFilled, OwnerGone
<1>2. ASSUME Commit PROVE PoolInv'
  <2>1. PICK new \in Fresh(cBuffers) : free' = free \cup new
    BY <1>2 DEF Commit
  <2>2. new \subseteq Samples /\ new \cap free = {} /\ new \cap out = {}
        /\ Cardinality(new) = cBuffers
    BY <2>1 DEF Fresh
  <2>3. Cardinality(free') = Cardinality(free) + cBuffers
    BY <2>1, <2>2, Created
  <2>4. ListFilled'
    BY <1>0, <1>2, <2>3 DEF Commit, ListFilled
  <2> QED
    BY <1>2, <2>1, <2>2, <2>4 DEF Commit, Call, PoolCount, OwnerGone
<1>3. ASSUME CommitFails PROVE PoolInv'
  <2>1. PICK n \in 0 .. cBuffers - 1 : \E new \in Fresh(n) : free' = free \cup new
    BY <1>3 DEF CommitFails
  <2>2. PICK new \in Fresh(n) : free' = free \cup new
    BY <2>1
  <2>3. new \subseteq Samples /\ new \cap free = {} /\ new \cap out = {}
    BY <2>2 DEF Fresh
  <2> QED
    BY <1>3, <2>2, <2>3 DEF CommitFails, Call, PoolCount, ListFilled, OwnerGone
<1>4. ASSUME Decommit PROVE PoolInv'
  <2>1. PoolTypeOK'
    <3>1. calls' \in Nat
      BY <1>4 DEF Decommit, Call
    <3>2. committed' \in BOOLEAN /\ hCond' \in BOOLEAN /\ free' \subseteq Samples
      BY <1>4, Zenon DEF Decommit
    <3> QED
      BY <1>4, <3>1, <3>2 DEF Decommit
  <2>2. free' \cap out' = {} /\ \A s \in Samples : refs'[s] > 0 => s \in out'
    BY <1>4 DEF Decommit
  <2>3. PoolCount' /\ ListFilled'
    BY <1>4 DEF Decommit, PoolCount, ListFilled
  <2>4. OwnerGone'
    BY <1>4 DEF Decommit, Call, OwnerGone
  <2> QED
    BY <2>1, <2>2, <2>3, <2>4
<1>5. ASSUME OwnerReleases PROVE PoolInv'
  <2>1. PoolTypeOK'
    <3>1. owned' \in BOOLEAN
      BY <1>5, Zenon DEF OwnerReleases
    <3>2. deleted' \in BOOLEAN
      BY <1>5 DEF OwnerReleases
    <3> QED
      BY <1>5, <3>1, <3>2 DEF OwnerReleases
  <2>2. free' \cap out' = {} /\ \A s \in Samples : refs'[s] > 0 => s \in out'
    BY <1>5 DEF OwnerReleases
  <2>3. PoolCount' /\ ListFilled'
    BY <1>5 DEF OwnerReleases, PoolCount, ListFilled
  <2>4. OwnerGone'
    BY <1>5 DEF OwnerReleases, Disconnected, OwnerGone
  <2> QED
    BY <2>1, <2>2, <2>3, <2>4
<1>6. ASSUME GetBufferNoWait PROVE PoolInv'
  BY <1>6, GetSampleInv DEF GetBufferNoWait, Call
<1>7. ASSUME NEW g \in Getters, GetBuffer(g) PROVE PoolInv'
  BY <1>7 DEF GetBuffer, Call, PoolCount, ListFilled, OwnerGone
<1>8. ASSUME NEW g \in Getters, Take(g) PROVE PoolInv'
  <2>1. owned
    BY <1>8 DEF Take, OwnerGone
  <2> QED
    BY <1>8, <2>1, GetSampleInv DEF Take
<1>9. ASSUME NEW g \in Getters, NotCommitted(g) \/ Wait(g) \/ Wake(g) PROVE PoolInv'
  <2>1. UNCHANGED <<cBuffers, active, committed, free, out, refs, owned, deleted, calls>>
    BY <1>9 DEF NotCommitted, Wait, Wake
  <2>2. getter' \in [Getters -> {"idle", "check", "wait"}]
    BY <1>9 DEF NotCommitted, Wait, Wake
  <2>3. hCond' \in BOOLEAN
    <3>1. CASE hCond' = hCond
      BY <3>1
    <3>2. CASE hCond' = FALSE
      BY <3>2, Zenon
    <3> QED
      BY <1>9, <3>1, <3>2 DEF NotCommitted, Wait, Wake
  <2>4. OwnerGone'
    <3>1. owned
      BY <1>9 DEF NotCommitted, Wait, Wake, OwnerGone
    <3> QED
      BY <2>1, <3>1 DEF OwnerGone
  <2> QED
    BY <2>1, <2>2, <2>3, <2>4 DEF PoolCount, ListFilled
<1>10. ASSUME NEW s \in Samples, AddRef(s) PROVE PoolInv'
  BY <1>10 DEF AddRef, PoolCount, ListFilled, OwnerGone
<1>11. ASSUME NEW s \in Samples, Release(s) PROVE PoolInv'
  BY <1>11 DEF Release, PoolCount, ListFilled, OwnerGone
<1>12. ASSUME NEW s \in Samples, ReleaseBuffer(s) PROVE PoolInv'
  <2>1. s \in out /\ s \notin free /\ refs[s] = 0
    BY <1>12 DEF ReleaseBuffer
  <2>2. Cardinality(out') = Cardinality(out) - 1 /\ Cardinality(out) >= 1
    BY <1>12, <2>1, OneLess DEF ReleaseBuffer
  <2>3. active = Cardinality(out) /\ active' = active - 1
    BY <1>12, <2>1 DEF ReleaseBuffer, PoolCount
  <2>4. PoolCount' /\ active' \in Int /\ active' >= -1
    BY <1>0, <2>2, <2>3 DEF PoolCount
  <2>5. ListFilled'
    <3>1. CASE committed
      <4>1. Cardinality(free') = Cardinality(free) + 1
        BY <1>12, <2>1, <3>1, OneMore DEF ReleaseBuffer
      <4> QED
        BY <1>0, <1>12, <2>3, <4>1 DEF ReleaseBuffer, ListFilled
    <3>2. CASE ~committed
      BY <1>12, <3>2 DEF ReleaseBuffer, ListFilled
    <3> QED
      BY <3>1, <3>2
  <2>6. OwnerGone'
    BY <1>12, <2>3 DEF ReleaseBuffer, OwnerGone
  <2> QED
    BY <1>12, <2>1, <2>4, <2>5, <2>6 DEF ReleaseBuffer
<1>13. CASE UNCHANGED pvars
  BY <1>13 DEF pvars, PoolCount, ListFilled, OwnerGone
<1> QED
  BY <1>1, <1>2, <1>3, <1>4, <1>5, <1>6, <1>7, <1>8, <1>9, <1>10, <1>11, <1>12, <1>13
     DEF PoolNext, OwnerCalls, GetterSteps

LEMMA PoolAlways == PoolSpec => []PoolInv
<1>1. PoolInit => PoolInv
  BY PoolInitInv
<1>2. PoolInv /\ [PoolNext]_pvars => PoolInv'
  BY PoolStep
<1> QED
  BY <1>1, <1>2, PTL DEF PoolSpec

-----------------------------------------------------------------------------
(* The types of the allocator's state (CMemAllocator).                     *)
THEOREM PoolTypes == PoolSpec => []PoolTypeOK
<1>1. PoolInv => PoolTypeOK
  BY DEF PoolInv
<1> QED
  BY <1>1, PoolAlways, PTL

(* No sample is both in the list and in somebody's hands, a reference is   *)
(* to a sample that is out, and m_cActive counts those.                    *)
THEOREM PoolOwners == PoolSpec => []OneOwner
<1>1. PoolInv => OneOwner
  BY DEF PoolInv, PoolTypeOK, PoolCount, OneOwner
<1> QED
  BY <1>1, PoolAlways, PTL

(* GetSample finds a sample whenever the count says there is one.          *)
THEOREM PoolNeverEmpty == PoolSpec => []SampleThere
<1>1. ASSUME PoolInv, Available PROVE free # {}
  <2>1. Cardinality(free) + active >= cBuffers /\ active < cBuffers
    BY <1>1 DEF PoolInv, ListFilled, Available
  <2>2. Cardinality({}) = 0
    BY FS_EmptySet
  <2>3. Cardinality(free) \in Nat
    BY <1>1, SamplesFinite DEF PoolInv, PoolTypeOK
  <2> QED
    BY <1>1, <2>1, <2>2, <2>3 DEF PoolInv, PoolTypeOK
<1> QED
  BY <1>1, PoolAlways, PTL DEF SampleThere

(* The allocator is deleted only when no sample exists any more.           *)
THEOREM PoolDeletedLast == PoolSpec => []DeletedWhenUnused
<1>1. ASSUME PoolInv, deleted PROVE ~owned /\ ~committed /\ active <= 0 /\ free = {} /\ out = {}
  <2>1. ~owned /\ ~committed /\ active <= 0 /\ free = {}
    BY <1>1 DEF PoolInv, OwnerGone
  <2>2. out = {}
    <3>1. CASE active = -1
      BY <1>1, <3>1 DEF PoolInv, PoolCount
    <3>2. CASE active = 0
      <4>1. Cardinality(out) = 0 /\ IsFiniteSet(out)
        BY <1>1, <3>2, SamplesFinite DEF PoolInv, PoolTypeOK, PoolCount
      <4> QED
        BY <4>1, FS_EmptySet
    <3> QED
      BY <1>1, <2>1, <3>1, <3>2 DEF PoolInv, PoolTypeOK
  <2> QED
    BY <2>1, <2>2
<1> QED
  BY <1>1, PoolAlways, PTL DEF DeletedWhenUnused
=============================================================================
