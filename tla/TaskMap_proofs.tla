--------------------------- MODULE TaskMap_proofs ---------------------------
(***************************************************************************)
(* Proofs about the TaskMap, for every set of goroutines and task refs:    *)
(* the type invariant, and that with the read lock in Count (TaskMapFixed) *)
(* no goroutine ever reads t.m while another writes it and the TaskMap     *)
(* implements the atomic map TaskMapAtomic.                                *)
(***************************************************************************)
EXTENDS TaskMap, FiniteSetTheorems, TLAPS

USE Assumptions

(* len(m) of a map over Refs lies between 0 and the number of refs. *)
LEMMA SizeBound ==
  ASSUME NEW m \in [Refs -> Entry]
  PROVE  Size(m) \in 0 .. Cardinality(Refs)
<1>1. /\ IsFiniteSet({k \in Refs : m[k] # NoTask})
      /\ Cardinality({k \in Refs : m[k] # NoTask}) <= Cardinality(Refs)
  BY FS_Subset
<1>2. Cardinality({k \in Refs : m[k] # NoTask}) \in Nat
  BY <1>1, FS_CardinalityType
<1>3. QED
  BY <1>1, <1>2 DEF Size

(* Applying a writer's pending entry keeps t.m a map over Refs. *)
LEMMA AppliedType ==
  ASSUME TypeOK, NEW w \in Writers
  PROVE  Applied(w) \in [Refs -> Entry]
BY DEF TypeOK, Applied

-----------------------------------------------------------------------------
(* Type correctness, one lemma for the initial state and one for a step,  *)
(* so that a module composing the TaskMap can cite them.                   *)
LEMMA TypeInit == Init => TypeOK
<1> SUFFICES ASSUME Init PROVE TypeOK
  OBVIOUS
<1>1. (CHOOSE k \in Refs : TRUE) \in Refs
  OBVIOUS
<1>2. Cardinality(Refs) \in Nat
  BY FS_CardinalityType
<1>3. op \in [Writers -> Refs \X Entry]
  BY <1>1 DEF Init, Entry
<1>4. result \in [Readers -> 0 .. Cardinality(Refs)]
  BY <1>2 DEF Init
<1>5. QED
  BY <1>3, <1>4 DEF Init, TypeOK, Procs, Entry

LEMMA TypeStep == TypeOK /\ [Next]_vars => TypeOK'
<1> SUFFICES ASSUME TypeOK, [Next]_vars PROVE TypeOK'
  OBVIOUS
<1>1. ASSUME NEW w \in Writers, NEW k \in Refs, NEW v \in Entry,
             Lock(w, k, v)
      PROVE  TypeOK'
  BY <1>1 DEF Lock, TypeOK, Procs
<1>2. ASSUME NEW w \in Writers, NEW k \in Refs, NEW d \in Details,
             Upsert(w, k, d)
      PROVE  TypeOK'
  BY <1>1, <1>2 DEF Upsert, Entry
<1>3. ASSUME NEW w \in Writers, NEW k \in Refs, Delete(w, k)
      PROVE  TypeOK'
  BY <1>1, <1>3 DEF Delete, Entry
<1>4. ASSUME NEW w \in Writers, Acquire(w) PROVE TypeOK'
  BY <1>4 DEF Acquire, TypeOK, Procs
<1>5. ASSUME NEW w \in Writers, Unlock(w) PROVE TypeOK'
  <2>1. tasks' \in [Refs -> Entry]
    BY <1>5, AppliedType DEF Unlock
  <2>2. QED
    BY <1>5, <2>1 DEF Unlock, TypeOK, Procs
<1>6. ASSUME NEW r \in Readers, Count(r) PROVE TypeOK'
  BY <1>6 DEF Count, TypeOK, Procs
<1>7. ASSUME NEW r \in Readers, ReadLen(r) PROVE TypeOK'
  <2>1. PICK n \in {Size(tasks)} \cup {Size(Applied(w)) : w \in writing} :
               result' = [result EXCEPT ![r] = n]
    BY <1>7 DEF ReadLen
  <2>2. n \in 0 .. Cardinality(Refs)
    BY AppliedType, SizeBound DEF TypeOK
  <2>3. QED
    BY <1>7, <2>1, <2>2 DEF ReadLen, TypeOK, Procs
<1>8. ASSUME NEW r \in Readers, RUnlock(r) PROVE TypeOK'
  BY <1>8 DEF RUnlock, TypeOK, Procs
<1>9. CASE UNCHANGED vars
  BY <1>9 DEF vars, TypeOK
<1>10. QED
  BY <1>2, <1>3, <1>4, <1>5, <1>6, <1>7, <1>8, <1>9 DEF Next

(* Type correctness: every reachable state is well typed. *)
THEOREM TypeCorrect == Spec => []TypeOK
BY TypeInit, TypeStep, PTL DEF Spec

-----------------------------------------------------------------------------
(* LockInv is inductive relative to TypeOK. *)
LEMMA LockInvInit == Init => LockInv
BY DEF Init, LockInv, Procs

LEMMA LockInvStep == TypeOK /\ LockInv /\ [Next]_vars => LockInv'
<1> SUFFICES ASSUME TypeOK, LockInv, [Next]_vars PROVE LockInv'
  OBVIOUS
<1>1. ASSUME NEW w \in Writers, NEW k \in Refs, NEW v \in Entry,
             Lock(w, k, v)
      PROVE  LockInv'
  BY <1>1 DEF Lock, LockInv, TypeOK, Procs
<1>2. ASSUME NEW w \in Writers, Acquire(w) PROVE LockInv'
  BY <1>2 DEF Acquire, LockInv, TypeOK, Procs
<1>3. ASSUME NEW w \in Writers, Unlock(w) PROVE LockInv'
  BY <1>3 DEF Unlock, LockInv, TypeOK, Procs
<1>4. ASSUME NEW r \in Readers, Count(r) PROVE LockInv'
  BY <1>4 DEF Count, LockInv, TypeOK, Procs
<1>5. ASSUME NEW r \in Readers, ReadLen(r) PROVE LockInv'
  BY <1>5 DEF ReadLen, LockInv, TypeOK, Procs
<1>6. ASSUME NEW r \in Readers, RUnlock(r) PROVE LockInv'
  BY <1>6 DEF RUnlock, LockInv, TypeOK, Procs
<1>7. CASE UNCHANGED vars
  BY <1>7 DEF vars, LockInv
<1>8. QED
  BY <1>1, <1>2, <1>3, <1>4, <1>5, <1>6, <1>7
  DEF Next, Upsert, Delete, Entry

(* The strengthened invariant implies the absence of data races. *)
LEMMA IInvNoDataRace == CountLocked /\ IInv => NoDataRace
BY DEF IInv, LockInv, NoDataRace, TypeOK

(* The strengthened invariant is inductive, with or without the read lock. *)
LEMMA IInvStep == IInv /\ [Next]_vars => IInv'
BY TypeStep, LockInvStep DEF IInv

(* The lock state of the RWMutex agrees with the control points of the     *)
(* goroutines in every reachable state, with or without the read lock in  *)
(* Count: a writer inside a write owns the lock, the writer mutex is held  *)
(* by a writer that is inside Lock or its write, and the goroutines that   *)
(* read t.m are exactly those in the read step of Count.                   *)
THEOREM IInvHolds == Spec => []IInv
BY TypeInit, LockInvInit, IInvStep, PTL DEF Spec, IInv

(* TaskMapFixed: when Count takes the read lock, no goroutine reads t.m    *)
(* while another writes it, and writes never overlap.                      *)
THEOREM FixedCountNoDataRace == CountLocked => (Spec => []NoDataRace)
<1> SUFFICES ASSUME CountLocked PROVE Spec => []NoDataRace
  OBVIOUS
<1>1. QED
  BY IInvHolds, IInvNoDataRace, PTL

-----------------------------------------------------------------------------
(* Refinement of the atomic map. *)

(* A reader holding the read lock sees no write in progress. *)
LEMMA ReaderSeesNoWrite ==
  ASSUME CountLocked, IInv, NEW r \in Readers, r \in rActive
  PROVE  writing = {}
BY DEF IInv, LockInv

(* Under the read lock, every step of the TaskMap is a step of the atomic  *)
(* map or leaves t.m and the results alone: Unlock is the Put of the       *)
(* writer's entry, and ReadLen is a Count, since no write is in progress.  *)
LEMMA AtomicStep ==
  CountLocked /\ IInv /\ [Next]_vars => [Atomic!Next]_<<tasks, result>>
<1> SUFFICES ASSUME CountLocked, IInv, [Next]_vars
             PROVE  [Atomic!Next]_<<tasks, result>>
  OBVIOUS
<1>1. ASSUME NEW w \in Writers, NEW k \in Refs, NEW v \in Entry,
             Lock(w, k, v)
      PROVE  UNCHANGED <<tasks, result>>
  BY <1>1 DEF Lock
<1>2. ASSUME NEW w \in Writers, Acquire(w) PROVE UNCHANGED <<tasks, result>>
  BY <1>2 DEF Acquire
<1>3. ASSUME NEW w \in Writers, Unlock(w) PROVE Atomic!Next
  <2>1. op[w][1] \in Refs /\ op[w][2] \in Entry
    BY DEF IInv, TypeOK
  <2>2. Atomic!Put(op[w][1], op[w][2])
    BY <1>3 DEF Unlock, Applied, Atomic!Put
  <2>3. QED
    BY <2>1, <2>2 DEF Atomic!Next, Atomic!Entry, Entry
<1>4. ASSUME NEW r \in Readers, Count(r) PROVE UNCHANGED <<tasks, result>>
  BY <1>4 DEF Count
<1>5. ASSUME NEW r \in Readers, ReadLen(r) PROVE Atomic!Next
  <2>1. writing = {}
    BY <1>5, ReaderSeesNoWrite DEF ReadLen
  <2>2. result' = [result EXCEPT ![r] = Size(tasks)] /\ UNCHANGED tasks
    BY <1>5, <2>1 DEF ReadLen
  <2>3. Atomic!Count(r)
    BY <2>2 DEF Atomic!Count, Size, Atomic!Cardinality, Cardinality
  <2>4. QED
    BY <2>3 DEF Atomic!Next
<1>6. ASSUME NEW r \in Readers, RUnlock(r) PROVE UNCHANGED <<tasks, result>>
  BY <1>6 DEF RUnlock
<1>7. CASE UNCHANGED vars
  BY <1>7 DEF vars
<1>8. QED
  BY <1>1, <1>2, <1>3, <1>4, <1>5, <1>6, <1>7
  DEF Next, Upsert, Delete, Entry

(* TaskMapFixed implements the atomic map of spec section 4.2: with the    *)
(* read lock in Count, every behaviour of Upsert, Delete and Count is a    *)
(* behaviour of TaskMapAtomic, so the calls are linearizable.              *)
THEOREM FixedCountAtomic == CountLocked => (Spec => AtomicSpec)
<1> SUFFICES ASSUME CountLocked PROVE Spec => AtomicSpec
  OBVIOUS
<1>1. Init => Atomic!Init
  BY DEF Init, Atomic!Init
<1>2. QED
  BY <1>1, IInvHolds, AtomicStep, PTL DEF Spec, AtomicSpec, Atomic!Spec
=============================================================================
