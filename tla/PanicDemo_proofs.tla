-------------------------- MODULE PanicDemo_proofs --------------------------
(***************************************************************************)
(* Proofs about the driver of panic_demo.go, for any number of writers,    *)
(* readers and loop iterations and for both versions of Count: the count   *)
(* main prints after wg.Wait() is 0.  The TaskMap's own invariant is taken *)
(* from TaskMap_proofs, instantiated with the driver's goroutines and keys. *)
(***************************************************************************)
EXTENDS PanicDemo, FiniteSetTheorems, TLAPS

USE DemoAssumptions

TMP == INSTANCE TaskMap_proofs
         WITH Readers <- DemoReaders \cup {Main},
              Refs <- Keys,
              Details <- 0 .. MaxIter - 1

(* The driver's constants satisfy the assumptions of the TaskMap, so the   *)
(* lemmas of TaskMap_proofs hold of the driver's map.                      *)
LEMMA TMAssumptions == TMP!Assumptions
<1>1. IsFiniteSet(0 .. MaxIter - 1) /\ 0 \in 0 .. MaxIter - 1
  BY FS_Interval
<1>2. IsFiniteSet(Keys)
  BY <1>1, FS_Product DEF Keys
<1>3. Keys # {}
  <2>1. PICK w \in Writers : TRUE
    OBVIOUS
  <2>2. <<w, 0>> \in Keys
    BY <1>1 DEF Keys
  <2>3. QED
    BY <2>2
<1>4. NoTask \notin 0 .. MaxIter - 1
  OBVIOUS
<1>5. QED
  BY <1>2, <1>3, <1>4 DEF TMP!Assumptions, TMP!IsFiniteSet, IsFiniteSet

-----------------------------------------------------------------------------
(* Every step of the driver is a step of the TaskMap or leaves it alone.   *)
LEMMA StepIsMapStep ==
  ASSUME DemoInv, [Next]_vars
  PROVE  [TM!Next]_tmVars
<1>1. ASSUME NEW w \in Writers, WriterUpsert(w) PROVE [TM!Next]_tmVars
  <2>1. CASE stopped
    BY <1>1, <2>1 DEF WriterUpsert
  <2>2. CASE ~stopped
    <3>1. iter[w] \in 0 .. MaxIter - 1
      BY <1>1, <2>2 DEF WriterUpsert, DemoInv, TypeOK
    <3>2. TM!Upsert(w, <<w, iter[w]>>, iter[w])
      BY <1>1, <2>2 DEF WriterUpsert
    <3>3. QED
      BY <3>1, <3>2 DEF TM!Next, Keys
  <2>3. QED
    BY <2>1, <2>2
<1>2. ASSUME NEW w \in Writers, WriterDelete(w) PROVE [TM!Next]_tmVars
  <2>1. iter[w] \in 0 .. MaxIter - 1
    BY <1>2 DEF WriterDelete, DemoInv, TypeOK, WriterPhase
  <2>2. TM!Delete(w, <<w, iter[w]>>)
    BY <1>2 DEF WriterDelete
  <2>3. QED
    BY <2>1, <2>2 DEF TM!Next, Keys
<1>3. ASSUME NEW r \in DemoReaders, ReaderLoop(r) PROVE [TM!Next]_tmVars
  BY <1>3 DEF ReaderLoop, TM!Next
<1>4. CASE MainCount
  BY <1>4 DEF MainCount, TM!Next
<1>5. CASE MapStep
  BY <1>5 DEF MapStep, TM!Next
<1>6. CASE Close \/ WaitGroupWait \/ MainExit \/ UNCHANGED vars
  BY <1>6 DEF Close, WaitGroupWait, MainExit, vars
<1>7. QED
  BY <1>1, <1>2, <1>3, <1>4, <1>5, <1>6 DEF Next

(* The TaskMap part of the invariant is preserved: the step lemmas of      *)
(* TaskMap_proofs apply through TMP.  TM (of PanicDemo) and TMP are two    *)
(* instances of the same module with the same substitution, so their       *)
(* definitions are expanded side by side to identify them.                 *)
LEMMA MapStepOfInstance ==
  ASSUME DemoInv, [Next]_vars
  PROVE  [TMP!Next]_TMP!vars
<1>1. [TM!Next]_tmVars
  BY StepIsMapStep
<1>2. QED
  BY <1>1 DEF tmVars, TM!Next, TMP!Next, TM!Upsert, TMP!Upsert, TM!Delete,
              TMP!Delete, TM!Lock, TMP!Lock, TM!Acquire, TMP!Acquire,
              TM!Unlock, TMP!Unlock, TM!Count, TMP!Count, TM!ReadLen,
              TMP!ReadLen, TM!RUnlock, TMP!RUnlock, TM!Applied, TMP!Applied,
              TM!Size, TMP!Size, TM!Cardinality, TMP!Cardinality, TM!vars,
              TMP!vars

(* DemoInv contains the TaskMap's inductive invariant. *)
LEMMA MapInvOfInstance ==
  ASSUME DemoInv
  PROVE  TMP!TypeOK /\ TMP!LockInv
BY DEF DemoInv, TypeOK, TM!TypeOK, TMP!TypeOK, TM!LockInv, TMP!LockInv,
       TM!Procs, TMP!Procs, TM!Entry, TMP!Entry, TM!Cardinality,
       TMP!Cardinality

LEMMA MapInvStep ==
  ASSUME DemoInv, [Next]_vars
  PROVE  TM!TypeOK' /\ TM!LockInv'
<1>1. [TMP!Next]_TMP!vars
  BY MapStepOfInstance
<1>2. TMP!TypeOK /\ TMP!LockInv
  BY MapInvOfInstance
<1>3. TMP!TypeOK'
  BY <1>1, <1>2, TMAssumptions, TMP!TypeStep
<1>4. TMP!LockInv'
  BY <1>1, <1>2, TMAssumptions, TMP!LockInvStep
<1>5. QED
  BY <1>3, <1>4 DEF TM!TypeOK, TMP!TypeOK, TM!LockInv, TMP!LockInv, TM!Procs,
                    TMP!Procs, TM!Entry, TMP!Entry, TM!Cardinality,
                    TMP!Cardinality

-----------------------------------------------------------------------------
(* Once every writer has returned, t.m is empty and nobody writes it.      *)
LEMMA AllReturnedEmpty ==
  ASSUME DemoInv, \A w \in Writers : stage[w] = "returned"
  PROVE  /\ \A k \in Keys : tasks[k] = NoTask
         /\ writing = {}
<1>1. \A w \in Writers : pc[w] = "idle"
  BY DEF DemoInv, WriterPhase
<1>2. \A k \in Keys : tasks[k] = NoTask
  BY <1>1 DEF DemoInv, EntryOwned, Keys
<1>3. writing = {}
  BY <1>1 DEF DemoInv, TypeOK, TM!TypeOK, TM!LockInv
<1>4. QED
  BY <1>2, <1>3

(* len(t.m) of an empty map is 0. *)
LEMMA EmptySize ==
  ASSUME NEW m, \A k \in Keys : m[k] = NoTask
  PROVE  TM!Size(m) = 0
<1>1. {k \in Keys : m[k] # NoTask} = {}
  OBVIOUS
<1>2. QED
  BY <1>1, FS_EmptySet DEF TM!Size, TM!Cardinality, Cardinality

-----------------------------------------------------------------------------
LEMMA DemoInit == Init => DemoInv
<1> SUFFICES ASSUME Init PROVE DemoInv
  OBVIOUS
<1>1. TMP!TypeOK /\ TMP!LockInv
  <2>1. TMP!Init
    BY DEF Init, TM!Init, TMP!Init, TM!Procs, TMP!Procs
  <2>2. QED
    BY <2>1, TMAssumptions, TMP!TypeInit, TMP!LockInvInit
<1>2. TM!TypeOK /\ TM!LockInv
  BY <1>1 DEF TM!TypeOK, TMP!TypeOK, TM!LockInv, TMP!LockInv,
              TM!Procs, TMP!Procs, TM!Entry, TMP!Entry,
              TM!Cardinality, TMP!Cardinality
<1>3. \A k \in Keys : tasks[k] = NoTask
  BY DEF Init, TM!Init
<1>4. TypeOK
  <2>1. stage \in [Writers \cup DemoReaders \cup {Main} -> Stages]
    BY DEF Init, Stages
  <2>2. iter \in [Writers -> 0 .. MaxIter]
    BY DEF Init
  <2>3. QED
    BY <1>2, <2>1, <2>2 DEF Init, TypeOK
<1>5. EntryOwned
  BY <1>3 DEF EntryOwned
<1>6. pc = [p \in Writers \cup DemoReaders \cup {Main} |-> "idle"]
  BY DEF Init, TM!Init, TM!Procs
<1>7. WriterPhase /\ MainPhase
  BY <1>6 DEF Init, WriterPhase, MainPhase
<1>8. QED
  BY <1>2, <1>4, <1>5, <1>7 DEF DemoInv

-----------------------------------------------------------------------------
(* The part of DemoInv about the driver's own variables. *)
DemoRest ==
  /\ stage \in [Writers \cup DemoReaders \cup {Main} -> Stages]
  /\ iter \in [Writers -> 0 .. MaxIter]
  /\ stopped \in BOOLEAN
  /\ EntryOwned
  /\ WriterPhase
  /\ MainPhase

LEMMA WriterUpsertStep ==
  ASSUME DemoInv, NEW w \in Writers, WriterUpsert(w)
  PROVE  DemoRest'
<1>1. CASE stopped
  <2>1. /\ stage' = [stage EXCEPT ![w] = "returned"]
        /\ UNCHANGED <<tasks, pc, op, result, iter, stopped>>
    BY <1>1 DEF WriterUpsert, tmVars
  <2>2. QED
    BY <2>1 DEF WriterUpsert, DemoInv, DemoRest, TypeOK, TM!TypeOK, TM!Procs,
                EntryOwned, WriterPhase, MainPhase, Stages, Keys
<1>2. CASE ~stopped
  <2>1. /\ pc' = [pc EXCEPT ![w] = "drain"]
        /\ op' = [op EXCEPT ![w] = <<<<w, iter[w]>>, iter[w]>>]
        /\ UNCHANGED <<tasks, result>>
        /\ iter[w] < MaxIter
    BY <1>2 DEF WriterUpsert, TM!Upsert, TM!Lock
  <2>2. QED
    BY <1>2, <2>1 DEF WriterUpsert, DemoInv, DemoRest, TypeOK, TM!TypeOK,
                      TM!Procs, EntryOwned, WriterPhase, MainPhase, Stages,
                      Keys
<1>3. QED
  BY <1>1, <1>2

LEMMA WriterDeleteStep ==
  ASSUME DemoInv, NEW w \in Writers, WriterDelete(w)
  PROVE  DemoRest'
<1>1. /\ pc' = [pc EXCEPT ![w] = "drain"]
      /\ op' = [op EXCEPT ![w] = <<<<w, iter[w]>>, NoTask>>]
      /\ UNCHANGED <<tasks, result>>
  BY DEF WriterDelete, TM!Delete, TM!Lock
<1>2. QED
  BY <1>1 DEF WriterDelete, DemoInv, DemoRest, TypeOK, TM!TypeOK, TM!Procs,
              EntryOwned, WriterPhase, MainPhase, Stages, Keys

LEMMA ReaderLoopStep ==
  ASSUME DemoInv, NEW r \in DemoReaders, ReaderLoop(r)
  PROVE  DemoRest'
<1>1. CASE stopped
  <2>1. /\ stage' = [stage EXCEPT ![r] = "returned"]
        /\ UNCHANGED <<tasks, pc, op, result, iter, stopped>>
    BY <1>1 DEF ReaderLoop, tmVars
  <2>2. QED
    BY <2>1 DEF DemoInv, DemoRest, TypeOK, TM!TypeOK, TM!Procs,
                EntryOwned, WriterPhase, MainPhase, Stages, Keys
<1>2. CASE ~stopped
  <2>1. /\ pc' = [pc EXCEPT ![r] = "rlock"]
        /\ UNCHANGED <<tasks, op, result, stage, iter, stopped>>
    BY <1>2 DEF ReaderLoop, TM!Count
  <2>2. QED
    BY <2>1 DEF DemoInv, DemoRest, TypeOK, TM!TypeOK, TM!Procs,
                EntryOwned, WriterPhase, MainPhase, Stages, Keys
<1>3. QED
  BY <1>1, <1>2

LEMMA MainStep ==
  ASSUME DemoInv, Close \/ WaitGroupWait \/ MainCount \/ MainExit
  PROVE  DemoRest'
<1>1. CASE Close
  <2>1. /\ stage' = [stage EXCEPT ![Main] = "wait"]
        /\ stopped' = TRUE
        /\ UNCHANGED <<tasks, pc, op, result, iter>>
    BY <1>1 DEF Close, tmVars
  <2>2. QED
    BY <1>1, <2>1 DEF Close, DemoInv, DemoRest, TypeOK, EntryOwned,
                      WriterPhase, MainPhase, Stages
<1>2. CASE WaitGroupWait
  <2>1. /\ stage' = [stage EXCEPT ![Main] = "count"]
        /\ UNCHANGED <<tasks, pc, op, result, iter, stopped>>
    BY <1>2 DEF WaitGroupWait, tmVars
  <2>2. QED
    BY <1>2, <2>1 DEF WaitGroupWait, DemoInv, DemoRest, TypeOK, EntryOwned,
                      WriterPhase, MainPhase, Stages
<1>3. CASE MainCount
  <2>1. /\ stage' = [stage EXCEPT ![Main] = "counting"]
        /\ pc' = [pc EXCEPT ![Main] = "rlock"]
        /\ UNCHANGED <<tasks, op, result, iter, stopped>>
    BY <1>3 DEF MainCount, TM!Count
  <2>2. QED
    BY <1>3, <2>1 DEF MainCount, DemoInv, DemoRest, TypeOK, TM!TypeOK,
                      TM!Procs, EntryOwned, WriterPhase, MainPhase, Stages
<1>4. CASE MainExit
  <2>1. /\ stage' = [stage EXCEPT ![Main] = "exited"]
        /\ UNCHANGED <<tasks, pc, op, result, iter, stopped>>
    BY <1>4 DEF MainExit, tmVars
  <2>2. QED
    BY <1>4, <2>1 DEF MainExit, DemoInv, DemoRest, TypeOK, TM!TypeOK,
                      TM!Procs, EntryOwned, WriterPhase, MainPhase, Stages
<1>5. QED
  BY <1>1, <1>2, <1>3, <1>4

LEMMA AcquireStep ==
  ASSUME DemoInv, NEW w \in Writers, TM!Acquire(w), UNCHANGED demoVars
  PROVE  DemoRest'
<1>1. /\ pc' = [pc EXCEPT ![w] = "write"]
      /\ UNCHANGED <<tasks, op, result, stage, iter, stopped>>
  BY DEF TM!Acquire, demoVars
<1>2. pc[w] = "drain" /\ w # Main
  BY DEF TM!Acquire
<1>3. \A g \in Writers \cup DemoReaders \cup {Main} :
        pc'[g] = "idle" <=> pc[g] = "idle"
  BY <1>1, <1>2 DEF DemoInv, TypeOK, TM!TypeOK, TM!Procs
<1>4. EntryOwned'
  BY <1>1, <1>3 DEF DemoInv, EntryOwned, Keys
<1>5. WriterPhase'
  BY <1>1, <1>3 DEF DemoInv, WriterPhase
<1>6. MainPhase'
  BY <1>1, <1>2 DEF MainPhase, DemoInv, TypeOK, TM!TypeOK, TM!Procs
<1>7. QED
  BY <1>1, <1>4, <1>5, <1>6 DEF DemoInv, DemoRest, TypeOK

(* The write of Unlock puts the writer's own entry, and a value only while *)
(* the writer is between Upsert and Delete.                                *)
LEMMA UnlockStep ==
  ASSUME DemoInv, NEW w \in Writers, TM!Unlock(w), UNCHANGED demoVars
  PROVE  DemoRest'
<1>1. /\ pc[w] = "write"
      /\ tasks' = [tasks EXCEPT ![op[w][1]] = op[w][2]]
      /\ pc' = [pc EXCEPT ![w] = "idle"]
      /\ UNCHANGED <<op, result, stage, iter, stopped>>
  BY DEF TM!Unlock, TM!Applied, demoVars
<1>2. /\ op[w][1] \in Keys
      /\ op[w][1][1] = w
      /\ op[w][2] # NoTask <=> stage[w] = "delete"
  BY <1>1 DEF DemoInv, TypeOK, TM!TypeOK, TM!Procs, WriterPhase
<1>3. EntryOwned'
  <2> SUFFICES ASSUME NEW k \in Keys, tasks'[k] # NoTask
               PROVE  /\ op[k[1]][1] = k
                      /\ stage[k[1]] = "delete" \/ pc'[k[1]] # "idle"
    BY <1>1 DEF EntryOwned
  <2>1. CASE k = op[w][1]
    BY <1>1, <1>2, <2>1 DEF DemoInv, TypeOK, TM!TypeOK
  <2>2. CASE k # op[w][1]
    <3>1. tasks[k] # NoTask
      BY <1>1, <2>2 DEF DemoInv, TypeOK, TM!TypeOK
    <3>2. op[k[1]][1] = k /\ (stage[k[1]] = "delete" \/ pc[k[1]] # "idle")
      BY <3>1 DEF DemoInv, EntryOwned
    <3>3. k[1] # w
      BY <2>2, <3>2
    <3>4. QED
      BY <1>1, <3>2, <3>3 DEF DemoInv, TypeOK, TM!TypeOK, TM!Procs, Keys
  <2>3. QED
    BY <2>1, <2>2
<1>4. QED
  BY <1>1, <1>3 DEF DemoInv, DemoRest, TypeOK, TM!TypeOK, TM!Procs,
                    WriterPhase, MainPhase, Stages

(* main reads len(t.m) only after every writer returned: it reads 0.       *)
LEMMA ReadLenStep ==
  ASSUME DemoInv, NEW r \in DemoReaders \cup {Main}, TM!ReadLen(r),
         UNCHANGED demoVars
  PROVE  DemoRest'
<1>1. /\ pc[r] = "rlock"
      /\ pc' = [pc EXCEPT ![r] = "read"]
      /\ UNCHANGED <<tasks, op, stage, iter, stopped>>
  BY DEF TM!ReadLen, demoVars
<1>2. PICK n \in {TM!Size(tasks)}
               \cup {TM!Size(TM!Applied(w)) : w \in writing} :
             result' = [result EXCEPT ![r] = n]
  BY DEF TM!ReadLen
<1>3. r = Main => n = 0
  <2> SUFFICES ASSUME r = Main PROVE n = 0
    OBVIOUS
  <2>1. \A w \in Writers : stage[w] = "returned"
    BY <1>1 DEF DemoInv, MainPhase
  <2>2. /\ \A k \in Keys : tasks[k] = NoTask
        /\ writing = {}
    BY <2>1, AllReturnedEmpty
  <2>3. n = TM!Size(tasks)
    BY <1>2, <2>2
  <2>4. QED
    BY <2>2, <2>3, EmptySize
<1>4. \A g \in Writers \cup DemoReaders \cup {Main} :
        pc'[g] = "idle" <=> pc[g] = "idle"
  BY <1>1 DEF DemoInv, TypeOK, TM!TypeOK, TM!Procs
<1>5. EntryOwned'
  BY <1>1, <1>4 DEF DemoInv, EntryOwned, Keys
<1>6. WriterPhase'
  BY <1>1, <1>4 DEF DemoInv, WriterPhase
<1>7. MainPhase'
  BY <1>1, <1>2, <1>3 DEF MainPhase, DemoInv, TypeOK, TM!TypeOK, TM!Procs
<1>8. QED
  BY <1>1, <1>5, <1>6, <1>7 DEF DemoInv, DemoRest, TypeOK

LEMMA RUnlockStep ==
  ASSUME DemoInv, NEW r \in DemoReaders \cup {Main}, TM!RUnlock(r),
         UNCHANGED demoVars
  PROVE  DemoRest'
<1>1. /\ pc[r] = "read"
      /\ pc' = [pc EXCEPT ![r] = "idle"]
      /\ UNCHANGED <<tasks, op, result, stage, iter, stopped>>
  BY DEF TM!RUnlock, demoVars
<1>2. \A w \in Writers : pc'[w] = pc[w]
  BY <1>1 DEF DemoInv, TypeOK, TM!TypeOK, TM!Procs
<1>3. EntryOwned'
  BY <1>1, <1>2 DEF DemoInv, EntryOwned, Keys
<1>4. WriterPhase'
  BY <1>1, <1>2 DEF DemoInv, WriterPhase
<1>5. MainPhase'
  BY <1>1 DEF MainPhase, DemoInv, TypeOK, TM!TypeOK, TM!Procs
<1>6. QED
  BY <1>1, <1>3, <1>4, <1>5 DEF DemoInv, DemoRest, TypeOK

-----------------------------------------------------------------------------
(* DemoInv is inductive. *)
LEMMA DemoStep == DemoInv /\ [Next]_vars => DemoInv'
<1> SUFFICES ASSUME DemoInv, [Next]_vars PROVE DemoInv'
  OBVIOUS
<1>1. TM!TypeOK' /\ TM!LockInv'
  BY MapInvStep
<1>2. DemoRest'
  <2>1. CASE \E w \in Writers : WriterUpsert(w) \/ WriterDelete(w)
    BY <2>1, WriterUpsertStep, WriterDeleteStep
  <2>2. CASE \E r \in DemoReaders : ReaderLoop(r)
    BY <2>2, ReaderLoopStep
  <2>3. CASE Close \/ WaitGroupWait \/ MainCount \/ MainExit
    BY <2>3, MainStep
  <2>4. CASE MapStep
    BY <2>4, AcquireStep, UnlockStep, ReadLenStep, RUnlockStep DEF MapStep
  <2>5. CASE UNCHANGED vars
    BY <2>5 DEF vars, tmVars, demoVars, DemoInv, DemoRest, TypeOK,
                EntryOwned, WriterPhase, MainPhase
  <2>6. QED
    BY <2>1, <2>2, <2>3, <2>4, <2>5 DEF Next
<1>3. QED
  BY <1>1, <1>2 DEF DemoInv, DemoRest, TypeOK

(* The strengthened invariant of the driver holds in every reachable       *)
(* state, for both versions of Count: an entry of t.m is the key of its    *)
(* writer's last call, made between its Upsert and its Delete, and main    *)
(* counts only after every goroutine has returned.                         *)
THEOREM DemoInvHolds == Spec => []DemoInv
BY DemoInit, DemoStep, PTL DEF Spec

(* The "Final count" main prints after wg.Wait() is 0, and t.m is empty    *)
(* then, for any number of writers, readers and iterations, with or        *)
(* without the read lock in Count.                                         *)
THEOREM FinalCountIsZero == Spec => []FinalCountZero
<1>1. DemoInv => FinalCountZero
  <2> SUFFICES ASSUME DemoInv, stage[Main] = "exited"
               PROVE  result[Main] = 0 /\ TM!Size(tasks) = 0
    BY DEF FinalCountZero
  <2>1. pc[Main] = "idle" /\ \A w \in Writers : stage[w] = "returned"
    BY DEF DemoInv, MainPhase
  <2>2. result[Main] = 0
    BY <2>1 DEF DemoInv, MainPhase
  <2>3. TM!Size(tasks) = 0
    BY <2>1, AllReturnedEmpty, EmptySize
  <2>4. QED
    BY <2>2, <2>3
<1>2. QED
  BY <1>1, DemoInvHolds, PTL

(* testFixedVersion: with the read lock in Count, the map panic_demo's     *)
(* goroutines share implements the atomic map of TaskMapAtomic: every      *)
(* Upsert and Delete takes effect at once and every Count, main's final    *)
(* one included, returns the number of entries at one instant.  Each step  *)
(* of the driver is a TaskMap step (MapStepOfInstance), and under the      *)
(* TaskMap's invariant, which DemoInv contains, each TaskMap step is an    *)
(* atomic step or a stutter (AtomicStep of TaskMap_proofs).                *)
THEOREM FixedDemoAtomic == CountLocked => (Spec => TM!AtomicSpec)
<1> SUFFICES ASSUME CountLocked PROVE Spec => TM!AtomicSpec
  OBVIOUS
<1>1. Init => TM!Atomic!Init
  BY DEF Init, TM!Init, TM!Atomic!Init
<1>2. ASSUME DemoInv, [Next]_vars
      PROVE  [TM!Atomic!Next]_<<tasks, result>>
  <2>1. [TMP!Next]_TMP!vars
    BY <1>2, MapStepOfInstance
  <2>2. TMP!IInv
    BY <1>2, MapInvOfInstance DEF TMP!IInv
  <2>3. [TMP!Atomic!Next]_<<tasks, result>>
    BY <2>1, <2>2, TMAssumptions, TMP!AtomicStep
  <2>4. QED
    BY <2>3 DEF TMP!Atomic!Next, TM!Atomic!Next, TMP!Atomic!Put,
                TM!Atomic!Put, TMP!Atomic!Count, TM!Atomic!Count,
                TMP!Atomic!Entry, TM!Atomic!Entry, TMP!Atomic!Cardinality,
                TM!Atomic!Cardinality
<1>3. QED
  BY <1>1, <1>2, DemoInvHolds, PTL
  DEF Spec, TM!AtomicSpec, TM!Atomic!Spec
====
