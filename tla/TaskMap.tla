------------------------------ MODULE TaskMap ------------------------------
(***************************************************************************)
(* The TaskMap of pkg/common/cns-lib/volume: a Go map from a task          *)
(* reference to its TaskDetails, guarded by a sync.RWMutex, as written in  *)
(* race_demo.go (src/unnamed/part_000: TaskMapBuggy, TaskMapFixed) and     *)
(* src/panic_demo.go.  Upsert and Delete take the write lock; Count takes  *)
(* the read lock in TaskMapFixed and no lock at all in TaskMapBuggy        *)
(* (CountLocked = FALSE).                                                  *)
(*                                                                         *)
(* The RWMutex is modelled with the semantics of Go's sync.RWMutex: a      *)
(* writer first takes the writer mutex and announces itself (from then on  *)
(* new readers block), then waits for the readers already inside to       *)
(* leave; Unlock lets the readers that blocked meanwhile in before the     *)
(* next writer.  An access to the map spans two steps so that overlapping  *)
(* accesses, i.e. data races, are states (writing, reading).  A racy read  *)
(* of len(t.m) returns the size before or after the write in progress.     *)
(***************************************************************************)
EXTENDS Naturals, FiniteSets

CONSTANTS
  Writers,      \* goroutines calling Upsert and Delete
  Readers,      \* goroutines calling Count
  Refs,         \* task references (types.ManagedObjectReference)
  Details,      \* task details (TaskDetails.MarkedForRemoval)
  NoTask,       \* the absence of an entry in t.m
  None,         \* no goroutine
  CountLocked   \* TRUE: Count takes t.mu.RLock (TaskMapFixed)

ASSUME Assumptions ==
  /\ Writers \cap Readers = {}
  /\ None \notin Writers
  /\ NoTask \notin Details
  /\ Refs # {} /\ IsFiniteSet(Refs)
  /\ CountLocked \in BOOLEAN

VARIABLES
  tasks,    \* t.m
  wOwner,   \* writer holding the RWMutex's writer mutex, or None
  wHeld,    \* the owner has waited out the readers and holds the lock
  rActive,  \* readers holding the read lock
  rBlocked, \* readers blocked in RLock behind an announced writer
  pc,       \* control point of every goroutine
  op,       \* op[w]: the entry <<ref, value>> writer w is writing
  writing,  \* goroutines inside a write of t.m
  reading,  \* goroutines inside a read of t.m
  result    \* result[r]: what the last Count of reader r returned

vars == <<tasks, wOwner, wHeld, rActive, rBlocked, pc, op, writing,
          reading, result>>

Procs == Writers \cup Readers
Entry == Details \cup {NoTask}

(* len(m) of a map m. *)
Size(m) == Cardinality({k \in Refs : m[k] # NoTask})

(* t.m once the write of writer w is applied. *)
Applied(w) == [tasks EXCEPT ![op[w][1]] = op[w][2]]

TypeOK ==
  /\ tasks \in [Refs -> Entry]
  /\ wOwner \in Writers \cup {None}
  /\ wHeld \in BOOLEAN
  /\ rActive \subseteq Readers
  /\ rBlocked \subseteq Readers
  /\ pc \in [Procs -> {"idle", "drain", "write", "rlock", "read"}]
  /\ \A w \in Writers : pc[w] \in {"idle", "drain", "write"}
  /\ \A r \in Readers : pc[r] \in {"idle", "rlock", "read"}
  /\ op \in [Writers -> Refs \X Entry]
  /\ writing \subseteq Writers
  /\ reading \subseteq Readers
  /\ result \in [Readers -> 0 .. Cardinality(Refs)]

Init ==
  /\ tasks = [k \in Refs |-> NoTask]
  /\ wOwner = None
  /\ wHeld = FALSE
  /\ rActive = {}
  /\ rBlocked = {}
  /\ pc = [p \in Procs |-> "idle"]
  /\ op = [w \in Writers |-> <<CHOOSE k \in Refs : TRUE, NoTask>>]
  /\ writing = {}
  /\ reading = {}
  /\ result = [r \in Readers |-> 0]

-----------------------------------------------------------------------------
(* Plausible bugs of the code below, each the body of one definition with  *)
(* one change; the runs show that a property catches each.                 *)

(* Unlock that forgets the readers blocked in RLock. *)
UnlockNoWake(w) ==
  /\ pc[w] = "write"
  /\ tasks' = Applied(w)
  /\ writing' = writing \ {w}
  /\ wOwner' = None
  /\ wHeld' = FALSE
  /\ pc' = [pc EXCEPT ![w] = "idle"]
  /\ UNCHANGED <<op, reading, result, rActive, rBlocked>>

(* A reader-preferring RLock: new readers only wait for a writer that      *)
(* already holds the lock, not for one that has announced itself.          *)
CountReaderPreferring(r) ==
  /\ pc[r] = "idle"
  /\ pc' = [pc EXCEPT ![r] = "rlock"]
  /\ IF CountLocked /\ ~wHeld
       THEN /\ rActive' = rActive \cup {r}
            /\ UNCHANGED rBlocked
       ELSE IF CountLocked
       THEN /\ rBlocked' = rBlocked \cup {r}
            /\ UNCHANGED rActive
       ELSE UNCHANGED <<rActive, rBlocked>>
  /\ UNCHANGED <<tasks, wOwner, wHeld, op, writing, reading, result>>

(* Lock that returns without waiting for the readers inside to leave. *)
AcquireNoDrain(w) ==
  /\ pc[w] = "drain"
  /\ wHeld' = TRUE
  /\ writing' = writing \cup {w}
  /\ pc' = [pc EXCEPT ![w] = "write"]
  /\ UNCHANGED <<tasks, wOwner, rActive, rBlocked, op, reading, result>>

(* len(t.m) read without waiting for RLock to return. *)
ReadLenNoWait(r) ==
  /\ pc[r] = "rlock"
  /\ reading' = reading \cup {r}
  /\ \E n \in {Size(tasks)} \cup {Size(Applied(w)) : w \in writing} :
       result' = [result EXCEPT ![r] = n]
  /\ pc' = [pc EXCEPT ![r] = "read"]
  /\ UNCHANGED <<tasks, wOwner, wHeld, rActive, rBlocked, op, writing>>

-----------------------------------------------------------------------------
(* Writers.  Upsert(ref, details) and Delete(ref) both call t.mu.Lock():   *)
(* the call takes the writer mutex (blocking while another writer owns it) *)
(* and announces the writer.                                               *)

Lock(w, ref, val) ==
  /\ pc[w] = "idle"
  /\ wOwner = None
  /\ wOwner' = w
  /\ op' = [op EXCEPT ![w] = <<ref, val>>]
  /\ pc' = [pc EXCEPT ![w] = "drain"]
  /\ UNCHANGED <<tasks, wHeld, rActive, rBlocked, writing, reading, result>>

Upsert(w, ref, d) == Lock(w, ref, d)

Delete(w, ref) == Lock(w, ref, NoTask)

(* Lock returns once the readers inside at the announcement have left;     *)
(* the writer then starts writing t.m.                                     *)
Acquire(w) ==
  /\ pc[w] = "drain"
  /\ rActive = {}
  /\ wHeld' = TRUE
  /\ writing' = writing \cup {w}
  /\ pc' = [pc EXCEPT ![w] = "write"]
  /\ UNCHANGED <<tasks, wOwner, rActive, rBlocked, op, reading, result>>

(* The write t.m[ref] = value (or delete) completes and the deferred       *)
(* t.mu.Unlock() runs: readers blocked in RLock are let in.                *)
Unlock(w) ==
  /\ pc[w] = "write"
  /\ tasks' = Applied(w)
  /\ writing' = writing \ {w}
  /\ wOwner' = None
  /\ wHeld' = FALSE
  /\ rActive' = rActive \cup rBlocked
  /\ rBlocked' = {}
  /\ pc' = [pc EXCEPT ![w] = "idle"]
  /\ UNCHANGED <<op, reading, result>>

-----------------------------------------------------------------------------
(* Readers.  Count() of TaskMapFixed calls t.mu.RLock(), which blocks      *)
(* while a writer is announced; Count() of TaskMapBuggy takes no lock.     *)

Count(r) ==
  /\ pc[r] = "idle"
  /\ pc' = [pc EXCEPT ![r] = "rlock"]
  /\ IF CountLocked /\ wOwner = None
       THEN /\ rActive' = rActive \cup {r}
            /\ UNCHANGED rBlocked
       ELSE IF CountLocked
       THEN /\ rBlocked' = rBlocked \cup {r}
            /\ UNCHANGED rActive
       ELSE UNCHANGED <<rActive, rBlocked>>
  /\ UNCHANGED <<tasks, wOwner, wHeld, op, writing, reading, result>>

(* len(t.m) is read.  A read that overlaps a write observes the size       *)
(* before or after it.                                                     *)
ReadLen(r) ==
  /\ pc[r] = "rlock"
  /\ CountLocked => r \in rActive
  /\ reading' = reading \cup {r}
  /\ \E n \in {Size(tasks)} \cup {Size(Applied(w)) : w \in writing} :
       result' = [result EXCEPT ![r] = n]
  /\ pc' = [pc EXCEPT ![r] = "read"]
  /\ UNCHANGED <<tasks, wOwner, wHeld, rActive, rBlocked, op, writing>>

(* The read ends and the deferred t.mu.RUnlock() runs.                     *)
RUnlock(r) ==
  /\ pc[r] = "read"
  /\ reading' = reading \ {r}
  /\ rActive' = rActive \ {r}
  /\ pc' = [pc EXCEPT ![r] = "idle"]
  /\ UNCHANGED <<tasks, wOwner, wHeld, rBlocked, op, writing, result>>

-----------------------------------------------------------------------------
Next ==
  \/ \E w \in Writers, k \in Refs, d \in Details : Upsert(w, k, d)
  \/ \E w \in Writers, k \in Refs : Delete(w, k)
  \/ \E w \in Writers : Acquire(w) \/ Unlock(w)
  \/ \E r \in Readers : Count(r) \/ ReadLen(r) \/ RUnlock(r)

(* A goroutine inside a call keeps running; whether it calls again is up   *)
(* to the caller, so the calls themselves are not fair.                    *)
Fairness ==
  /\ \A w \in Writers : WF_vars(Acquire(w)) /\ WF_vars(Unlock(w))
  /\ \A r \in Readers : WF_vars(ReadLen(r)) /\ WF_vars(RUnlock(r))

Spec == Init /\ [][Next]_vars /\ Fairness

-----------------------------------------------------------------------------
(* PROPERTIES                                                              *)

(* No data race on t.m (the point of the RWMutex, and of the bug report    *)
(* on TaskMap.Count): no goroutine reads the map while another writes it,  *)
(* and at most one writes it at a time.                                    *)
NoDataRace ==
  /\ writing = {} \/ reading = {}
  /\ \A w1, w2 \in writing : w1 = w2

(* Every call of Count returns: readers blocked behind a writer are let in *)
(* by its Unlock, and an announced writer is not overtaken by new readers, *)
(* so neither side starves the other.                                      *)
CountReturns == \A r \in Readers : pc[r] = "rlock" ~> pc[r] = "idle"

(* Every Upsert or Delete that announced itself completes.                 *)
WriteCompletes == \A w \in Writers : pc[w] = "drain" ~> pc[w] = "idle"

(* The TaskMap implements the atomic map of TaskMapAtomic: every write of  *)
(* t.m takes effect at its Unlock, every Count returns the number of       *)
(* entries at the instant it reads len(t.m), and no other step changes     *)
(* either (linearizability of Upsert, Delete and Count).                   *)
Atomic == INSTANCE TaskMapAtomic
AtomicSpec == Atomic!Spec

-----------------------------------------------------------------------------
(* The inductive strengthening of NoDataRace under CountLocked, proved in  *)
(* TaskMap_proofs: the lock state agrees with the control points.          *)
LockInv ==
  /\ \A w \in Writers : pc[w] \in {"drain", "write"} => wOwner = w
  /\ \A w \in Writers : w \in writing <=> pc[w] = "write"
  /\ \A w \in writing : wOwner = w /\ wHeld
  /\ wHeld => wOwner \in Writers
  /\ reading = {r \in Readers : pc[r] = "read"}
  /\ CountLocked => /\ reading \subseteq rActive
                    /\ wHeld => rActive = {}

IInv == TypeOK /\ LockInv
=============================================================================
