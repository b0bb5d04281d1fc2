----------------------------- MODULE PanicDemo -----------------------------
(***************************************************************************)
(* The driver of src/panic_demo.go: main starts writer goroutines that     *)
(* loop Upsert(key, i); Delete(key); i++ on a fresh key each iteration,    *)
(* and reader goroutines that loop on CountBuggy() (len(t.m) without the   *)
(* lock).  Every loop polls stopCh in a select with a default case, so the *)
(* goroutine returns at the first iteration after main closes stopCh.      *)
(* main sleeps, closes stopCh, waits on the WaitGroup and prints a last    *)
(* CountBuggy().                                                           *)
(*                                                                         *)
(* testBuggyVersion and testFixedVersion of race_demo.go                   *)
(* (src/unnamed/part_000) are the same driver over TaskMapBuggy and        *)
(* TaskMapFixed.  The map and its RWMutex are the TaskMap module, whose    *)
(* Count takes the read lock when CountLocked; main's final count is a     *)
(* read of that map by one more reader.                                    *)
(***************************************************************************)
EXTENDS Naturals, FiniteSets

CONSTANTS
  Writers,      \* the numWriters writer goroutines
  DemoReaders,  \* the numReaders reader goroutines
  Main,         \* the main goroutine
  MaxIter,      \* bound: iterations of each writer loop (i < MaxIter)
  NoTask,       \* the absence of an entry in t.m
  None,         \* no goroutine
  CountLocked   \* TRUE: testFixedVersion's Count; FALSE: CountBuggy

ASSUME DemoAssumptions ==
  /\ MaxIter \in Nat \ {0}
  /\ Writers # {} /\ IsFiniteSet(Writers)   \* numWriters = NumCPU() * 4
  /\ Main \notin DemoReaders \cup Writers
  /\ DemoReaders \cap Writers = {}
  /\ None \notin Writers
  /\ NoTask \notin Nat
  /\ CountLocked \in BOOLEAN

VARIABLES
  tasks, wOwner, wHeld, rActive, rBlocked, pc, op, writing, reading, result,
  stage,    \* stage[g]: where goroutine g is in its loop (main: in main())
  iter,     \* iter[w]: the loop counter i of writer w
  stopped   \* stopCh has been closed

tmVars == <<tasks, wOwner, wHeld, rActive, rBlocked, pc, op, writing,
            reading, result>>
demoVars == <<stage, iter, stopped>>
vars == <<tmVars, demoVars>>

(* key := fmt.Sprintf("task-w%d-%d", workerID, i): one key per writer and  *)
(* iteration.                                                              *)
Keys == Writers \X (0 .. MaxIter - 1)

TM == INSTANCE TaskMap
        WITH Readers <- DemoReaders \cup {Main},
             Refs <- Keys,
             Details <- 0 .. MaxIter - 1

Stages == {"upsert", "delete", "loop", "returned",
           "sleep", "wait", "count", "counting", "exited"}

TypeOK ==
  /\ TM!TypeOK
  /\ stage \in [Writers \cup DemoReaders \cup {Main} -> Stages]
  /\ iter \in [Writers -> 0 .. MaxIter]
  /\ stopped \in BOOLEAN

(* taskMap := NewTaskMap(); stopCh := make(chan struct{}) *)
Init ==
  /\ TM!Init
  /\ stage = [g \in Writers \cup DemoReaders \cup {Main} |->
                IF g \in Writers THEN "upsert"
                ELSE IF g \in DemoReaders THEN "loop" ELSE "sleep"]
  /\ iter = [w \in Writers |-> 0]
  /\ stopped = FALSE

-----------------------------------------------------------------------------
(* Plausible bugs of the code below, each the body of one definition with  *)
(* one change; the runs show that a property catches each.                 *)

(* A writer loop that polls stopCh between Upsert and Delete, so that it   *)
(* returns with its last key still in the map.                             *)
WriterDeleteNoStopCheck(w) ==
  /\ stage[w] = "delete"
  /\ pc[w] = "idle"
  /\ \/ /\ ~stopped
        /\ TM!Delete(w, <<w, iter[w]>>)
        /\ stage' = [stage EXCEPT ![w] = "upsert"]
        /\ iter' = [iter EXCEPT ![w] = @ + 1]
     \/ /\ stopped
        /\ stage' = [stage EXCEPT ![w] = "returned"]
        /\ UNCHANGED <<tmVars, iter>>
  /\ UNCHANGED stopped

(* A reader loop without the case <-stopCh: it never returns. *)
ReaderLoopNoStop(r) ==
  /\ stage[r] = "loop"
  /\ pc[r] = "idle"
  /\ TM!Count(r)
  /\ UNCHANGED demoVars

-----------------------------------------------------------------------------
(* Writer goroutine: select { case <-stopCh: return; default: ... }, then  *)
(* taskMap.Upsert(key, i).  Once stopCh is closed the select always takes  *)
(* the return case.  The writer blocks at the bound MaxIter until stop.    *)
WriterUpsert(w) ==
  /\ stage[w] = "upsert"
  /\ pc[w] = "idle"
  /\ \/ /\ stopped
        /\ stage' = [stage EXCEPT ![w] = "returned"]
        /\ UNCHANGED tmVars
     \/ /\ ~stopped
        /\ iter[w] < MaxIter
        /\ TM!Upsert(w, <<w, iter[w]>>, iter[w])
        /\ stage' = [stage EXCEPT ![w] = "delete"]
  /\ UNCHANGED <<iter, stopped>>

(* taskMap.Delete(key) once Upsert has returned, then i++. *)
WriterDelete(w) ==
  /\ stage[w] = "delete"
  /\ pc[w] = "idle"
  /\ TM!Delete(w, <<w, iter[w]>>)
  /\ stage' = [stage EXCEPT ![w] = "upsert"]
  /\ iter' = [iter EXCEPT ![w] = @ + 1]
  /\ UNCHANGED stopped

(* Reader goroutine: return once stopCh is closed, else CountBuggy(). *)
ReaderLoop(r) ==
  /\ stage[r] = "loop"
  /\ pc[r] = "idle"
  /\ \/ /\ stopped
        /\ stage' = [stage EXCEPT ![r] = "returned"]
        /\ UNCHANGED tmVars
     \/ /\ ~stopped
        /\ TM!Count(r)
        /\ UNCHANGED stage
  /\ UNCHANGED <<iter, stopped>>

(* time.Sleep(duration); close(stopCh) *)
Close ==
  /\ stage[Main] = "sleep"
  /\ stopped' = TRUE
  /\ stage' = [stage EXCEPT ![Main] = "wait"]
  /\ UNCHANGED <<tmVars, iter>>

(* wg.Wait(): every writer and reader goroutine has run wg.Done(). *)
WaitGroupWait ==
  /\ stage[Main] = "wait"
  /\ \A g \in Writers \cup DemoReaders : stage[g] = "returned"
  /\ stage' = [stage EXCEPT ![Main] = "count"]
  /\ UNCHANGED <<tmVars, iter, stopped>>

(* fmt.Printf("\nFinal count: %d\n", taskMap.CountBuggy()): the call, *)
(* then the read of len(t.m), then the return of main.                 *)
MainCount ==
  /\ stage[Main] = "count"
  /\ TM!Count(Main)
  /\ stage' = [stage EXCEPT ![Main] = "counting"]
  /\ UNCHANGED <<iter, stopped>>

MainExit ==
  /\ stage[Main] = "counting"
  /\ pc[Main] = "idle"
  /\ stage' = [stage EXCEPT ![Main] = "exited"]
  /\ UNCHANGED <<tmVars, iter, stopped>>

(* The steps inside a call of the map: Lock returns, the write and Unlock, *)
(* the read of len(t.m) and its return.                                    *)
MapStep ==
  /\ \/ \E w \in Writers : TM!Acquire(w) \/ TM!Unlock(w)
     \/ \E r \in DemoReaders \cup {Main} : TM!ReadLen(r) \/ TM!RUnlock(r)
  /\ UNCHANGED demoVars

Next ==
  \/ \E w \in Writers : WriterUpsert(w) \/ WriterDelete(w)
  \/ \E r \in DemoReaders : ReaderLoop(r)
  \/ Close \/ WaitGroupWait \/ MainCount \/ MainExit
  \/ MapStep

(* Every goroutine that can run eventually runs (GOMAXPROCS = NumCPU and a *)
(* preemptive scheduler); main's time.Sleep ends.                          *)
Fairness ==
  /\ \A w \in Writers : WF_vars(WriterUpsert(w)) /\ WF_vars(WriterDelete(w))
                        /\ WF_vars(TM!Acquire(w) /\ UNCHANGED demoVars)
                        /\ WF_vars(TM!Unlock(w) /\ UNCHANGED demoVars)
  /\ \A r \in DemoReaders \cup {Main} :
       /\ WF_vars(TM!ReadLen(r) /\ UNCHANGED demoVars)
       /\ WF_vars(TM!RUnlock(r) /\ UNCHANGED demoVars)
  /\ \A r \in DemoReaders : WF_vars(ReaderLoop(r))
  /\ WF_vars(Close) /\ WF_vars(WaitGroupWait) /\ WF_vars(MainCount)
  /\ WF_vars(MainExit)

Spec == Init /\ [][Next]_vars /\ Fairness

-----------------------------------------------------------------------------
(* PROPERTIES                                                              *)

(* The "Final count" main prints is 0: every writer deletes the key it     *)
(* upserted before it polls stopCh again, and main reads len(t.m) only     *)
(* after wg.Wait(), when no writer is inside a write (spec section 8: the  *)
(* final Count() equals the number of un-deleted entries).                 *)
FinalCountZero ==
  stage[Main] = "exited" => result[Main] = 0 /\ TM!Size(tasks) = 0

(* The demo ends: after close(stopCh) every loop returns, so wg.Wait()     *)
(* returns and main prints the final count.                                *)
DemoTerminates == <>(stage[Main] = "exited")

-----------------------------------------------------------------------------
(* The inductive strengthening of FinalCountZero, proved in                *)
(* PanicDemo_proofs.                                                       *)

(* An entry of t.m belongs to the writer that named its key: it is the key *)
(* of that writer's last call, and the writer is between its Upsert and    *)
(* its Delete or still inside a call.                                      *)
EntryOwned ==
  \A k \in Keys : tasks[k] # NoTask =>
     /\ op[k[1]][1] = k
     /\ stage[k[1]] = "delete" \/ pc[k[1]] # "idle"

(* Where a writer is in its loop agrees with the call it made last: after  *)
(* Upsert it holds the key <<w, i>> with a value, after Delete none, and a *)
(* writer that returned is inside no call.                                 *)
WriterPhase ==
  \A w \in Writers :
     /\ stage[w] \in {"upsert", "delete", "returned"}
     /\ stage[w] = "delete" => op[w][1] = <<w, iter[w]>> /\ iter[w] < MaxIter
     /\ pc[w] # "idle" =>
           /\ stage[w] \in {"upsert", "delete"}
           /\ op[w][1][1] = w
           /\ op[w][2] # NoTask <=> stage[w] = "delete"

(* main calls Count only after wg.Wait(), and the count it has read is 0.  *)
MainPhase ==
  /\ stage[Main] \in {"sleep", "wait", "count", "counting", "exited"}
  /\ pc[Main] # "idle" => stage[Main] = "counting"
  /\ stage[Main] \in {"count", "counting", "exited"} =>
        \A g \in Writers \cup DemoReaders : stage[g] = "returned"
  /\ stage[Main] \in {"counting", "exited"} /\ pc[Main] # "rlock" =>
        result[Main] = 0

DemoInv == TypeOK /\ TM!LockInv /\ EntryOwned /\ WriterPhase /\ MainPhase
=============================================================================
