--------------------------- MODULE TaskMapAtomic ---------------------------
(***************************************************************************)
(* What the TaskMap promises its callers (spec section 4.2): a map from    *)
(* task reference to details on which every operation is atomic.  Upsert  *)
(* and Delete replace one entry; Count returns the number of entries at    *)
(* the instant it runs.                                                    *)
(***************************************************************************)
EXTENDS Naturals, FiniteSets

CONSTANTS Readers, Refs, Details, NoTask

VARIABLES tasks, result

Entry == Details \cup {NoTask}

Init ==
  /\ tasks = [k \in Refs |-> NoTask]
  /\ result = [r \in Readers |-> 0]

(* Upsert(ref, details), or Delete(ref) when val = NoTask. *)
Put(ref, val) ==
  /\ tasks' = [tasks EXCEPT ![ref] = val]
  /\ UNCHANGED result

Count(r) ==
  /\ result' = [result EXCEPT ![r] = Cardinality({k \in Refs : tasks[k] # NoTask})]
  /\ UNCHANGED tasks

Next ==
  \/ \E k \in Refs, v \in Entry : Put(k, v)
  \/ \E r \in Readers : Count(r)

Spec == Init /\ [][Next]_<<tasks, result>>
=============================================================================
