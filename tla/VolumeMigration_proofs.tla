------------------------ MODULE VolumeMigration_proofs ------------------------
(***************************************************************************)
(* Proofs about the volume migration service, for any number of request   *)
(* goroutines, paths and volume IDs: every CR and every VolumeID that      *)
(* registerVolume returns names the CNS volume of its path, whatever the   *)
(* interleaving of the calls, the failures and the restarts.               *)
(***************************************************************************)
EXTENDS VolumeMigration, TLAPS

USE MigrationAssumptions

(* A restart (a panic or a crash) keeps the strengthened invariant: it    *)
(* only empties the cache and returns every goroutine to idle.             *)
LEMMA RestartInv ==
  ASSUME IInv, Restart, panicked' \in BOOLEAN
  PROVE  IInv'
BY DEF Restart, IInv, TypeOK, MappingInv, CRsAgreeWithCNS,
       ReturnedIDMatchesPath, PC

(* The initial state: nothing registered, no CR, every goroutine idle. *)
LEMMA IInvInit == Init => IInv
<1> SUFFICES ASSUME Init PROVE IInv
  OBVIOUS
<1>1. (CHOOSE p \in Paths : TRUE) \in Paths
  BY MigrationAssumptions
<1>2. TypeOK
  <2>1. cns \in [Paths -> Vids \cup {NoVol}] /\ crs \subseteq CR
        /\ nextName \in 0 .. MaxCRs
    BY MigrationAssumptions DEF Init
  <2>2. cache \in [Paths -> CacheEntry \cup {Miss}]
    BY DEF Init
  <2>3. pc \in [Callers -> PC] /\ path \in [Callers -> Paths]
    BY <1>1 DEF Init, PC
  <2>4. vid \in [Callers -> Vids \cup {NoVol}]
        /\ snap \in [Callers -> SUBSET (Paths \X Vids)]
        /\ returned \subseteq Paths \X Vids /\ panicked \in BOOLEAN
    BY DEF Init
  <2>5. target \in [Callers -> 0 .. MaxCRs]
    BY MigrationAssumptions DEF Init
  <2>6. QED
    BY <2>1, <2>2, <2>3, <2>4, <2>5 DEF TypeOK
<1>3. MappingInv
  BY DEF Init, MappingInv, CRsAgreeWithCNS, ReturnedIDMatchesPath
<1>4. QED
  BY <1>2, <1>3 DEF IInv

LEMMA IInvStep == IInv /\ [Next]_vars => IInv'
<1> SUFFICES ASSUME IInv, [Next]_vars PROVE IInv'
  OBVIOUS
<1> USE DEF IInv, TypeOK, MappingInv, CRsAgreeWithCNS, ReturnedIDMatchesPath
<1>1. CASE Crash
  BY <1>1, RestartInv DEF Crash
<1>2. ASSUME NEW c \in Callers, NEW p \in Paths, RegisterCall(c, p)
      PROVE  IInv'
  <2>1. CASE Panic
    BY <2>1, RestartInv DEF Panic
  <2>2. CASE ~Panic
    BY <1>2, <2>2 DEF RegisterCall, Goto, PC
  <2>3. QED
    BY <2>1, <2>2
<1>3. ASSUME NEW c \in Callers, GetList(c) PROVE IInv'
  <2>1. CASE Panic
    BY <2>1, RestartInv DEF Panic
  <2>2. CASE CRsOf(path[c]) = {} /\ Goto(c, "register")
             /\ UNCHANGED <<cns, crs, nextName, cache, vid, snap, target,
                            returned, panicked>>
    BY <1>3, <2>2 DEF GetList, Goto, PC
  <2>3. ASSUME NEW r \in CRsOf(path[c]),
               vid' = [vid EXCEPT ![c] = r.vid],
               Goto(c, "get_store"),
               UNCHANGED <<cns, crs, nextName, cache, snap, target, returned,
                           panicked>>
        PROVE  IInv'
    <3>1. r \in crs /\ r.path = path[c]
      BY <2>3 DEF CRsOf
    <3>2. r.vid \in Vids /\ cns[path[c]] = r.vid
      BY <3>1 DEF CR
    <3>3. QED
      BY <1>3, <2>3, <3>2 DEF GetList, Goto, PC
  <2>4. QED
    BY <1>3, <2>1, <2>2, <2>3 DEF GetList
<1>4. ASSUME NEW c \in Callers, GetStore(c) PROVE IInv'
  BY <1>4 DEF GetStore, Goto, PC, CacheEntry
<1>5. ASSUME NEW c \in Callers, Register(c) PROVE IInv'
  <2>1. CASE Goto(c, "idle") /\ UNCHANGED <<cns, vid>>
    BY <1>5, <2>1 DEF Register, Goto, PC
  <2>2. ASSUME cns[path[c]] = NoVol,
               NEW v \in Vids \ {cns[q] : q \in Paths},
               cns' = [cns EXCEPT ![path[c]] = v],
               vid' = [vid EXCEPT ![c] = v],
               Goto(c, "save")
        PROVE  IInv'
    \* No CR, returned pair or other goroutine can name path[c] yet: each
    \* of those names a volume ID, not NoVol.
    <3>1. \A r \in crs : r.path # path[c]
      BY <2>2 DEF CR
    <3>2. \A e \in returned : e[1] # path[c]
      BY <2>2
    <3>3. \A d \in Callers : pc[d] \in {"get_store", "save", "save_store"}
                               => path[d] # path[c]
      BY <2>2
    <3>4. QED
      BY <1>5, <2>2, <3>1, <3>2, <3>3 DEF Register, Goto, PC
  <2>3. CASE /\ cns[path[c]] # NoVol
             /\ vid' = [vid EXCEPT ![c] = cns[path[c]]]
             /\ Goto(c, "save")
             /\ UNCHANGED cns
    BY <1>5, <2>3 DEF Register, Goto, PC
  <2>4. QED
    BY <1>5, <2>1, <2>2, <2>3 DEF Register
<1>6. ASSUME NEW c \in Callers, Save(c) PROVE IInv'
  <2>1. CASE /\ nextName < MaxCRs
             /\ nextName' = nextName + 1
             /\ crs' = crs \cup {[name |-> nextName + 1, path |-> path[c],
                                  vid |-> vid[c]]}
             /\ Goto(c, "save_store")
             /\ UNCHANGED returned
    BY <1>6, <2>1 DEF Save, Goto, PC, CR
  <2>2. CASE /\ returned' = returned \cup {<<path[c], vid[c]>>}
             /\ Goto(c, "idle")
             /\ UNCHANGED <<crs, nextName>>
    BY <1>6, <2>2 DEF Save, Goto, PC
  <2>3. QED
    BY <1>6, <2>1, <2>2 DEF Save
<1>14. ASSUME NEW c \in Callers, SaveStore(c) PROVE IInv'
  <2>1. cache' \in [Paths -> CacheEntry \cup {Miss}]
    BY <1>14 DEF SaveStore, CacheEntry
  <2>2. QED
    BY <1>14, <2>1 DEF SaveStore, Goto, PC
<1>7. ASSUME NEW c \in Callers, NEW p \in Paths, DeleteCall(c, p)
      PROVE  IInv'
  BY <1>7 DEF DeleteCall, Goto, PC
<1>8. ASSUME NEW c \in Callers, DeleteList(c) PROVE IInv'
  <2>1. target' \in [Callers -> 0 .. MaxCRs]
    BY <1>8 DEF DeleteList, CRsOf, CR
  <2>2. QED
    BY <1>8, <2>1 DEF DeleteList, Goto, PC
<1>9. ASSUME NEW c \in Callers, DeleteCR(c) PROVE IInv'
  BY <1>9 DEF DeleteCR, Goto, PC, CRsOf
<1>10. ASSUME NEW c \in Callers, LoadAllCall(c) PROVE IInv'
  <2>1. CASE Goto(c, "idle") /\ UNCHANGED snap
    BY <1>10, <2>1 DEF LoadAllCall, Goto, PC
  <2>2. CASE /\ snap' = [snap EXCEPT ![c] = {<<r.path, r.vid>> : r \in crs}]
             /\ Goto(c, "load_store")
    <3>1. {<<r.path, r.vid>> : r \in crs} \in SUBSET (Paths \X Vids)
      BY DEF CR
    <3>2. snap' \in [Callers -> SUBSET (Paths \X Vids)]
      BY <2>2, <3>1
    <3>3. QED
      BY <1>10, <2>2, <3>2 DEF LoadAllCall, Goto, PC
  <2>3. QED
    BY <1>10, <2>1, <2>2 DEF LoadAllCall
<1>11. ASSUME NEW c \in Callers, LoadAllStore(c) PROVE IInv'
  <2>1. PICK choice \in [{e[1] : e \in snap[c]} -> Vids] :
               /\ \A q \in DOMAIN choice : <<q, choice[q]>> \in snap[c]
               /\ cache' = [q \in Paths |->
                              IF q \in DOMAIN choice
                                THEN [type |-> SpecValue, vid |-> choice[q]]
                                ELSE cache[q]]
    BY <1>11 DEF LoadAllStore
  <2>2. cache' \in [Paths -> CacheEntry \cup {Miss}]
    BY <2>1 DEF CacheEntry
  <2>3. QED
    BY <1>11, <2>2 DEF LoadAllStore, Goto, PC
<1>12. CASE UNCHANGED vars
  BY <1>12 DEF vars
<1>13. QED
  BY <1>1, <1>2, <1>3, <1>4, <1>5, <1>6, <1>7, <1>8, <1>9, <1>10, <1>11,
     <1>12, <1>14 DEF Next

(* The strengthened invariant holds in every reachable state. *)
THEOREM Invariant == Spec => []IInv
BY IInvInit, IInvStep, PTL DEF Spec

(* Type correctness. *)
THEOREM TypeCorrect == Spec => []TypeOK
BY Invariant, PTL DEF IInv

(* Every VolumeID registerVolume has returned is the CNS volume of its    *)
(* path, for any number of goroutines, paths and volume IDs.               *)
THEOREM ReturnedIDsCorrect == Spec => []ReturnedIDMatchesPath
BY Invariant, PTL DEF IInv, MappingInv

(* Every CnsvSphereVolumeMigration CR maps its path to the CNS volume of  *)
(* that disk.                                                              *)
THEOREM CRsCorrect == Spec => []CRsAgreeWithCNS
BY Invariant, PTL DEF IInv, MappingInv
=============================================================================
