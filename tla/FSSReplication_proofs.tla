------------------------ MODULE FSSReplication_proofs ------------------------
(***************************************************************************)
(* Proofs about the feature-state replication service, for every set of    *)
(* namespaces and every bound on the config map versions and namespace    *)
(* operations: the type invariant and, when no content of the config map *)
(* has an empty data map, that no config map update is lost.               *)
(***************************************************************************)
EXTENDS FSSReplication, SequenceTheorems, TLAPS

USE FSSAssumptions

LEMMA IInvInit == Init => IInv
<1> SUFFICES ASSUME Init PROVE IInv
  OBVIOUS
<1>1. (CHOOSE ns \in Namespaces : TRUE) \in Namespaces
  OBVIOUS
<1>2. crs \in [Namespaces -> Versions \cup {NoCR}]
  BY DEF Init, Versions
<1>3. cmEvents \in Seq(Event) /\ cmVer \in Versions
  BY DEF Init, Versions
<1>4. pending \in [Namespaces -> Versions \cup {Nil}]
  BY DEF Init
<1>6. nsOps \in 0 .. MaxNsOps
  BY DEF Init
<1>7. TypeOK
  BY <1>1, <1>2, <1>3, <1>4, <1>6 DEF Init, TypeOK, Holders, Versions
<1>5. QED
  BY <1>7 DEF Init, IInv, LastEventCurrent, NoCRWithoutNamespace, LockHeld,
              BeforeStart, UpdateOnItsWay, PendingCurrent, started

(* The last element of a sequence is also the last element of its tail,  *)
(* when the tail is not empty.                                             *)
LEMMA LastOfTail ==
  ASSUME NEW S, NEW q \in Seq(S), q # <<>>, Tail(q) # <<>>
  PROVE  Tail(q)[Len(Tail(q))] = q[Len(q)]
<1>1. Len(Tail(q)) = Len(q) - 1 /\ Len(Tail(q)) \in Nat
  BY HeadTailProperties
<1>2. Len(Tail(q)) \in 1 .. Len(Tail(q))
  BY <1>1, EmptySeq, HeadTailProperties
<1>3. QED
  BY <1>1, <1>2, HeadTailProperties

(* The last element of Append(q, e) is e. *)
LEMMA LastOfAppend ==
  ASSUME NEW S, NEW q \in Seq(S), NEW e \in S
  PROVE  /\ Append(q, e) # <<>>
         /\ Append(q, e)[Len(Append(q, e))] = e
         /\ Append(q, e) \in Seq(S)
BY AppendProperties

(* The []FeatureState built from a content is a content or the nil slice; *)
(* it is the content itself when no content has an empty data map.        *)
LEMMA DataType == \A v \in Versions : Data(v) \in Versions \cup {Nil}
BY DEF Data

LEMMA DataNonEmpty == EmptyData = {} => \A v \in Versions : Data(v) = v
BY DEF Data

-----------------------------------------------------------------------------
(* The type invariant, with what it rests on: the lock and the processing *)
(* round agree, and nothing but start-up runs before the informers start. *)
(* It holds whatever contents have an empty data map.                      *)
TypeInv == TypeOK /\ LockHeld /\ BeforeStart

LEMMA TypeInvStep == TypeInv /\ [Next]_vars => TypeInv'
<1> SUFFICES ASSUME TypeInv, [Next]_vars PROVE TypeInv'
  OBVIOUS
<1> USE DEF TypeInv, TypeOK, LockHeld, BeforeStart, started, Versions, Holders,
           bootVars
<1>1. CASE UpdateConfigMap
  <2>1. [kind |-> "update", old |-> cmVer, new |-> cmVer + 1] \in Event
    BY <1>1 DEF UpdateConfigMap, Event
  <2>2. QED
    BY <1>1, <2>1, LastOfAppend DEF UpdateConfigMap
<1>2. CASE DeleteConfigMap
  <2>1. [kind |-> "delete", old |-> cmVer, new |-> cmVer] \in Event
    BY DEF Event
  <2>2. QED
    BY <1>2, <2>1, LastOfAppend DEF DeleteConfigMap
<1>3. CASE CreateConfigMap
  <2>1. [kind |-> "add", old |-> cmVer + 1, new |-> cmVer + 1] \in Event
    BY <1>3 DEF CreateConfigMap, Event
  <2>2. QED
    BY <1>3, <2>1, LastOfAppend DEF CreateConfigMap
<1>4. ASSUME NEW ns \in Namespaces, CreateNamespace(ns) PROVE TypeInv'
  BY <1>4 DEF CreateNamespace
<1>5. ASSUME NEW ns \in Namespaces, DeleteNamespace(ns) PROVE TypeInv'
  BY <1>5 DEF DeleteNamespace
<1>6. CASE StartGet
  BY <1>6 DEF StartGet
<1>7. CASE StartEnqueue
  BY <1>7, DataType DEF StartEnqueue, EnqueueAll
<1>8. CASE StartListen
  <2>1. [kind |-> "add", old |-> cmVer, new |-> cmVer] \in Event
    BY DEF Event
  <2>2. QED
    BY <1>8, <2>1 DEF StartListen
<1>9. CASE ConfigMapHandler
  <2> DEFINE e == Head(cmEvents)
  <2>0. e \in Event /\ Tail(cmEvents) \in Seq(Event)
    BY <1>9, HeadTailProperties DEF ConfigMapHandler
  <2>1. e \in Event /\ Tail(cmEvents) \in Seq(Event) /\ e.new \in Versions
    BY <2>0 DEF Event
  <2>2. CASE Enqueues(e) /\ lock = "none" /\ EnqueueAll(e.new)
    BY <1>9, <2>1, <2>2, DataType DEF ConfigMapHandler, EnqueueAll
  <2>3. CASE ~Enqueues(e) /\ UNCHANGED pending
    BY <1>9, <2>1, <2>3 DEF ConfigMapHandler
  <2>4. QED
    BY <1>9, <2>2, <2>3 DEF ConfigMapHandler
<1>10. ASSUME NEW ns \in Namespaces, NamespaceHandler(ns) PROVE TypeInv'
  BY <1>10 DEF NamespaceHandler
<1>11. CASE NamespaceEnqueue
  BY <1>11, DataType DEF NamespaceEnqueue
<1>12. CASE GetFeatureStatesRetry
  BY <1>12 DEF GetFeatureStatesRetry, vars
<1>13. CASE ProcessLock \/ ProcessUnlock \/ WriteError
  BY <1>13 DEF ProcessLock, ProcessUnlock, WriteError
<1>14. CASE WriteCR
  BY <1>14 DEF WriteCR
<1>15. ASSUME NEW ns \in Namespaces,
              CheckError(ns) \/ CheckGone(ns) \/ CheckPresent(ns)
       PROVE  TypeInv'
  BY <1>15 DEF CheckError, CheckGone, CheckPresent
<1>16. CASE UNCHANGED vars
  BY <1>16 DEF vars
<1>17. QED
  BY <1>1, <1>2, <1>3, <1>4, <1>5, <1>6, <1>7, <1>8, <1>9, <1>10, <1>11,
     <1>12, <1>13, <1>14, <1>15, <1>16 DEF Next, Environment

LEMMA TypeInvHolds == Spec => []TypeInv
<1>1. Init => TypeInv
  BY IInvInit DEF IInv, TypeInv
<1>2. QED
  BY <1>1, TypeInvStep, PTL DEF Spec

(* The model stays well typed for every set of namespaces, every bound on *)
(* config map versions and namespace operations and every set of empty    *)
(* contents: StartSvFSSReplicationService, the informer handlers and      *)
(* processPendingCRUpdates only ever store feature states, or nil, in      *)
(* pendingCRUpdate, and the processor only writes non-empty entries.       *)
THEOREM TypeCorrect == Spec => []TypeOK
BY TypeInvHolds, PTL DEF TypeInv

-----------------------------------------------------------------------------
(* With no empty content, every step preserves IInv: one step per action. *)
LEMMA IInvStep ==
  ASSUME EmptyData = {}
  PROVE  IInv /\ [Next]_vars => IInv'
<1> SUFFICES ASSUME IInv, [Next]_vars PROVE IInv'
  OBVIOUS
<1>0. TypeOK' /\ LockHeld' /\ BeforeStart'
  BY TypeInvStep DEF IInv, TypeInv
<1> USE DEF IInv, TypeOK, LastEventCurrent, NoCRWithoutNamespace, LockHeld,
            BeforeStart, UpdateOnItsWay, PendingCurrent, Versions, Holders,
            started, bootVars
<1>1. CASE UpdateConfigMap
  <2>1. [kind |-> "update", old |-> cmVer, new |-> cmVer + 1] \in Event
    BY <1>1 DEF UpdateConfigMap, Event
  <2>2. QED
    BY <1>0, <1>1, <2>1, LastOfAppend DEF UpdateConfigMap
<1>2. CASE DeleteConfigMap
  <2>1. [kind |-> "delete", old |-> cmVer, new |-> cmVer] \in Event
    BY DEF Event
  <2>2. LastEventCurrent'
    <3>1. CASE started
      BY <1>2, <2>1, <3>1, LastOfAppend DEF DeleteConfigMap
    <3>2. CASE ~started
      BY <1>2, <3>2 DEF DeleteConfigMap
    <3>3. QED
      BY <3>1, <3>2
  <2>3. QED
    BY <1>0, <1>2, <2>2 DEF DeleteConfigMap
<1>3. CASE CreateConfigMap
  <2>1. [kind |-> "add", old |-> cmVer + 1, new |-> cmVer + 1] \in Event
    BY <1>3 DEF CreateConfigMap, Event
  <2>2. QED
    BY <1>0, <1>3, <2>1, LastOfAppend DEF CreateConfigMap
<1>4. ASSUME NEW ns \in Namespaces, CreateNamespace(ns) PROVE IInv'
  BY <1>0, <1>4 DEF CreateNamespace
<1>5. ASSUME NEW ns \in Namespaces, DeleteNamespace(ns) PROVE IInv'
  BY <1>0, <1>5 DEF DeleteNamespace
<1>6. CASE StartGet \/ StartEnqueue
  BY <1>0, <1>6 DEF StartGet, StartEnqueue
<1>20. CASE StartListen
  BY <1>0, <1>20 DEF StartListen
<1>7. CASE ConfigMapHandler
  <2> DEFINE e == Head(cmEvents)
  <2> DEFINE Enq == e.kind = "add" \/ (e.kind = "update" /\ e.old # e.new)
  <2>0. e \in Event /\ Tail(cmEvents) \in Seq(Event)
    BY <1>7, HeadTailProperties DEF ConfigMapHandler
  <2>1. e \in Event /\ Tail(cmEvents) \in Seq(Event) /\ e.new \in Versions
    BY <2>0 DEF Event
  <2>7. Data(e.new) = e.new
    BY <2>1, DataNonEmpty
  <2>2. /\ cmEvents' = Tail(cmEvents)
        /\ pending' = IF Enq THEN [ns \in Namespaces |->
                                     IF ns \in nsExists THEN e.new
                                     ELSE pending[ns]]
                             ELSE pending
        /\ UNCHANGED <<cmExists, cmVer, nsExists, nsEvents, nsOps, crs, lock,
                       boot, bootVer, nsPC, pPC, todo, cur>>
    BY <1>7, <2>7 DEF ConfigMapHandler, EnqueueAll, Enqueues, bootVars
  <2>3. TypeOK'
    BY <1>0
  <2>8. NoCRWithoutNamespace' /\ LockHeld'
    BY <1>0, <2>2
  <2>4. CASE Tail(cmEvents) # <<>>
    <3>1. Tail(cmEvents)[Len(Tail(cmEvents))] = cmEvents[Len(cmEvents)]
      BY <1>7, <2>4, LastOfTail DEF ConfigMapHandler
    <3>2. LastEventCurrent'
      BY <2>2, <3>1
    <3>3. UpdateOnItsWay' /\ PendingCurrent'
      BY <2>2, <2>4
    <3>4. QED
      BY <1>0, <2>3, <2>8, <3>2, <3>3
  <2>5. CASE Tail(cmEvents) = <<>>
    <3>1. LastEventCurrent'
      BY <2>2, <2>5
    <3>2. Len(cmEvents) = 1
      <4>1. cmEvents \in Seq(Event) /\ cmEvents # <<>>
        BY <1>7 DEF ConfigMapHandler
      <4>2. Len(Tail(cmEvents)) = Len(cmEvents) - 1
        BY <4>1, HeadTailProperties
      <4>3. Len(Tail(cmEvents)) = 0
        BY <2>5, EmptySeq
      <4>4. Len(cmEvents) \in Nat
        BY <4>1, LenProperties
      <4>5. QED
        BY <4>2, <4>3, <4>4
    <3>3. e = cmEvents[Len(cmEvents)]
      BY <3>2
    <3>4. ASSUME started PROVE
            \/ Enq /\ e.new = cmVer
            \/ ~cmExists
      BY <1>7, <3>3, <3>4 DEF ConfigMapHandler
    <3>5. UpdateOnItsWay' /\ PendingCurrent'
      BY <2>2, <2>5, <3>4
    <3>6. QED
      BY <1>0, <2>3, <2>8, <3>1, <3>5
  <2>6. QED
    BY <2>4, <2>5
<1>8. ASSUME NEW ns \in Namespaces, NamespaceHandler(ns) PROVE IInv'
  <2>1. LastEventCurrent' /\ NoCRWithoutNamespace'
    BY <1>8 DEF NamespaceHandler
  <2>2. TypeOK' /\ LockHeld' /\ BeforeStart'
    BY <1>0
  <2>3. UpdateOnItsWay' /\ PendingCurrent'
    BY <1>8 DEF NamespaceHandler
  <2>4. QED
    BY <2>1, <2>2, <2>3
<1>9. CASE NamespaceEnqueue
  <2>1. Data(cmVer) = cmVer
    BY DataNonEmpty
  <2>2. QED
    BY <1>0, <1>9, <2>1 DEF NamespaceEnqueue
<1>10. CASE GetFeatureStatesRetry
  BY <1>10 DEF GetFeatureStatesRetry, vars, bootVars
<1>11. CASE ProcessLock
  BY <1>0, <1>11 DEF ProcessLock
<1>12. CASE ProcessUnlock
  BY <1>0, <1>12 DEF ProcessUnlock
<1>13. CASE WriteError
  BY <1>0, <1>13 DEF WriteError
<1>14. CASE WriteCR
  <2>1. pending[cur] \in Versions
    BY <1>14 DEF WriteCR
  <2>2. TypeOK' /\ LockHeld' /\ BeforeStart'
    BY <1>0
  <2>3. NoCRWithoutNamespace'
    BY <1>14 DEF WriteCR
  <2>5. UpdateOnItsWay'
    <3> SUFFICES ASSUME NEW n \in nsExists', cmExists', crs'[n] # cmVer'
                 PROVE  \/ ~started'
                        \/ pending'[n] = cmVer'
                        \/ cmEvents' # <<>>
                        \/ n \in nsEvents' \/ nsPC' = n
      OBVIOUS
    <3>1. CASE n = cur
      <4>1. CASE pending[cur] = cmVer
        BY <1>14, <3>1, <4>1 DEF WriteCR
      <4>2. CASE pending[cur] # cmVer
        BY <1>14, <3>1, <4>2 DEF WriteCR
      <4>3. QED
        BY <4>1, <4>2
    <3>2. CASE n # cur
      BY <1>14, <3>2 DEF WriteCR
    <3>3. QED
      BY <3>1, <3>2
  <2>6. LastEventCurrent' /\ PendingCurrent'
    BY <1>14 DEF WriteCR
  <2>7. QED
    BY <2>2, <2>3, <2>5, <2>6
<1>15. ASSUME NEW ns \in Namespaces, CheckError(ns) PROVE IInv'
  BY <1>0, <1>15 DEF CheckError
<1>16. ASSUME NEW ns \in Namespaces, CheckGone(ns) PROVE IInv'
  BY <1>0, <1>16 DEF CheckGone
<1>17. ASSUME NEW ns \in Namespaces, CheckPresent(ns) PROVE IInv'
  BY <1>0, <1>17 DEF CheckPresent
<1>18. CASE UNCHANGED vars
  BY <1>18 DEF vars, bootVars
<1>19. QED
  BY <1>1, <1>2, <1>3, <1>4, <1>5, <1>6, <1>7, <1>8, <1>9, <1>10, <1>11,
     <1>12, <1>13, <1>14, <1>15, <1>16, <1>17, <1>18, <1>20
  DEF Next, Environment

(* With no empty content, IInv holds in every reachable state. *)
LEMMA IInvHolds ==
  ASSUME EmptyData = {}
  PROVE  Spec => []IInv
<1>1. IInv /\ [Next]_vars => IInv'
  BY IInvStep
<1>2. QED
  BY <1>1, IInvInit, PTL DEF Spec

(* The strengthening implies NoLostUpdate: a pending entry holding the    *)
(* current version is not empty.                                           *)
LEMMA IInvNoLostUpdate == IInv => NoLostUpdate
BY DEF IInv, TypeOK, UpdateOnItsWay, NoLostUpdate, Versions

(* No config map update is lost when no content of the config map has an  *)
(* empty data map (run fss_empty_data shows the loss when one has):       *)
(* through concurrent informer handlers, the start-up steps, the retry    *)
(* loop, namespace churn and failing API calls, a workload namespace      *)
(* whose CR is not the config map's current data always has a pending     *)
(* entry with that data, an undelivered event or the namespace handler on *)
(* its way to write it (processPendingCRUpdates keeps failed entries; the *)
(* handlers enqueue under pendingCRUpdatesObj.lock).                       *)
THEOREM NoUpdateLost ==
  ASSUME EmptyData = {}
  PROVE  Spec => []NoLostUpdate
<1>1. Spec => []IInv
  BY IInvHolds
<1>2. QED
  BY <1>1, IInvNoLostUpdate, PTL

(* One step of the service clears a pending entry only by writing it to   *)
(* the CR (WriteCR) or because the namespace is gone (CheckGone); the      *)
(* other steps leave the entry or refill it with config map data, which   *)
(* is not the nil slice when no content is empty.                          *)
LEMMA PendingClearStep ==
  ASSUME EmptyData = {}
  PROVE  TypeOK /\ [Next]_vars =>
           [\A ns \in Namespaces :
              (pending[ns] # Nil /\ pending'[ns] = Nil) =>
                crs'[ns] = pending[ns] \/ ns \notin nsExists]_vars
<1> SUFFICES ASSUME TypeOK, [Next]_vars, NEW ns \in Namespaces,
                    pending[ns] # Nil, pending'[ns] = Nil
             PROVE  crs'[ns] = pending[ns] \/ ns \notin nsExists
  BY DEF vars
<1> USE DEF TypeOK, Versions, bootVars
<1>1. CASE ConfigMapHandler
  <2>0. Head(cmEvents) \in Event
    BY <1>1, HeadTailProperties DEF ConfigMapHandler
  <2>1. Head(cmEvents) \in Event /\ Head(cmEvents).new \in Versions
    BY <2>0 DEF Event
  <2>2. Data(Head(cmEvents).new) = Head(cmEvents).new
    BY <2>1, DataNonEmpty
  <2>3. QED
    BY <1>1, <2>1, <2>2 DEF ConfigMapHandler, EnqueueAll
<1>2. CASE StartEnqueue
  <2>1. Data(bootVer) = bootVer
    BY DataNonEmpty
  <2>2. QED
    BY <1>2, <2>1 DEF StartEnqueue, EnqueueAll
<1>3. CASE NamespaceEnqueue
  <2>1. Data(cmVer) = cmVer
    BY DataNonEmpty
  <2>2. QED
    BY <1>3, <2>1 DEF NamespaceEnqueue
<1>4. CASE \E n \in Namespaces : CheckGone(n)
  BY <1>4 DEF CheckGone
<1>5. CASE WriteCR
  BY <1>5 DEF WriteCR
<1>6. CASE \/ Environment \/ \E n \in Namespaces : NamespaceHandler(n)
           \/ StartGet \/ StartListen
           \/ GetFeatureStatesRetry \/ ProcessLock \/ ProcessUnlock
           \/ WriteError
           \/ \E n \in Namespaces : CheckError(n) \/ CheckPresent(n)
           \/ UNCHANGED vars
  BY <1>6 DEF Environment, UpdateConfigMap, DeleteConfigMap, CreateConfigMap,
              CreateNamespace, DeleteNamespace, NamespaceHandler, StartGet,
              StartListen, GetFeatureStatesRetry, ProcessLock, ProcessUnlock,
              WriteError, CheckError, CheckPresent, vars
<1>7. QED
  BY <1>1, <1>2, <1>3, <1>4, <1>5, <1>6 DEF Next

(* When no content of the config map is empty, a pending feature-state    *)
(* update leaves pendingCRUpdate only when the namespace's CR holds it or *)
(* the namespace is gone: a failed Get, Create or Update in               *)
(* processPendingCRUpdates never drops it.                                 *)
THEOREM PendingNeverDropped ==
  ASSUME EmptyData = {}
  PROVE  Spec => PendingClearedOnlyWhenDone
<1>1. TypeOK /\ [Next]_vars =>
        [\A ns \in Namespaces :
           (pending[ns] # Nil /\ pending'[ns] = Nil) =>
             crs'[ns] = pending[ns] \/ ns \notin nsExists]_vars
  BY PendingClearStep
<1>2. QED
  BY <1>1, TypeCorrect, PTL DEF Spec, PendingClearedOnlyWhenDone
=============================================================================
