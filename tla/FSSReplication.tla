---------------------------- MODULE FSSReplication ----------------------------
(***************************************************************************)
(* The supervisor feature-state replication service (package              *)
(* featurestates, second version in src/unnamed/part_007, lines 369-757). *)
(* It copies the data of the supervisor feature-state config map into a   *)
(* CnsCsiSvFeatureStates CR in every workload namespace.                   *)
(*                                                                         *)
(* Four goroutines share pendingCRUpdatesObj and its lock:                 *)
(*  - the informer's config map handler (configMapAdded/Updated/Deleted)   *)
(*    enqueues the new data for all workload namespaces;                   *)
(*  - the informer's namespace handler (namespaceAdded) enqueues, for a    *)
(*    new namespace, the data it GETs from the API server;                 *)
(*  - processPendingCRUpdates, once a minute, writes every pending entry   *)
(*    to its namespace's CR, holding the lock throughout;                  *)
(*  - StartSvFSSReplicationService runs once before the others start.      *)
(* The config map data is abstracted to a version number: version v is    *)
(* the v-th content the config map has had (0: a content from before the  *)
(* service started); the contents in EmptyData have an empty data map.   *)
(* The environment updates, deletes and re-creates the config map and     *)
(* creates and deletes namespaces; every API call may fail.                *)
(***************************************************************************)
EXTENDS Naturals, Sequences, FiniteSets

CONSTANTS
  Namespaces,  \* workload namespace names
  MaxVersion,  \* bound: contents the config map takes
  MaxNsOps,    \* bound: namespace creations and deletions
  NoCR,        \* no CnsCsiSvFeatureStates CR in the namespace
  Nil,         \* an empty (nil) []FeatureState in pendingCRUpdate
  EmptyData    \* config map contents whose data map is empty

ASSUME FSSAssumptions ==
  /\ Namespaces # {} /\ "idle" \notin Namespaces
  /\ MaxVersion \in Nat \ {0}
  /\ MaxNsOps \in Nat
  /\ NoCR \notin Nat /\ Nil \notin Nat
  /\ EmptyData \subseteq 1 .. MaxVersion

Versions == 0 .. MaxVersion

(* The []FeatureState built from a content: the loop over its Data        *)
(* appends nothing to the nil slice when the data map is empty.            *)
Data(v) == IF v \in EmptyData THEN Nil ELSE v

VARIABLES
  cmExists,  \* the feature-state config map exists
  cmVer,     \* its data (the last data it had, if deleted)
  cmEvents,  \* config map events the informer has yet to deliver
  nsExists,  \* workload namespaces present in the cluster
  nsEvents,  \* namespace Add events the informer has yet to deliver
  nsOps,     \* namespace creations and deletions so far
  crs,       \* crs[ns]: the FeatureStates of the CR in ns
  pending,   \* pendingCRUpdatesObj.pendingCRUpdate
  lock,      \* the goroutine holding pendingCRUpdatesObj.lock
  boot,      \* StartSvFSSReplicationService: "get", "enqueue", "listen", "done"
  bootVer,   \* the config map data it read with getFeatureStates
  nsPC,      \* namespace handler: idle, or the namespace it enqueues
  pPC,       \* processPendingCRUpdates: "sleep", "loop" or "write"
  todo,      \* namespaces the processor's current round has yet to visit
  cur        \* the namespace the processor is writing

vars == <<cmExists, cmVer, cmEvents, nsExists, nsEvents, nsOps, crs, pending,
          lock, boot, bootVer, nsPC, pPC, todo, cur>>

bootVars == <<boot, bootVer>>

(* The informers and the processing goroutine have been started. *)
started == boot = "done"

Holders == {"none", "ns", "proc"}
Event == [kind : {"add", "update", "delete"}, old : Versions, new : Versions]

TypeOK ==
  /\ cmExists \in BOOLEAN
  /\ cmVer \in Versions
  /\ cmEvents \in Seq(Event)
  /\ nsExists \subseteq Namespaces
  /\ nsEvents \subseteq Namespaces
  /\ nsOps \in 0 .. MaxNsOps
  /\ crs \in [Namespaces -> Versions \cup {NoCR}]
  /\ pending \in [Namespaces -> Versions \cup {Nil}]
  /\ lock \in Holders
  /\ boot \in {"get", "enqueue", "listen", "done"}
  /\ bootVer \in Versions
  /\ nsPC \in Namespaces \cup {"idle"}
  /\ pPC \in {"sleep", "loop", "write"}
  /\ todo \subseteq Namespaces
  /\ cur \in Namespaces

(* The service (re)starts: the config map holds version 1, the namespaces *)
(* that exist may hold CRs written by an earlier run.                      *)
Init ==
  /\ cmExists = TRUE
  /\ cmVer = 1
  /\ cmEvents = <<>>
  /\ nsExists \in SUBSET Namespaces
  /\ nsEvents = {}
  /\ nsOps = 0
  /\ crs \in [Namespaces -> {NoCR, 0, 1}]
  /\ \A ns \in Namespaces \ nsExists : crs[ns] = NoCR
  /\ pending = [ns \in Namespaces |-> Nil]
  /\ lock = "none"
  /\ boot = "get"
  /\ bootVer = 0
  /\ nsPC = "idle"
  /\ pPC = "sleep"
  /\ todo = {}
  /\ cur = CHOOSE ns \in Namespaces : TRUE

(* enqueueCRUpdatesForAllWorkloadNamespaces: under the lock, list the     *)
(* workload namespaces (getAllWorkloadNamespaces retries until the List   *)
(* succeeds) and set each one's pending entry to the given data.          *)
EnqueueAll(v) == pending' = [ns \in Namespaces |->
                               IF ns \in nsExists THEN Data(v) ELSE pending[ns]]

-----------------------------------------------------------------------------
(* The environment. *)

UpdateConfigMap ==
  /\ cmExists /\ cmVer < MaxVersion
  /\ cmVer' = cmVer + 1
  /\ cmEvents' = IF started
                   THEN Append(cmEvents, [kind |-> "update", old |-> cmVer,
                                          new |-> cmVer + 1])
                   ELSE cmEvents
  /\ UNCHANGED <<cmExists, nsExists, nsEvents, nsOps, crs, pending, lock,
                 bootVars, nsPC, pPC, todo, cur>>

DeleteConfigMap ==
  /\ cmExists
  /\ cmExists' = FALSE
  /\ cmEvents' = IF started
                   THEN Append(cmEvents, [kind |-> "delete", old |-> cmVer,
                                          new |-> cmVer])
                   ELSE cmEvents
  /\ UNCHANGED <<cmVer, nsExists, nsEvents, nsOps, crs, pending, lock,
                 bootVars, nsPC, pPC, todo, cur>>

CreateConfigMap ==
  /\ ~cmExists /\ cmVer < MaxVersion
  /\ cmExists' = TRUE
  /\ cmVer' = cmVer + 1
  /\ cmEvents' = IF started
                   THEN Append(cmEvents, [kind |-> "add", old |-> cmVer + 1,
                                          new |-> cmVer + 1])
                   ELSE cmEvents
  /\ UNCHANGED <<nsExists, nsEvents, nsOps, crs, pending, lock, bootVars,
                 nsPC, pPC, todo, cur>>

CreateNamespace(ns) ==
  /\ ns \notin nsExists /\ nsOps < MaxNsOps
  /\ nsExists' = nsExists \cup {ns}
  /\ nsEvents' = IF started THEN nsEvents \cup {ns} ELSE nsEvents
  /\ nsOps' = nsOps + 1
  /\ UNCHANGED <<cmExists, cmVer, cmEvents, crs, pending, lock, bootVars,
                 nsPC, pPC, todo, cur>>

(* Deleting a namespace deletes the CR in it. *)
DeleteNamespace(ns) ==
  /\ ns \in nsExists /\ nsOps < MaxNsOps
  /\ nsExists' = nsExists \ {ns}
  /\ crs' = [crs EXCEPT ![ns] = NoCR]
  /\ nsOps' = nsOps + 1
  /\ UNCHANGED <<cmExists, cmVer, cmEvents, nsEvents, pending, lock, bootVars,
                 nsPC, pPC, todo, cur>>

-----------------------------------------------------------------------------
(* StartSvFSSReplicationService, in three steps that the environment can *)
(* interleave.  First getFeatureStates reads the config map (retrying     *)
(* until it can) ...                                                       *)
StartGet ==
  /\ boot = "get" /\ cmExists
  /\ boot' = "enqueue"
  /\ bootVer' = cmVer
  /\ UNCHANGED <<cmExists, cmVer, cmEvents, nsExists, nsEvents, nsOps, crs,
                 pending, lock, nsPC, pPC, todo, cur>>

(* ... then enqueueCRUpdatesForAllWorkloadNamespaces lists the workload   *)
(* namespaces and enqueues that data for each (no other goroutine runs    *)
(* yet to contend for the lock) ...                                        *)
StartEnqueue ==
  /\ boot = "enqueue"
  /\ EnqueueAll(bootVer)
  /\ boot' = "listen"
  /\ UNCHANGED <<cmExists, cmVer, cmEvents, nsExists, nsEvents, nsOps, crs,
                 lock, bootVer, nsPC, pPC, todo, cur>>

(* ... and then it starts the informers, whose initial List delivers an  *)
(* Add event for the config map, if it exists, and for every namespace,   *)
(* and the processing goroutine.                                           *)
StartListen ==
  /\ boot = "listen"
  /\ boot' = "done"
  /\ cmEvents' = IF cmExists
                   THEN <<[kind |-> "add", old |-> cmVer, new |-> cmVer]>>
                   ELSE <<>>
  /\ nsEvents' = nsExists
  /\ UNCHANGED <<cmExists, cmVer, nsExists, nsOps, crs, pending, lock,
                 bootVer, nsPC, pPC, todo, cur>>

(* The events on which configMapAdded and configMapUpdated enqueue. *)
Enqueues(e) == e.kind = "add" \/ (e.kind = "update" /\ e.old # e.new)

-----------------------------------------------------------------------------
(* Plausible bugs of the code below, each the body of one definition with  *)
(* one change; the runs show that a property catches each.                 *)

(* configMapUpdated building the feature states from the old object (as   *)
(* the first version of the package does).                                 *)
ConfigMapHandlerOld ==
  /\ cmEvents # <<>>
  /\ LET e == Head(cmEvents) IN
       \/ Enqueues(e) /\ lock = "none" /\ EnqueueAll(e.old)
       \/ ~Enqueues(e) /\ UNCHANGED pending
  /\ cmEvents' = Tail(cmEvents)
  /\ UNCHANGED <<cmExists, cmVer, nsExists, nsEvents, nsOps, crs, lock,
                 bootVars, nsPC, pPC, todo, cur>>

(* The round visits every entry, without the len(featurestates) != 0 test. *)
ProcessLockAll ==
  /\ started /\ pPC = "sleep" /\ lock = "none"
  /\ lock' = "proc"
  /\ todo' = Namespaces
  /\ pPC' = "loop"
  /\ UNCHANGED <<cmExists, cmVer, cmEvents, nsExists, nsEvents, nsOps, crs,
                 pending, bootVars, nsPC, cur>>

(* A failed Create or Update that falls through to clearing the entry     *)
(* (the continue dropped).                                                 *)
WriteErrorClears ==
  /\ pPC = "write"
  /\ pending' = [pending EXCEPT ![cur] = Nil]
  /\ pPC' = "loop"
  /\ UNCHANGED <<cmExists, cmVer, cmEvents, nsExists, nsEvents, nsOps, crs,
                 lock, bootVars, nsPC, todo, cur>>

-----------------------------------------------------------------------------
(* The config map handler delivers the next event.  configMapAdded and    *)
(* configMapUpdated enqueue the event's data for all workload namespaces, *)
(* taking the lock; configMapUpdated returns early when old and new data  *)
(* are equal, and configMapDeleted only logs: neither takes the lock.     *)
ConfigMapHandler ==
  /\ cmEvents # <<>>
  /\ LET e == Head(cmEvents) IN
       \/ Enqueues(e) /\ lock = "none" /\ EnqueueAll(e.new)
       \/ ~Enqueues(e) /\ UNCHANGED pending
  /\ cmEvents' = Tail(cmEvents)
  /\ UNCHANGED <<cmExists, cmVer, nsExists, nsEvents, nsOps, crs, lock,
                 bootVars, nsPC, pPC, todo, cur>>

(* namespaceAdded calls enqueueCRUpdatesForNewWorkloadNamespace, which    *)
(* takes the lock ...                                                      *)
NamespaceHandler(ns) ==
  /\ ns \in nsEvents /\ nsPC = "idle" /\ lock = "none"
  /\ lock' = "ns"
  /\ nsPC' = ns
  /\ nsEvents' = nsEvents \ {ns}
  /\ UNCHANGED <<cmExists, cmVer, cmEvents, nsExists, nsOps, crs, pending,
                 bootVars, pPC, todo, cur>>

(* ... and, holding it, calls getFeatureStates, which retries every       *)
(* second until the config map can be read.                                *)
NamespaceEnqueue ==
  /\ nsPC # "idle" /\ cmExists
  /\ pending' = [pending EXCEPT ![nsPC] = Data(cmVer)]
  /\ lock' = "none"
  /\ nsPC' = "idle"
  /\ UNCHANGED <<cmExists, cmVer, cmEvents, nsExists, nsEvents, nsOps, crs,
                 bootVars, pPC, todo, cur>>

-----------------------------------------------------------------------------
(* processPendingCRUpdates: every minute, take the lock and range over the *)
(* entries with a non-empty slice.                                         *)
ProcessLock ==
  /\ started /\ pPC = "sleep" /\ lock = "none"
  /\ lock' = "proc"
  /\ todo' = {ns \in Namespaces : pending[ns] # Nil}
  /\ pPC' = "loop"
  /\ UNCHANGED <<cmExists, cmVer, cmEvents, nsExists, nsEvents, nsOps, crs,
                 pending, bootVars, nsPC, cur>>

(* isNamespacePresent fails: continue with the next entry. *)
CheckError(ns) ==
  /\ pPC = "loop" /\ ns \in todo
  /\ todo' = todo \ {ns}
  /\ UNCHANGED <<cmExists, cmVer, cmEvents, nsExists, nsEvents, nsOps, crs,
                 pending, lock, bootVars, nsPC, pPC, cur>>

(* The namespace is gone: its pending entry is cleared. *)
CheckGone(ns) ==
  /\ pPC = "loop" /\ ns \in todo /\ ns \notin nsExists
  /\ pending' = [pending EXCEPT ![ns] = Nil]
  /\ todo' = todo \ {ns}
  /\ UNCHANGED <<cmExists, cmVer, cmEvents, nsExists, nsEvents, nsOps, crs,
                 lock, bootVars, nsPC, pPC, cur>>

CheckPresent(ns) ==
  /\ pPC = "loop" /\ ns \in todo /\ ns \in nsExists
  /\ pPC' = "write"
  /\ cur' = ns
  /\ todo' = todo \ {ns}
  /\ UNCHANGED <<cmExists, cmVer, cmEvents, nsExists, nsEvents, nsOps, crs,
                 pending, lock, bootVars, nsPC>>

(* Get of the CR, then Create (NotFound) or Update with the pending data. *)
(* A failed Get, Create or Update continues with the next entry and keeps *)
(* this one; success clears it.  Create fails once the namespace is gone. *)
WriteError ==
  /\ pPC = "write"
  /\ pPC' = "loop"
  /\ UNCHANGED <<cmExists, cmVer, cmEvents, nsExists, nsEvents, nsOps, crs,
                 pending, lock, bootVars, nsPC, todo, cur>>

WriteCR ==
  /\ pPC = "write"
  /\ crs[cur] = NoCR => cur \in nsExists
  /\ crs' = [crs EXCEPT ![cur] = pending[cur]]
  /\ pending' = [pending EXCEPT ![cur] = Nil]
  /\ pPC' = "loop"
  /\ UNCHANGED <<cmExists, cmVer, cmEvents, nsExists, nsEvents, nsOps, lock,
                 bootVars, nsPC, todo, cur>>

(* The round ends: unlock and sleep crUpdateRetryInterval. *)
ProcessUnlock ==
  /\ pPC = "loop" /\ todo = {}
  /\ lock' = "none"
  /\ pPC' = "sleep"
  /\ UNCHANGED <<cmExists, cmVer, cmEvents, nsExists, nsEvents, nsOps, crs,
                 pending, bootVars, nsPC, todo, cur>>

(* getFeatureStates cannot read the config map: it logs, sleeps a second *)
(* and tries again, in StartSvFSSReplicationService or, holding the lock,  *)
(* in the namespace handler.                                               *)
GetFeatureStatesRetry ==
  /\ ~cmExists
  /\ boot = "get" \/ nsPC # "idle"
  /\ UNCHANGED vars

-----------------------------------------------------------------------------
Environment ==
  \/ UpdateConfigMap \/ DeleteConfigMap \/ CreateConfigMap
  \/ \E ns \in Namespaces : CreateNamespace(ns) \/ DeleteNamespace(ns)

Next ==
  \/ Environment
  \/ StartGet \/ StartEnqueue \/ StartListen
  \/ ConfigMapHandler
  \/ \E ns \in Namespaces : NamespaceHandler(ns)
  \/ NamespaceEnqueue \/ GetFeatureStatesRetry
  \/ ProcessLock \/ ProcessUnlock \/ WriteError \/ WriteCR
  \/ \E ns \in Namespaces : CheckError(ns) \/ CheckGone(ns) \/ CheckPresent(ns)

(* The service's goroutines keep running; Go's sync.Mutex hands the lock  *)
(* to a waiter that has waited over 1ms (starvation mode), so a goroutine  *)
(* that keeps wanting the lock gets it (strong fairness).  API errors are  *)
(* transient: a call retried forever eventually succeeds.  The environment *)
(* is not fair.                                                            *)
Fairness ==
  /\ WF_vars(StartGet) /\ WF_vars(StartEnqueue) /\ WF_vars(StartListen)
  /\ SF_vars(ConfigMapHandler)
  /\ \A ns \in Namespaces : SF_vars(NamespaceHandler(ns))
  /\ WF_vars(NamespaceEnqueue)
  /\ SF_vars(ProcessLock)
  /\ WF_vars(ProcessUnlock)
  /\ \A ns \in Namespaces : SF_vars(CheckGone(ns) \/ CheckPresent(ns))
  /\ WF_vars(WriteError \/ WriteCR) /\ SF_vars(WriteCR)

Spec == Init /\ [][Next]_vars /\ Fairness

-----------------------------------------------------------------------------
(* PROPERTIES                                                              *)

(* Replication converges: once the config map and the namespaces stop     *)
(* changing, every workload namespace ends up with a CR holding the       *)
(* config map's current data, for good.                                    *)
Converged == cmExists => \A ns \in nsExists : crs[ns] = cmVer
Converges == <>[]Converged

(* No update is lost: while a namespace's CR is not the config map's      *)
(* current data, something is still on its way to write it: a pending    *)
(* entry, an undelivered event, or the start-up enqueue.                   *)
NoLostUpdate ==
  \A ns \in nsExists :
    (cmExists /\ crs[ns] # cmVer) =>
      \/ ~started
      \/ pending[ns] # Nil
      \/ cmEvents # <<>>
      \/ ns \in nsEvents \/ nsPC = ns

(* pendingCRUpdates "holds latest update pending to persist on the CR":   *)
(* a CR is never overwritten with older config map data.                   *)
CRNeverRegresses ==
  [][\A ns \in Namespaces :
       (crs[ns] \in Versions /\ crs'[ns] \in Versions) => crs'[ns] >= crs[ns]
    ]_vars

(* processPendingCRUpdates deletes a pending entry only after a successful *)
(* Create or Update of the namespace's CR, or once isNamespacePresent says *)
(* the namespace is gone; a failed Get, Create or Update keeps the entry.  *)
(* So a pending update leaves pendingCRUpdate only when the CR holds it or *)
(* there is no namespace to hold it.                                       *)
PendingClearedOnlyWhenDone ==
  [][\A ns \in Namespaces :
       (pending[ns] # Nil /\ pending'[ns] = Nil) =>
         crs'[ns] = pending[ns] \/ ns \notin nsExists
    ]_vars

(* Pending updates are retried every crUpdateRetryInterval until written: *)
(* every pending entry is eventually processed.                            *)
PendingProcessed == \A ns \in Namespaces : pending[ns] # Nil ~> pending[ns] = Nil
-----------------------------------------------------------------------------
(* The inductive strengthening of NoLostUpdate, proved in                  *)
(* FSSReplication_proofs.                                                  *)

(* The last undelivered config map event carries the current data: an add *)
(* or a real update of version cmVer, or a delete while the map is gone.   *)
LastEventCurrent ==
  (started /\ cmEvents # <<>>) =>
    LET e == cmEvents[Len(cmEvents)] IN
      \/ /\ e.kind \in {"add", "update"}
         /\ e.new = cmVer
         /\ e.kind = "update" => e.old # e.new
      \/ e.kind = "delete" /\ ~cmExists

(* A namespace that does not exist has no CR. *)
NoCRWithoutNamespace == \A ns \in Namespaces \ nsExists : crs[ns] = NoCR

(* The lock is held by the goroutine inside its critical section, and a   *)
(* processing round only visits entries that are pending (and none once   *)
(* it has ended).                                                          *)
LockHeld ==
  /\ pPC # "sleep" => lock = "proc"
  /\ nsPC # "idle" => lock = "ns"
  /\ \A ns \in todo : pending[ns] # Nil
  /\ pPC = "write" => pending[cur] # Nil /\ cur \notin todo
  /\ pPC = "sleep" => todo = {}

(* Before StartListen no handler has an event and the processing          *)
(* goroutine has not started, so start-up enqueues without contention.     *)
BeforeStart ==
  ~started => /\ cmEvents = <<>> /\ nsEvents = {} /\ nsPC = "idle"
              /\ pPC = "sleep"

(* NoLostUpdate with the pending entry holding the current data. *)
UpdateOnItsWay ==
  \A ns \in nsExists :
    (cmExists /\ crs[ns] # cmVer) =>
      \/ ~started
      \/ pending[ns] = cmVer
      \/ cmEvents # <<>>
      \/ ns \in nsEvents \/ nsPC = ns

(* A pending entry of an existing namespace holds the current data, unless *)
(* an event or the namespace handler is about to replace it.               *)
PendingCurrent ==
  \A ns \in nsExists :
    cmExists =>
      \/ pending[ns] \in {Nil, cmVer}
      \/ ~started
      \/ cmEvents # <<>>
      \/ ns \in nsEvents \/ nsPC = ns

IInv ==
  /\ TypeOK /\ LastEventCurrent /\ NoCRWithoutNamespace /\ LockHeld
  /\ BeforeStart /\ UpdateOnItsWay /\ PendingCurrent
=============================================================================
