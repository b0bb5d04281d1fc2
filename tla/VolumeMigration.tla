--------------------------- MODULE VolumeMigration ---------------------------
(***************************************************************************)
(* The volume migration service (package migration, src/unnamed/part_004)  *)
(* and its caller registerVolume (pkg/csi/service/vanilla/                 *)
(* controller_helper.go).  The service maps an in-tree VolumePath to the   *)
(* CNS VolumeID it was registered as.  It keeps the mapping in             *)
(* CnsvSphereVolumeMigration custom resources (CRs) and caches it in a     *)
(* sync.Map keyed by VolumePath.                                           *)
(*                                                                         *)
(* Several CSI request goroutines run registerVolume and DeleteVolumeInfo  *)
(* concurrently; LoadAllVolumeInfo fills the cache from the CRs.  Every    *)
(* call to the API server or to CNS may fail.  The controller process may  *)
(* crash and restart at any moment: the cache (in memory) is lost, the CRs *)
(* and the CNS registrations survive.                                      *)
(*                                                                         *)
(* The sync.Map holds interface values whose dynamic type matters:         *)
(* GetVolumeInfo asserts *CnsvSphereVolumeMigrationSpec, while the stores  *)
(* put a CnsvSphereVolumeMigrationSpec value (GetVolumeInfo,               *)
(* LoadAllVolumeInfo) or a *CnsvSphereVolumeMigration (SaveVolumeInfo).    *)
(* A failed single-value type assertion, like a nil dereference, panics    *)
(* and the process restarts.                                               *)
(***************************************************************************)
EXTENDS Naturals, FiniteSets

CONSTANTS
  Callers,   \* goroutines serving CSI requests
  Paths,     \* in-tree volume paths ("[datastore] folder/disk.vmdk")
  Vids,      \* CNS volume IDs
  NoVol,     \* no CNS volume registered for a disk
  Miss,      \* no cache entry
  MaxCRs     \* bound: number of CRs that may ever be created

ASSUME MigrationAssumptions ==
  /\ NoVol \notin Vids
  /\ Paths # {}
  /\ MaxCRs \in Nat

VARIABLES
  cns,       \* cns[p]: the CNS volume registered with backing disk p
  crs,       \* the CnsvSphereVolumeMigration CRs in the API server
  nextName,  \* CRs created so far (their uuid names are 1..nextName)
  cache,     \* volumePathToVolumeInfo
  pc,        \* control point of each goroutine
  path,      \* path[c]: the volumePath of c's current call
  vid,       \* vid[c]: the VolumeID c has found or registered
  snap,      \* snap[c]: the CRs LoadAllVolumeInfo listed
  target,    \* target[c]: name of the CR DeleteVolumeInfo listed for deletion
  returned,  \* history: the <<path, VolumeID>> pairs registerVolume returned
  panicked   \* history: the process has panicked

vars == <<cns, crs, nextName, cache, pc, path, vid, snap, target, returned,
          panicked>>

(* Go types of the values stored in the cache. *)
SpecValue    == "CnsvSphereVolumeMigrationSpec"
MigrationPtr == "*CnsvSphereVolumeMigration"

CR == [name : 1 .. MaxCRs, path : Paths, vid : Vids]
CacheEntry == [type : {SpecValue, MigrationPtr}, vid : Vids]
PC == {"idle", "get_list", "get_store", "register", "save", "save_store",
       "del_list", "del", "load_store"}

TypeOK ==
  /\ cns \in [Paths -> Vids \cup {NoVol}]
  /\ crs \subseteq CR
  /\ nextName \in 0 .. MaxCRs
  /\ cache \in [Paths -> CacheEntry \cup {Miss}]
  /\ pc \in [Callers -> PC]
  /\ path \in [Callers -> Paths]
  /\ vid \in [Callers -> Vids \cup {NoVol}]
  /\ snap \in [Callers -> SUBSET (Paths \X Vids)]
  /\ target \in [Callers -> 0 .. MaxCRs]
  /\ returned \subseteq Paths \X Vids
  /\ panicked \in BOOLEAN

Init ==
  /\ cns = [p \in Paths |-> NoVol]
  /\ crs = {}
  /\ nextName = 0
  /\ cache = [p \in Paths |-> Miss]
  /\ pc = [c \in Callers |-> "idle"]
  /\ path = [c \in Callers |-> CHOOSE p \in Paths : TRUE]
  /\ vid = [c \in Callers |-> NoVol]
  /\ snap = [c \in Callers |-> {}]
  /\ target = [c \in Callers |-> 0]
  /\ returned = {}
  /\ panicked = FALSE

(* The CRs whose Spec.VolumePath is p. *)
CRsOf(p) == {r \in crs : r.path = p}

Goto(c, l) == pc' = [pc EXCEPT ![c] = l]

(* The process dies: in-flight calls are lost and so is the cache. *)
Restart ==
  /\ cache' = [p \in Paths |-> Miss]
  /\ pc' = [c \in Callers |-> "idle"]
  /\ vid' = [c \in Callers |-> NoVol]
  /\ snap' = [c \in Callers |-> {}]
  /\ UNCHANGED <<cns, crs, nextName, path, target, returned>>

Panic == Restart /\ panicked' = TRUE

(* A crash or restart of the controller for any other reason. *)
Crash == Restart /\ UNCHANGED panicked

-----------------------------------------------------------------------------
(* Plausible bugs of the code below, each the body of one definition with  *)
(* one change; the runs show that a property catches each.                 *)

(* GetVolumeInfo's loop without the VolumePath comparison. *)
GetListAnyPath(c) ==
  /\ pc[c] = "get_list"
  /\ \/ Panic
     \/ /\ crs = {}
        /\ Goto(c, "register")
        /\ UNCHANGED <<cns, crs, nextName, cache, vid, snap, target, returned, panicked>>
     \/ \E r \in crs :
          /\ vid' = [vid EXCEPT ![c] = r.vid]
          /\ Goto(c, "get_store")
          /\ UNCHANGED <<cns, crs, nextName, cache, snap, target, returned, panicked>>
  /\ UNCHANGED path

(* A CreateVolume that, for a disk CNS already knows, succeeds without     *)
(* handing back the registered volume's ID.                                *)
RegisterNoID(c) ==
  /\ pc[c] = "register"
  /\ \/ /\ Goto(c, "idle")
        /\ UNCHANGED <<cns, vid>>
     \/ /\ cns[path[c]] = NoVol
        /\ \E v \in Vids \ {cns[p] : p \in Paths} :
             /\ cns' = [cns EXCEPT ![path[c]] = v]
             /\ vid' = [vid EXCEPT ![c] = v]
        /\ Goto(c, "save")
     \/ /\ cns[path[c]] # NoVol
        /\ vid' = [vid EXCEPT ![c] = NoVol]
        /\ Goto(c, "save")
        /\ UNCHANGED cns
  /\ UNCHANGED <<crs, nextName, cache, path, snap, target, returned, panicked>>

(* registerVolume that goes on to SaveVolumeInfo when RegisterVolume       *)
(* failed (the early return dropped).                                      *)
RegisterIgnoreError(c) ==
  /\ pc[c] = "register"
  /\ \/ /\ Goto(c, "save")
        /\ UNCHANGED <<cns, vid>>
     \/ /\ cns[path[c]] = NoVol
        /\ \E v \in Vids \ {cns[p] : p \in Paths} :
             /\ cns' = [cns EXCEPT ![path[c]] = v]
             /\ vid' = [vid EXCEPT ![c] = v]
        /\ Goto(c, "save")
     \/ /\ cns[path[c]] # NoVol
        /\ vid' = [vid EXCEPT ![c] = cns[path[c]]]
        /\ Goto(c, "save")
        /\ UNCHANGED cns
  /\ UNCHANGED <<crs, nextName, cache, path, snap, target, returned, panicked>>

-----------------------------------------------------------------------------
(* registerVolume(ctx, volumePath, c): GetVolumeInfo, then on              *)
(* ErrVolumeNotRegistered RegisterVolume and SaveVolumeInfo.               *)

(* GetVolumeInfo looks the path up in the cache.  A hit is type-asserted   *)
(* to *CnsvSphereVolumeMigrationSpec, which neither type ever stored is:   *)
(* every hit panics, and the restart forgets the call.                     *)
RegisterCall(c, p) ==
  /\ pc[c] = "idle"
  /\ \/ /\ cache[p] = Miss
        /\ path' = [path EXCEPT ![c] = p]
        /\ Goto(c, "get_list")
        /\ UNCHANGED <<cns, crs, nextName, cache, vid, snap, target, returned, panicked>>
     \/ /\ cache[p] # Miss
        /\ Panic

(* On a miss GetVolumeInfo lists the CRs.  If the List fails, GetVolumeInfo *)
(* returns (nil, err); registerVolume, seeing an error other than          *)
(* ErrVolumeNotRegistered, reads VolumeID through the nil spec and panics. *)
(* If no CR has the path, registerVolume goes on to RegisterVolume.        *)
GetList(c) ==
  /\ pc[c] = "get_list"
  /\ \/ Panic
     \/ /\ CRsOf(path[c]) = {}
        /\ Goto(c, "register")
        /\ UNCHANGED <<cns, crs, nextName, cache, vid, snap, target, returned, panicked>>
     \/ \E r \in CRsOf(path[c]) :
          /\ vid' = [vid EXCEPT ![c] = r.vid]
          /\ Goto(c, "get_store")
          /\ UNCHANGED <<cns, crs, nextName, cache, snap, target, returned, panicked>>
  /\ UNCHANGED path

(* The CR found is cached (as a Spec value) and its VolumeID returned.     *)
GetStore(c) ==
  /\ pc[c] = "get_store"
  /\ cache' = [cache EXCEPT ![path[c]] = [type |-> SpecValue, vid |-> vid[c]]]
  /\ returned' = returned \cup {<<path[c], vid[c]>>}
  /\ Goto(c, "idle")
  /\ UNCHANGED <<cns, crs, nextName, path, vid, snap, target, panicked>>

(* RegisterVolume: GetVCenter and CNS CreateVolume with the disk's URL as  *)
(* backing.  Either may fail, and registerVolume returns the error.  CNS   *)
(* registers a disk at most once: for a disk already registered it fails   *)
(* or answers with the volume registered before.                           *)
Register(c) ==
  /\ pc[c] = "register"
  /\ \/ /\ Goto(c, "idle")
        /\ UNCHANGED <<cns, vid>>
     \/ /\ cns[path[c]] = NoVol
        /\ \E v \in Vids \ {cns[p] : p \in Paths} :
             /\ cns' = [cns EXCEPT ![path[c]] = v]
             /\ vid' = [vid EXCEPT ![c] = v]
        /\ Goto(c, "save")
     \/ /\ cns[path[c]] # NoVol
        /\ vid' = [vid EXCEPT ![c] = cns[path[c]]]
        /\ Goto(c, "save")
        /\ UNCHANGED cns
  /\ UNCHANGED <<crs, nextName, cache, path, snap, target, returned, panicked>>

(* SaveVolumeInfo creates the CR.  If the Create fails it returns the      *)
(* error, which registerVolume ignores: it returns the VolumeID anyway.     *)
Save(c) ==
  /\ pc[c] = "save"
  /\ \/ /\ nextName < MaxCRs
        /\ nextName' = nextName + 1
        /\ crs' = crs \cup {[name |-> nextName + 1, path |-> path[c],
                             vid |-> vid[c]]}
        /\ Goto(c, "save_store")
        /\ UNCHANGED returned
     \/ /\ returned' = returned \cup {<<path[c], vid[c]>>}
        /\ Goto(c, "idle")
        /\ UNCHANGED <<crs, nextName>>
  /\ UNCHANGED <<cns, cache, path, vid, snap, target, panicked>>

(* After a successful Create, SaveVolumeInfo caches the                    *)
(* *CnsvSphereVolumeMigration, and registerVolume returns the VolumeID.    *)
SaveStore(c) ==
  /\ pc[c] = "save_store"
  /\ cache' = [cache EXCEPT ![path[c]] = [type |-> MigrationPtr, vid |-> vid[c]]]
  /\ returned' = returned \cup {<<path[c], vid[c]>>}
  /\ Goto(c, "idle")
  /\ UNCHANGED <<cns, crs, nextName, path, vid, snap, target, panicked>>

-----------------------------------------------------------------------------
(* DeleteVolumeInfo(ctx, volumePath): list the CRs (returning the error if *)
(* the List fails), delete the first whose path matches, ignoring the      *)
(* error of Delete, then drop the cache entry.                             *)
DeleteCall(c, p) ==
  /\ pc[c] = "idle"
  /\ path' = [path EXCEPT ![c] = p]
  /\ Goto(c, "del_list")
  /\ UNCHANGED <<cns, crs, nextName, cache, vid, snap, target, returned, panicked>>

DeleteList(c) ==
  /\ pc[c] = "del_list"
  /\ \/ /\ Goto(c, "idle")
        /\ UNCHANGED target
     \/ /\ CRsOf(path[c]) = {}
        /\ target' = [target EXCEPT ![c] = 0]
        /\ Goto(c, "del")
     \/ \E r \in CRsOf(path[c]) :
          /\ target' = [target EXCEPT ![c] = r.name]
          /\ Goto(c, "del")
  /\ UNCHANGED <<cns, crs, nextName, cache, path, vid, snap, returned, panicked>>

(* migrationClient.Delete of the listed CR: it is gone, or the call fails  *)
(* and the error is dropped.  Either way the cache entry is deleted and    *)
(* DeleteVolumeInfo returns nil.                                           *)
DeleteCR(c) ==
  /\ pc[c] = "del"
  /\ \/ crs' = {r \in crs : r.name # target[c]}
     \/ UNCHANGED crs
  /\ cache' = [cache EXCEPT ![path[c]] = Miss]
  /\ Goto(c, "idle")
  /\ UNCHANGED <<cns, nextName, path, vid, snap, target, returned, panicked>>

-----------------------------------------------------------------------------
(* LoadAllVolumeInfo: list every CR (returning the error if the List       *)
(* fails), then store each one's Spec value under its VolumePath.          *)
LoadAllCall(c) ==
  /\ pc[c] = "idle"
  /\ \/ Goto(c, "idle") /\ UNCHANGED snap
     \/ /\ snap' = [snap EXCEPT ![c] = {<<r.path, r.vid>> : r \in crs}]
        /\ Goto(c, "load_store")
  /\ UNCHANGED <<cns, crs, nextName, cache, path, vid, target, returned, panicked>>

(* The stores run in list order: for a path listed twice the later wins.   *)
LoadAllStore(c) ==
  /\ pc[c] = "load_store"
  /\ \E choice \in [{e[1] : e \in snap[c]} -> Vids] :
       /\ \A p \in DOMAIN choice : <<p, choice[p]>> \in snap[c]
       /\ cache' = [p \in Paths |->
                      IF p \in DOMAIN choice
                        THEN [type |-> SpecValue, vid |-> choice[p]]
                        ELSE cache[p]]
  /\ snap' = [snap EXCEPT ![c] = {}]
  /\ Goto(c, "idle")
  /\ UNCHANGED <<cns, crs, nextName, path, vid, target, returned, panicked>>

-----------------------------------------------------------------------------
Next ==
  \/ \E c \in Callers, p \in Paths : RegisterCall(c, p) \/ DeleteCall(c, p)
  \/ \E c \in Callers :
       \/ GetList(c) \/ GetStore(c) \/ Register(c) \/ Save(c) \/ SaveStore(c)
       \/ DeleteList(c) \/ DeleteCR(c)
       \/ LoadAllCall(c) \/ LoadAllStore(c)
  \/ Crash

Spec == Init /\ [][Next]_vars

-----------------------------------------------------------------------------
(* PROPERTIES                                                              *)

(* Every VolumeID that registerVolume returned for a path, through any     *)
(* mix of cache hits, CR lookups, fresh registrations, concurrent calls    *)
(* and restarts, is the CNS volume registered with that path's disk.       *)
ReturnedIDMatchesPath == \A e \in returned : cns[e[1]] = e[2]

(* Every CR maps its VolumePath to the CNS volume of that disk: a CR is    *)
(* only written after CNS registered the disk.                             *)
CRsAgreeWithCNS == \A r \in crs : cns[r.path] = r.vid

(* GetVolumeInfo and registerVolume never panic (their comments promise a  *)
(* spec or an error).                                                      *)
NoPanic == ~panicked

(* The CRs are a mapping: at most one CR per VolumePath.                   *)
OneCRPerPath == \A r1, r2 \in crs : r1.path = r2.path => r1 = r2

(* The cache never holds a mapping that no CR backs: SaveVolumeInfo       *)
(* caches a mapping only after its CR is created, GetVolumeInfo and       *)
(* LoadAllVolumeInfo cache CRs they listed, and DeleteVolumeInfo removes  *)
(* the CR and the cache entry.                                             *)
CacheBackedByCR ==
  \A p \in Paths : cache[p] # Miss =>
    \E r \in CRsOf(p) : r.vid = cache[p].vid

(* When DeleteVolumeInfo deletes the CR it listed for the path and returns *)
(* nil, that CR is gone (its comment: it deletes the cached mapping and    *)
(* the Custom Resource for the volumePath).  Only the step in which the    *)
(* call returns counts: a restart that ends the call returns nothing.      *)
DeleteRemovesCR ==
  [][\A c \in Callers :
       DeleteCR(c) /\ target[c] # 0 => \A r \in crs' : r.name # target[c]]_vars


-----------------------------------------------------------------------------
(* The inductive strengthening of ReturnedIDMatchesPath and               *)
(* CRsAgreeWithCNS, proved in VolumeMigration_proofs: a goroutine about to *)
(* cache or save a VolumeID holds the CNS volume of its path.              *)
MappingInv ==
  /\ CRsAgreeWithCNS
  /\ ReturnedIDMatchesPath
  /\ \A c \in Callers :
       pc[c] \in {"get_store", "save", "save_store"} =>
         vid[c] \in Vids /\ cns[path[c]] = vid[c]

IInv == TypeOK /\ MappingInv

=============================================================================
