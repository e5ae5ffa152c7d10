------------------------- MODULE PolicyEngineProofs -------------------------
(***************************************************************************)
(* Proofs about PolicyEngine, for any number of readers, reloaders, chunks *)
(* and editions.  That a snapshot has one owner is not inductive by        *)
(* itself: it needs to know which local pointers a reloader holds at which *)
(* step.  That policies do not go back needs in addition that the lock     *)
(* keeps the active edition still from a load to its swap.                 *)
(***************************************************************************)
EXTENDS PolicyEngine, TLAPS

(* The lock is held from the load to the swap and a moment longer; fresh   *)
(* is set before the swap, old after it.                                   *)
ReloadPointers ==
  \A p \in Reloader :
    /\ lpc[p] \in {"load", "swap", "unlock"} <=> reload_lock = p
    /\ lpc[p] = "swap" <=> fresh[p] # NULL
    /\ lpc[p] \in {"unlock", "destroy"} <=> old[p] # NULL

(* No snapshot is newer than the file, none about to be put in force is    *)
(* older than the one in force.                                            *)
EditionsGrow ==
  /\ \A c \in Chunk : snapshot[c] # NULL => snapshot[c] <= file
  /\ \A p \in Reloader : fresh[p] # NULL => snapshot[active] <= snapshot[fresh[p]]

(* OneOwner, said of the pointers: they lead to snapshots, no two to the   *)
(* same one, and some pointer to every snapshot.                           *)
PointersApart ==
  /\ snapshot[active] # NULL
  /\ \A p \in Reloader : fresh[p] # NULL =>
        /\ snapshot[fresh[p]] # NULL /\ fresh[p] # active
        /\ \A q \in Reloader \ {p} : fresh[q] # fresh[p] /\ old[q] # fresh[p]
  /\ \A p \in Reloader : old[p] # NULL =>
        /\ snapshot[old[p]] # NULL /\ old[p] # active
        /\ \A q \in Reloader \ {p} : old[q] # old[p]
  /\ \A c \in Chunk : snapshot[c] # NULL =>
        active = c \/ \E p \in Reloader : fresh[p] = c \/ old[p] = c

PolicyInv == PolicyTypeOK /\ ReloadPointers /\ PointersApart /\ EditionsGrow

(* The facts about constants that steps use. *)
LEMMA PolicyConstants ==
  /\ NULL \notin Chunk /\ NULL \notin Reloader /\ NULL \notin 0 .. MaxEdition
  /\ MaxEdition \in Nat
BY PolicyAssumption

(* OneOwner follows from the pointers. *)
LEMMA OwnersOfPointers == PolicyTypeOK /\ PointersApart => OneOwner
<1>. USE DEF PointersApart
<1>. SUFFICES ASSUME PolicyTypeOK, PointersApart, NEW c \in Chunk
              PROVE  IF snapshot[c] = NULL THEN Owners(c) = {}
                     ELSE \E o \in Owners(c) : Owners(c) = {o}
  BY DEF OneOwner
<1>1. CASE snapshot[c] = NULL
  BY <1>1, PolicyConstants DEF Owners
<1>2. CASE snapshot[c] # NULL /\ active = c
  <2>1. Owners(c) = {NULL}
    BY <1>2, PolicyConstants DEF Owners
  <2>. QED  BY <1>2, <2>1
<1>3. CASE snapshot[c] # NULL /\ active # c
  <2>1. PICK p \in Reloader : fresh[p] = c \/ old[p] = c
    BY <1>3
  <2>2. Owners(c) = {p}
    BY <1>3, <2>1, PolicyConstants DEF Owners
  <2>. QED  BY <1>3, <2>2
<1>. QED  BY <1>1, <1>2, <1>3

(* The first load. *)
LEMMA PolicyInitOK == PolicyInit => PolicyInv
<1>. SUFFICES ASSUME PolicyInit PROVE PolicyInv
  OBVIOUS
<1>1. PolicyTypeOK
  BY PolicyConstants DEF PolicyInit, PolicyTypeOK
<1>2. PointersApart
  BY <1>1, PolicyConstants DEF PolicyInit, PointersApart
<1>3. ReloadPointers /\ EditionsGrow
  BY PolicyConstants DEF PolicyInit, ReloadPointers, EditionsGrow
<1>. QED  BY <1>1, <1>2, <1>3 DEF PolicyInv

(* Steps that move no pointer and no snapshot: edits, readers, the lock.   *)
LEMMA QuietOK ==
  ASSUME PolicyInv, UNCHANGED <<active, snapshot, fresh, old>>,
         PolicyTypeOK', ReloadPointers', file <= file'
  PROVE  PolicyInv'
<1>1. PointersApart'
  BY DEF PolicyInv, PointersApart
<1>2. EditionsGrow'
  BY PolicyConstants DEF PolicyInv, EditionsGrow, PolicyTypeOK
<1>. QED  BY <1>1, <1>2 DEF PolicyInv

LEMMA EditOK == ASSUME PolicyInv, edit PROVE PolicyInv'
<1>1. PolicyTypeOK' /\ ReloadPointers' /\ file <= file'
  BY PolicyConstants DEF edit, PolicyInv, PolicyTypeOK, ReloadPointers, readerVars, reloaderVars
<1>. QED  BY <1>1, QuietOK DEF edit, reloaderVars

LEMMA LookingOK == ASSUME PolicyInv, NEW r \in Reader, Looking(r) PROVE PolicyInv'
<1>1. PolicyTypeOK' /\ ReloadPointers' /\ file <= file'
  BY PolicyConstants
     DEF Looking, lookup_fixed, lookup_table, lookup_clone,
         PolicyInv, PolicyTypeOK, ReloadPointers, reloaderVars
<1>. QED  BY <1>1, QuietOK DEF Looking, lookup_fixed, lookup_table, lookup_clone, reloaderVars

LEMMA LockingOK ==
  ASSUME PolicyInv, NEW p \in Reloader,
         reload(p) \/ snapshot_load_fails(p) \/ reload_unlock(p)
  PROVE  PolicyInv'
<1>1. PolicyTypeOK' /\ file <= file'
  BY DEF reload, snapshot_load_fails, reload_unlock, PolicyInv, PolicyTypeOK, readerVars
<1>2. ReloadPointers'
  BY PolicyConstants
     DEF reload, snapshot_load_fails, reload_unlock, PolicyInv, PolicyTypeOK, ReloadPointers
<1>. QED  BY <1>1, <1>2, QuietOK DEF reload, snapshot_load_fails, reload_unlock

(* A load takes a free chunk, which nobody points to, and the edition of   *)
(* the file, which the active one does not exceed.                         *)
LEMMA LoadOK == ASSUME PolicyInv, NEW p \in Reloader, snapshot_load(p) PROVE PolicyInv'
<1>1. PICK c \in Chunk : /\ snapshot[c] = NULL
                         /\ snapshot' = [snapshot EXCEPT ![c] = file]
                         /\ fresh' = [fresh EXCEPT ![p] = c]
  BY DEF snapshot_load
<1>2. PolicyTypeOK'
  BY <1>1 DEF snapshot_load, PolicyInv, PolicyTypeOK, readerVars
<1>3. ReloadPointers'
  BY <1>1, PolicyConstants DEF snapshot_load, PolicyInv, PolicyTypeOK, ReloadPointers
<1>4. PointersApart'
  <2>1. /\ fresh[p] = NULL /\ active' = active /\ old' = old /\ active # c
        /\ \A q \in Reloader : old[q] # c /\ fresh[q] # c
        /\ snapshot'[c] # NULL
        /\ \A d \in Chunk \ {c} : snapshot'[d] = snapshot[d]
    BY <1>1, PolicyConstants
       DEF PointersApart, snapshot_load, PolicyInv, PolicyTypeOK, ReloadPointers
  <2>2. snapshot'[active'] # NULL
    BY <2>1 DEF PointersApart, PolicyInv, PolicyTypeOK
  <2>3. ASSUME NEW q \in Reloader, fresh'[q] # NULL
        PROVE  /\ snapshot'[fresh'[q]] # NULL /\ fresh'[q] # active'
               /\ \A r \in Reloader \ {q} : fresh'[r] # fresh'[q] /\ old'[r] # fresh'[q]
    BY <1>1, <2>1, <2>3 DEF PointersApart, PolicyInv, PolicyTypeOK
  <2>4. ASSUME NEW q \in Reloader, old'[q] # NULL
        PROVE  /\ snapshot'[old'[q]] # NULL /\ old'[q] # active'
               /\ \A r \in Reloader \ {q} : old'[r] # old'[q]
    BY <1>1, <2>1, <2>4 DEF PointersApart, PolicyInv, PolicyTypeOK
  <2>5. ASSUME NEW d \in Chunk, snapshot'[d] # NULL
        PROVE  active' = d \/ \E q \in Reloader : fresh'[q] = d \/ old'[q] = d
    <3>1. CASE d = c
      BY <1>1, <3>1 DEF PolicyInv, PolicyTypeOK
    <3>2. CASE d # c
      <4>1. active = d \/ \E q \in Reloader : fresh[q] = d \/ old[q] = d
        BY <2>1, <2>5, <3>2 DEF PointersApart, PolicyInv
      <4>. QED  BY <1>1, <2>1, <4>1, PolicyConstants DEF PolicyInv, PolicyTypeOK
    <3>. QED  BY <3>1, <3>2
  <2>. QED  BY <2>2, <2>3, <2>4, <2>5 DEF PointersApart
<1>5. EditionsGrow'
  <2>1. /\ file \in Nat /\ file' = file /\ active' = active
        /\ snapshot[active] \in Nat /\ snapshot[active] <= file /\ active # c
    BY <1>1, PolicyConstants
       DEF PointersApart, snapshot_load, PolicyInv, PolicyTypeOK, EditionsGrow
  <2>2. \A q \in Reloader \ {p} : fresh'[q] = fresh[q] /\ fresh[q] = NULL
    BY <1>1 DEF snapshot_load, PolicyInv, PolicyTypeOK, ReloadPointers
  <2>. QED  BY <1>1, <2>1, <2>2 DEF PolicyInv, PolicyTypeOK, EditionsGrow
<1>. QED  BY <1>2, <1>3, <1>4, <1>5 DEF PolicyInv

(* The swap hands the new snapshot to the engine and the old one to p.     *)
LEMMA SwapOK == ASSUME PolicyInv, NEW p \in Reloader, reload_swap(p) PROVE PolicyInv'
<1>1. PolicyTypeOK'
  BY DEF PointersApart, reload_swap, PolicyInv, PolicyTypeOK, ReloadPointers, readerVars
<1>2. ReloadPointers'
  BY PolicyConstants DEF reload_swap, PolicyInv, PolicyTypeOK, ReloadPointers
<1>3. /\ fresh[p] # NULL /\ old[p] = NULL
      /\ \A q \in Reloader \ {p} : fresh[q] = NULL /\ fresh'[q] = NULL /\ old'[q] = old[q]
      /\ fresh'[p] = NULL /\ old'[p] = active /\ active' = fresh[p] /\ snapshot' = snapshot
  BY PolicyConstants DEF reload_swap, PolicyInv, PolicyTypeOK, ReloadPointers
<1>4. PointersApart'
  <2>1. \A c \in Chunk : snapshot'[c] # NULL =>
          active' = c \/ \E q \in Reloader : fresh'[q] = c \/ old'[q] = c
    BY <1>3, PolicyConstants DEF PointersApart, PolicyInv, PolicyTypeOK
  <2>2. \A q \in Reloader : old'[q] # NULL =>
          /\ snapshot'[old'[q]] # NULL /\ old'[q] # active'
          /\ \A r \in Reloader \ {q} : old'[r] # old'[q]
    BY <1>3, PolicyConstants DEF PointersApart, PolicyInv, PolicyTypeOK
  <2>3. snapshot'[active'] # NULL
    BY <1>3 DEF PointersApart, PolicyInv
  <2>4. \A q \in Reloader : fresh'[q] = NULL
    BY <1>3
  <2>. QED  BY <2>1, <2>2, <2>3, <2>4 DEF PointersApart
<1>5. EditionsGrow'
  BY <1>3 DEF reload_swap, PolicyInv, EditionsGrow
<1>. QED  BY <1>1, <1>2, <1>4, <1>5 DEF PolicyInv

(* The old snapshot is p's alone. *)
LEMMA DestroyOK == ASSUME PolicyInv, NEW p \in Reloader, snapshot_destroy(p) PROVE PolicyInv'
<1>1. /\ old[p] \in Chunk /\ old[p] # active
      /\ snapshot' = [snapshot EXCEPT ![old[p]] = NULL]
      /\ old' = [old EXCEPT ![p] = NULL]
      /\ active' = active /\ fresh' = fresh /\ file' = file
      /\ \A q \in Reloader : fresh[q] # old[p]
      /\ \A q \in Reloader \ {p} : old[q] # old[p]
      /\ fresh[p] = NULL
  BY PolicyConstants
     DEF PointersApart, snapshot_destroy, PolicyInv, PolicyTypeOK, ReloadPointers
<1>2. PolicyTypeOK'
  BY <1>1 DEF snapshot_destroy, PolicyInv, PolicyTypeOK, readerVars
<1>3. ReloadPointers'
  BY <1>1, PolicyConstants DEF snapshot_destroy, PolicyInv, PolicyTypeOK, ReloadPointers
<1>4. PointersApart'
  <2>1. \A c \in Chunk \ {old[p]} : snapshot'[c] = snapshot[c]
    BY <1>1 DEF PolicyInv, PolicyTypeOK
  <2>2. snapshot'[old[p]] = NULL
    BY <1>1 DEF PolicyInv, PolicyTypeOK
  <2>3. ASSUME NEW c \in Chunk, snapshot'[c] # NULL
        PROVE  active' = c \/ \E q \in Reloader : fresh'[q] = c \/ old'[q] = c
    <3>1. c # old[p] /\ snapshot[c] # NULL
      BY <2>1, <2>2, <2>3
    <3>2. active = c \/ \E q \in Reloader : fresh[q] = c \/ old[q] = c
      BY <3>1 DEF PointersApart, PolicyInv
    <3>. QED  BY <1>1, <3>1, <3>2 DEF PolicyInv, PolicyTypeOK
  <2>4. snapshot'[active'] # NULL
    BY <1>1, <2>1 DEF PointersApart, PolicyInv, PolicyTypeOK
  <2>5. \A q \in Reloader : fresh'[q] # NULL =>
          /\ snapshot'[fresh'[q]] # NULL /\ fresh'[q] # active'
          /\ \A r \in Reloader \ {q} : fresh'[r] # fresh'[q] /\ old'[r] # fresh'[q]
    BY <1>1, <2>1 DEF PointersApart, PolicyInv, PolicyTypeOK
  <2>6. \A q \in Reloader : old'[q] # NULL =>
          /\ snapshot'[old'[q]] # NULL /\ old'[q] # active'
          /\ \A r \in Reloader \ {q} : old'[r] # old'[q]
    BY <1>1, <2>1 DEF PointersApart, PolicyInv, PolicyTypeOK
  <2>. QED  BY <2>3, <2>4, <2>5, <2>6 DEF PointersApart
<1>5. EditionsGrow'
  BY <1>1 DEF PointersApart, PolicyInv, PolicyTypeOK, EditionsGrow
<1>. QED  BY <1>2, <1>3, <1>4, <1>5 DEF PolicyInv

LEMMA PolicyStepOK == PolicyInv /\ [PolicyNext]_policyVars => PolicyInv'
<1>. SUFFICES ASSUME PolicyInv, [PolicyNext]_policyVars PROVE PolicyInv'
  OBVIOUS
<1>1. ASSUME NEW p \in Reloader, reload(p) \/ Reloading(p) PROVE PolicyInv'
  BY <1>1, LockingOK, LoadOK, SwapOK, DestroyOK DEF Reloading
<1>2. CASE UNCHANGED policyVars
  BY <1>2 DEF policyVars, readerVars, reloaderVars, PolicyInv, PolicyTypeOK,
              ReloadPointers, PointersApart, EditionsGrow
<1>. QED  BY <1>1, <1>2, EditOK, LookingOK DEF PolicyNext

(* Every snapshot has exactly one owner, however many reloads overlap and  *)
(* whichever of them fail: none is leaked, none freed twice, the one in    *)
(* force never (policy_engine.c:133-152).                                  *)
THEOREM SnapshotsOwned == PolicySpec => []OneOwner
<1>1. PolicyInv => OneOwner
  BY OwnersOfPointers DEF PolicyInv
<1>. QED  BY <1>1, PolicyInitOK, PolicyStepOK, PTL DEF PolicySpec

(* Every variable keeps to its type; in particular the pointer in force    *)
(* always leads somewhere.                                                 *)
THEOREM PolicyTypeCorrect == PolicySpec => []PolicyTypeOK
<1>1. PolicyInv => PolicyTypeOK
  BY DEF PolicyInv
<1>. QED  BY <1>1, PolicyInitOK, PolicyStepOK, PTL DEF PolicySpec

(* No step puts an older edition in force than the one that is: only a     *)
(* swap changes the active snapshot, and what it puts in force was loaded  *)
(* under the lock, after the active one (policy_engine.c:138-148).         *)
THEOREM PolicyAdvances == PolicySpec => PolicyNeverGoesBack
<1>1. ASSUME PolicyInv, [PolicyNext]_policyVars
      PROVE  snapshot[active] <= snapshot'[active']
  <2>0. snapshot[active] \in 0 .. MaxEdition /\ active \in Chunk
    BY <1>1 DEF PointersApart, PolicyInv, PolicyTypeOK
  <2>1. ASSUME NEW p \in Reloader, reload_swap(p)
        PROVE  snapshot[active] <= snapshot'[active']
    BY <1>1, <2>1 DEF reload_swap, PolicyInv, ReloadPointers, EditionsGrow
  <2>2. ASSUME NEW p \in Reloader, snapshot_load(p)
        PROVE  snapshot'[active'] = snapshot[active]
    BY <1>1, <2>0, <2>2, PolicyConstants DEF snapshot_load, PolicyInv, PolicyTypeOK
  <2>3. ASSUME NEW p \in Reloader, snapshot_destroy(p)
        PROVE  snapshot'[active'] = snapshot[active]
    <3>1. old[p] # active /\ old[p] \in Chunk
      BY <1>1, <2>3 DEF PointersApart, snapshot_destroy, PolicyInv, PolicyTypeOK, ReloadPointers
    <3>. QED  BY <1>1, <2>0, <2>3, <3>1 DEF snapshot_destroy, PolicyInv, PolicyTypeOK
  <2>4. CASE UNCHANGED <<active, snapshot>>
    BY <2>0, <2>4
  <2>5. CASE UNCHANGED policyVars
    BY <2>4, <2>5 DEF policyVars
  <2>6. ASSUME NEW p \in Reloader,
               reload(p) \/ snapshot_load_fails(p) \/ reload_unlock(p)
        PROVE  UNCHANGED <<active, snapshot>>
    BY <2>6 DEF reload, snapshot_load_fails, reload_unlock
  <2>7. ASSUME edit \/ \E r \in Reader : Looking(r)
        PROVE  UNCHANGED <<active, snapshot>>
    BY <2>7 DEF edit, Looking, lookup_fixed, lookup_table, lookup_clone
  <2>. QED  BY <1>1, <2>0, <2>1, <2>2, <2>3, <2>4, <2>5, <2>6, <2>7
            DEF PolicyNext, Reloading
<1>2. PolicyInv /\ [PolicyNext]_policyVars => [snapshot[active] <= snapshot'[active']]_policyVars
  BY <1>1
<1>. QED  BY <1>2, PolicyInitOK, PolicyStepOK, PTL DEF PolicySpec, PolicyNeverGoesBack
=============================================================================
