---------------------------- MODULE PolicyEngine ----------------------------
(***************************************************************************)
(* plugin/src/policy_engine.c: the policy in force is a snapshot behind    *)
(* one volatile pointer.  reload builds a new snapshot, swaps the pointer  *)
(* and destroys the old one; lookup_fixed takes the pointer without a lock *)
(* and its caller copies the address it got (ip_allocator.c:171-174).      *)
(*                                                                         *)
(* A snapshot occupies a chunk of the heap and is known by the edition of  *)
(* policy.yaml it was loaded from; free chunks are reused.                 *)
(***************************************************************************)
EXTENDS Naturals, Heap

CONSTANTS
  Reader,      (* threads in acquire_address *)
  Reloader,    (* threads in the plugin's reload *)
  MaxEdition   (* bound: editions of the file after the first *)

ASSUME PolicyAssumption ==
  /\ NULL \notin Chunk /\ NULL \notin Reloader /\ NULL \notin 0 .. MaxEdition
  /\ Chunk # {}
  /\ MaxEdition \in Nat

VARIABLES
  file,         (* the edition of policy.yaml on disk *)
  active,       (* this->active *)
  snapshot,     (* chunk -> the edition loaded into it, or NULL when free *)
  reload_lock,  (* the reloader that holds it, or NULL *)
  rpc,          (* the next step of each reader *)
  s,            (* each reader's local snapshot pointer *)
  lpc,          (* the next step of each reloader *)
  fresh,        (* each reloader's local pointers *)
  old

readerVars == <<rpc, s>>
reloaderVars == <<reload_lock, lpc, fresh, old>>
policyVars == <<file, active, snapshot, readerVars, reloaderVars>>

(* policy_engine_create: the first load succeeded. *)
PolicyInit ==
  /\ file = 0
  /\ active \in Chunk
  /\ snapshot = [c \in Chunk |-> IF c = active THEN 0 ELSE NULL]
  /\ reload_lock = NULL
  /\ rpc = [r \in Reader |-> "idle"]
  /\ s = [r \in Reader |-> NULL]
  /\ lpc = [p \in Reloader |-> "idle"]
  /\ fresh = [p \in Reloader |-> NULL]
  /\ old = [p \in Reloader |-> NULL]

(* The administrator saves policy.yaml. *)
edit ==
  /\ file < MaxEdition
  /\ file' = file + 1
  /\ UNCHANGED <<active, snapshot, readerVars, reloaderVars>>

(* lookup_fixed takes the pointer, follows it, and returns an address the  *)
(* snapshot owns, which its caller copies.                                 *)
lookup_fixed(r) ==
  /\ rpc[r] = "idle"
  /\ s' = [s EXCEPT ![r] = active]
  /\ rpc' = [rpc EXCEPT ![r] = "lookup"]
  /\ UNCHANGED <<file, active, snapshot, reloaderVars>>

lookup_table(r) ==
  /\ rpc[r] = "lookup"
  /\ rpc' = [rpc EXCEPT ![r] = "clone"]
  /\ UNCHANGED <<file, active, snapshot, s, reloaderVars>>

lookup_clone(r) ==
  /\ rpc[r] = "clone"
  /\ rpc' = [rpc EXCEPT ![r] = "idle"]
  /\ s' = [s EXCEPT ![r] = NULL]
  /\ UNCHANGED <<file, active, snapshot, reloaderVars>>

(* Faulty variants of reload and of the steps after it stand before them.  *)
(* This one does not wait for the lock.                                    *)
reload_Unlocked(p) ==
  /\ lpc[p] = "idle"
  /\ reload_lock' = p
  /\ lpc' = [lpc EXCEPT ![p] = "load"]
  /\ UNCHANGED <<file, active, snapshot, readerVars, fresh, old>>

reload(p) ==
  /\ lpc[p] = "idle"
  /\ reload_lock = NULL
  /\ reload_lock' = p
  /\ lpc' = [lpc EXCEPT ![p] = "load"]
  /\ UNCHANGED <<file, active, snapshot, readerVars, fresh, old>>

(* snapshot_load, at the chunk calloc returned. *)
snapshot_load(p) ==
  /\ lpc[p] = "load"
  /\ \E c \in Chunk :
        /\ snapshot[c] = NULL
        /\ snapshot' = [snapshot EXCEPT ![c] = file]
        /\ fresh' = [fresh EXCEPT ![p] = c]
  /\ lpc' = [lpc EXCEPT ![p] = "swap"]
  /\ UNCHANGED <<file, active, readerVars, reload_lock, old>>

(* Faulty: what the failed load had allocated is not freed. *)
snapshot_load_fails_Leaks(p) ==
  /\ lpc[p] = "load"
  /\ \E c \in Chunk :
        /\ snapshot[c] = NULL
        /\ snapshot' = [snapshot EXCEPT ![c] = file]
  /\ reload_lock' = NULL
  /\ lpc' = [lpc EXCEPT ![p] = "idle"]
  /\ UNCHANGED <<file, active, readerVars, fresh, old>>

(* Faulty: the failed load is not noticed. *)
snapshot_load_fails_Unnoticed(p) ==
  /\ lpc[p] = "load"
  /\ lpc' = [lpc EXCEPT ![p] = "swap"]
  /\ UNCHANGED <<file, active, snapshot, readerVars, reload_lock, fresh, old>>

(* Faulty: returns without unlocking. *)
snapshot_load_fails_Locked(p) ==
  /\ lpc[p] = "load"
  /\ lpc' = [lpc EXCEPT ![p] = "idle"]
  /\ UNCHANGED <<file, active, snapshot, readerVars, reload_lock, fresh, old>>

(* It failed and freed what it had allocated: the old policy stays. *)
snapshot_load_fails(p) ==
  /\ lpc[p] = "load"
  /\ reload_lock' = NULL
  /\ lpc' = [lpc EXCEPT ![p] = "idle"]
  /\ UNCHANGED <<file, active, snapshot, readerVars, fresh, old>>

reload_swap(p) ==
  /\ lpc[p] = "swap"
  /\ old' = [old EXCEPT ![p] = active]
  /\ active' = fresh[p]
  /\ fresh' = [fresh EXCEPT ![p] = NULL]
  /\ lpc' = [lpc EXCEPT ![p] = "unlock"]
  /\ UNCHANGED <<file, snapshot, readerVars, reload_lock>>

reload_unlock(p) ==
  /\ lpc[p] = "unlock"
  /\ reload_lock' = NULL
  /\ lpc' = [lpc EXCEPT ![p] = "destroy"]
  /\ UNCHANGED <<file, active, snapshot, readerVars, fresh, old>>

snapshot_destroy(p) ==
  /\ lpc[p] = "destroy"
  /\ snapshot' = [snapshot EXCEPT ![old[p]] = NULL]
  /\ old' = [old EXCEPT ![p] = NULL]
  /\ lpc' = [lpc EXCEPT ![p] = "idle"]
  /\ UNCHANGED <<file, active, readerVars, reload_lock, fresh>>

Looking(r) == lookup_fixed(r) \/ lookup_table(r) \/ lookup_clone(r)

Reloading(p) ==
  \/ snapshot_load(p)
  \/ snapshot_load_fails(p)
  \/ reload_swap(p)
  \/ reload_unlock(p)
  \/ snapshot_destroy(p)

PolicyNext ==
  \/ edit
  \/ \E r \in Reader : Looking(r)
  \/ \E p \in Reloader : reload(p) \/ Reloading(p)

PolicySpec == PolicyInit /\ [][PolicyNext]_policyVars

(* A reload that has begun goes on. *)
PolicyFairness == \A p \in Reloader : WF_policyVars(Reloading(p))

-----------------------------------------------------------------------------
PolicyTypeOK ==
  /\ file \in 0 .. MaxEdition
  /\ active \in Chunk
  /\ snapshot \in [Chunk -> 0 .. MaxEdition \cup {NULL}]
  /\ reload_lock \in Reloader \cup {NULL}
  /\ rpc \in [Reader -> {"idle", "lookup", "clone"}]
  /\ s \in [Reader -> Chunk \cup {NULL}]
  /\ lpc \in [Reloader -> {"idle", "load", "swap", "unlock", "destroy"}]
  /\ fresh \in [Reloader -> Chunk \cup {NULL}]
  /\ old \in [Reloader -> Chunk \cup {NULL}]

(* Whoever is responsible for snapshot c: the engine while it is active,   *)
(* a reloader that has loaded it or replaced it.                           *)
Owners(c) ==
  {p \in Reloader : fresh[p] = c} \cup {p \in Reloader : old[p] = c}
    \cup {o \in {NULL} : active = c}

(* Every snapshot has exactly one owner, so it is neither leaked nor freed *)
(* twice, and the one in force is never freed (policy_engine.c:146-150:    *)
(* old is read and replaced under the lock, destroyed after it).           *)
OneOwner ==
  \A c \in Chunk :
    IF snapshot[c] = NULL THEN Owners(c) = {} ELSE \E o \in Owners(c) : Owners(c) = {o}

(* A reload never puts an older edition of the file back in force, however *)
(* many reloads overlap: loading and swapping are one critical section.    *)
PolicyNeverGoesBack == [][snapshot[active] <= snapshot'[active']]_policyVars

(* Every reload that entered its critical section leaves it, whether the   *)
(* file loads or not.                                                      *)
ReloadsEnd == \A p \in Reloader : (reload_lock = p) ~> (reload_lock # p)

(* Readers follow pointers to snapshots that exist ("double buffer, atomic *)
(* switch, lock-free reads", policy_engine.h:13).  Violated: reload frees  *)
(* the old snapshot without waiting for the readers that hold it.          *)
ReadersSeeSnapshots == \A r \in Reader : rpc[r] # "idle" => snapshot[s[r]] # NULL
=============================================================================
