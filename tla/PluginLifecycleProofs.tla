------------------------ MODULE PluginLifecycleProofs ------------------------
(***************************************************************************)
(* Proofs about PluginLifecycle, for any number of workers.  Neither the   *)
(* reference count nor the quiet after an unload is inductive alone:       *)
(* whether a reference is the last one depends on where the loader and the *)
(* job stand relative to each other, and a sweep is excluded only because  *)
(* terminating is set while nobody holds sweep_lock.                       *)
(***************************************************************************)
EXTENDS PluginLifecycle, TLAPS

(* While anyone holds the object it is complete and counts its holders;    *)
(* before that the loader is alone with it.                                *)
ObjectHeld ==
  /\ LoaderHolds \/ JobHolds =>
       /\ exists /\ built = 3
       /\ refcnt = (IF LoaderHolds THEN 1 ELSE 0) + (IF JobHolds THEN 1 ELSE 0)
  /\ loader = "start" => ~exists /\ built = 0 /\ refcnt = 0
  /\ loader = "building" => exists /\ built < 3 /\ refcnt = 1

(* The job lives from its creation to the loader's last steps at most; one *)
(* of them frees the object.                                               *)
LastOne ==
  /\ job # "none" =>
       loader \in {"registered", "remove_provider", "remove_listener", "terminate",
                   "unregistered", "destroying", "gone"}
  /\ loader = "destroying" => job \in {"none", "gone"}
  /\ job = "destroying" => loader = "gone"

(* Calls come only through a registration, which ends before the unload    *)
(* goes on.                                                                *)
CallsRegistered ==
  /\ provider => loader \in {"add_listener", "ref", "queue_job", "registered",
                             "remove_provider"}
  /\ listener => loader \in {"ref", "queue_job", "registered", "remove_provider",
                             "remove_listener"}
  /\ \A t \in Thread : /\ call[t] = "provider" => provider
                       /\ call[t] = "listener" => listener

(* A sweep holds the lock and the flag is not set while it runs. *)
SweepLocked ==
  /\ sweep_lock = "job" <=> job \in {"sweep", "unlock"}
  /\ job = "sweep" => ~terminating
  /\ loader \in {"unregistered", "destroying", "gone"} /\ job # "none" => terminating

LifecycleInv ==
  LifecycleTypeOK /\ ObjectHeld /\ LastOne /\ CallsRegistered /\ SweepLocked

LEMMA LifecycleInitOK == LifecycleInit => LifecycleInv
<1>. SUFFICES ASSUME LifecycleInit PROVE LifecycleInv
  OBVIOUS
<1>1. exists \in BOOLEAN /\ terminating \in BOOLEAN /\ provider \in BOOLEAN /\ listener \in BOOLEAN
  BY DEF LifecycleInit
<1>. QED
  BY <1>1 DEF LifecycleInit, LifecycleInv, LifecycleTypeOK, ObjectHeld, LastOne, CallsRegistered,
       SweepLocked, LoaderHolds, JobHolds, LoaderStep, JobStep, Registered

LEMMA CreatingOK ==
  ASSUME LifecycleInv, Creating \/ destroy_internal_loader PROVE LifecycleInv'
<1>. USE DEF LifecycleInv, objectVars, registryVars, LoaderStep, JobStep, Registered
<1>1. LifecycleTypeOK'
  <2>1. exists' \in BOOLEAN
    BY DEF Creating, user_policy_plugin_create, build, build_fails, destroy_internal_loader,
           DestroyInternal, LifecycleTypeOK
  <2>2. built' \in 0 .. 3 /\ refcnt' \in 0 .. 2
    BY DEF Creating, user_policy_plugin_create, build, build_fails, destroy_internal_loader,
           DestroyInternal, LifecycleTypeOK, ObjectHeld
  <2>3. loader' \in LoaderStep
    BY DEF Creating, user_policy_plugin_create, build, build_fails, destroy_internal_loader
  <2>4. UNCHANGED <<job, call, terminating, sweep_lock, provider, listener, visit>>
    BY DEF Creating, user_policy_plugin_create, build, build_fails, destroy_internal_loader,
           DestroyInternal
  <2>. QED  BY <2>1, <2>2, <2>3, <2>4 DEF LifecycleTypeOK
<1>2. ObjectHeld' /\ LastOne'
  BY DEF Creating, user_policy_plugin_create, build, build_fails, destroy_internal_loader,
         DestroyInternal, LifecycleTypeOK, ObjectHeld, LastOne, LoaderHolds, JobHolds
<1>3. CallsRegistered' /\ SweepLocked'
  BY DEF Creating, user_policy_plugin_create, build, build_fails, destroy_internal_loader,
         DestroyInternal, LastOne, CallsRegistered, SweepLocked
<1>. QED  BY <1>1, <1>2, <1>3

LEMMA RegisteringOK == ASSUME LifecycleInv, Registering PROVE LifecycleInv'
<1>. USE DEF LifecycleInv, objectVars, registryVars, LoaderStep, JobStep, Registered
<1>1. LifecycleTypeOK'
  <2>1. provider' \in BOOLEAN /\ listener' \in BOOLEAN
    BY DEF Registering, add_provider, add_listener, plugin_ref, queue_job, create_job_fails,
           LifecycleTypeOK
  <2>2. refcnt' \in 0 .. 2
    BY DEF Registering, add_provider, add_listener, plugin_ref, queue_job, create_job_fails,
           LifecycleTypeOK, ObjectHeld, LoaderHolds, JobHolds, LastOne
  <2>3. loader' \in LoaderStep /\ job' \in JobStep
    BY DEF Registering, add_provider, add_listener, plugin_ref, queue_job, create_job_fails,
           LifecycleTypeOK
  <2>4. UNCHANGED <<call, exists, built, terminating, sweep_lock, visit>>
    BY DEF Registering, add_provider, add_listener, plugin_ref, queue_job, create_job_fails
  <2>. QED  BY <2>1, <2>2, <2>3, <2>4 DEF LifecycleTypeOK
<1>2. ObjectHeld' /\ LastOne'
  BY DEF Registering, add_provider, add_listener, plugin_ref, queue_job, create_job_fails,
         LifecycleTypeOK, ObjectHeld, LastOne, LoaderHolds, JobHolds
<1>3. CallsRegistered' /\ SweepLocked'
  BY DEF Registering, add_provider, add_listener, plugin_ref, queue_job, create_job_fails,
         LastOne, CallsRegistered, SweepLocked
<1>. QED  BY <1>1, <1>2, <1>3

(* remove_provider and remove_listener find no call in progress, terminate *)
(* finds no sweep.                                                         *)
LEMMA UnregisteringOK ==
  ASSUME LifecycleInv, unregister \/ Unregistering PROVE LifecycleInv'
<1>. USE DEF LifecycleInv, objectVars, registryVars, LoaderStep, JobStep, Registered
<1>1. LifecycleTypeOK'
  BY DEF unregister, Unregistering, remove_provider, remove_listener, terminate,
         LifecycleTypeOK
<1>2. ObjectHeld' /\ LastOne'
  BY DEF unregister, Unregistering, remove_provider, remove_listener, terminate,
         ObjectHeld, LastOne, LoaderHolds, JobHolds
<1>3. CallsRegistered' /\ SweepLocked'
  BY DEF unregister, Unregistering, remove_provider, remove_listener, terminate,
         LifecycleTypeOK, LastOne, CallsRegistered, SweepLocked
<1>. QED  BY <1>1, <1>2, <1>3

(* The loader's reference is the last one exactly when no job has one.     *)
LEMMA DestroyOK == ASSUME LifecycleInv, destroy PROVE LifecycleInv'
<1>. USE DEF LifecycleInv, objectVars, registryVars, LoaderStep, JobStep, Registered
<1>1. LifecycleTypeOK'
  BY DEF destroy, AfterUnref, LifecycleTypeOK, ObjectHeld, LoaderHolds
<1>2. ObjectHeld' /\ LastOne'
  BY DEF destroy, AfterUnref, LifecycleTypeOK, ObjectHeld, LastOne, LoaderHolds, JobHolds
<1>3. CallsRegistered' /\ SweepLocked'
  BY DEF destroy, AfterUnref, LastOne, CallsRegistered, SweepLocked
<1>. QED  BY <1>1, <1>2, <1>3

LEMMA SweepJobOK ==
  ASSUME LifecycleInv, SweepJob \/ discard \/ \E t \in Thread : sweep_checkout(t)
  PROVE  LifecycleInv'
<1>. USE DEF LifecycleInv, objectVars, registryVars, LoaderStep, JobStep, Registered
<1>1. ASSUME sweep_cb \/ sweep_begin \/ sweep_end \/ sweep_unlock \/ sweep_requeue
             \/ discard \/ \E t \in Thread : sweep_checkout(t)
      PROVE  LifecycleInv'
  <2>1. LifecycleTypeOK'
    BY <1>1 DEF sweep_cb, sweep_begin, MaySweep, sweep_end, sweep_unlock, sweep_requeue,
                discard, sweep_checkout, LifecycleTypeOK
  <2>2. ObjectHeld' /\ LastOne'
    BY <1>1 DEF sweep_cb, sweep_begin, MaySweep, sweep_end, sweep_unlock, sweep_requeue,
                discard, sweep_checkout, ObjectHeld, LastOne, LoaderHolds, JobHolds
  <2>3. CallsRegistered' /\ SweepLocked'
    BY <1>1 DEF sweep_cb, sweep_begin, MaySweep, sweep_end, sweep_unlock, sweep_requeue,
                discard, sweep_checkout, LifecycleTypeOK, CallsRegistered, SweepLocked
  <2>. QED  BY <2>1, <2>2, <2>3
<1>2. ASSUME sweep_cleanup PROVE LifecycleInv'
  <2>1. LifecycleTypeOK'
    BY <1>2 DEF sweep_cleanup, AfterUnref, LifecycleTypeOK, ObjectHeld, JobHolds
  <2>2. ObjectHeld' /\ LastOne'
    BY <1>2 DEF sweep_cleanup, AfterUnref, LifecycleTypeOK, ObjectHeld, LastOne,
                LoaderHolds, JobHolds
  <2>3. CallsRegistered' /\ SweepLocked'
    BY <1>2 DEF sweep_cleanup, AfterUnref, CallsRegistered, SweepLocked
  <2>. QED  BY <2>1, <2>2, <2>3
<1>3. ASSUME destroy_internal_job PROVE LifecycleInv'
  <2>1. LifecycleTypeOK'
    <3>1. exists' \in BOOLEAN
      BY <1>3 DEF destroy_internal_job, DestroyInternal, LifecycleTypeOK
    <3>2. built' \in 0 .. 3
      BY <1>3 DEF destroy_internal_job, DestroyInternal, LifecycleTypeOK
    <3>3. job' \in JobStep
      BY <1>3 DEF destroy_internal_job
    <3>4. UNCHANGED <<loader, call, refcnt, terminating, sweep_lock, provider, listener, visit>>
      BY <1>3 DEF destroy_internal_job, DestroyInternal
    <3>. QED  BY <3>1, <3>2, <3>3, <3>4 DEF LifecycleTypeOK
  <2>2. ObjectHeld' /\ LastOne'
    BY <1>3 DEF destroy_internal_job, DestroyInternal, ObjectHeld, LastOne,
                LoaderHolds, JobHolds
  <2>3. CallsRegistered' /\ SweepLocked'
    BY <1>3 DEF destroy_internal_job, DestroyInternal, CallsRegistered, SweepLocked
  <2>. QED  BY <2>1, <2>2, <2>3
<1>. QED  BY <1>1, <1>2, <1>3 DEF SweepJob

LEMMA WorkerOK ==
  ASSUME LifecycleInv, NEW t \in Thread,
         begin_work(t) \/ finish(t) \/ call_provider(t) \/ call_listener(t)
  PROVE  LifecycleInv'
<1>. USE DEF LifecycleInv, objectVars, registryVars
<1>1. LifecycleTypeOK' /\ CallsRegistered'
  BY DEF begin_work, finish, call_provider, call_listener, LifecycleTypeOK, CallsRegistered
<1>2. ObjectHeld' /\ LastOne' /\ SweepLocked'
  BY DEF begin_work, finish, call_provider, call_listener, ObjectHeld, LastOne,
         SweepLocked, LoaderHolds, JobHolds
<1>. QED  BY <1>1, <1>2

LEMMA LifecycleStepOK == LifecycleInv /\ [LifecycleNext]_pluginVars => LifecycleInv'
<1>. SUFFICES ASSUME LifecycleInv, [LifecycleNext]_pluginVars PROVE LifecycleInv'
  OBVIOUS
<1>1. CASE UNCHANGED pluginVars
  BY <1>1 DEF pluginVars, objectVars, registryVars, LifecycleInv, LifecycleTypeOK, ObjectHeld,
              LastOne, CallsRegistered, SweepLocked, LoaderHolds, JobHolds
<1>. QED  BY <1>1, CreatingOK, RegisteringOK, UnregisteringOK, DestroyOK, SweepJobOK, WorkerOK
          DEF LifecycleNext

LEMMA LifecycleInvariant == LifecycleSpec => []LifecycleInv
BY LifecycleInitOK, LifecycleStepOK, PTL DEF LifecycleSpec

(* Each user of the plugin object has one reference, also when creating    *)
(* the job fails (plugin.c:165-176).                                       *)
THEOREM ReferencesCounted == LifecycleSpec => []RefsAreHolders
<1>1. LifecycleInv => RefsAreHolders
  BY DEF LifecycleInv, ObjectHeld, RefsAreHolders
<1>. QED  BY <1>1, LifecycleInvariant, PTL

(* The object and its components outlive every call, every sweep and the   *)
(* queued job, and are freed once (README.md:233).                         *)
THEOREM NoUseAfterFree == LifecycleSpec => []FreedAfterLastUse
<1>1. LifecycleInv => FreedAfterLastUse
  BY DEF LifecycleInv, ObjectHeld, LastOne, CallsRegistered, LifecycleTypeOK,
         FreedAfterLastUse, LoaderHolds, InPlugin, Registered
<1>. QED  BY <1>1, LifecycleInvariant, PTL

(* When the unregistration has returned no thread is inside the plugin and *)
(* no sweep runs or will (plugin.c:110-115, 186-188).                      *)
THEOREM UnloadIsQuiet == LifecycleSpec => []QuietAfterUnregister
<1>1. LifecycleInv => QuietAfterUnregister
  BY DEF LifecycleInv, CallsRegistered, SweepLocked, LifecycleTypeOK,
         QuietAfterUnregister, InPlugin
<1>. QED  BY <1>1, LifecycleInvariant, PTL
=============================================================================
