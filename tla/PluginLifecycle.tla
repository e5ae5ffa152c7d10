--------------------------- MODULE PluginLifecycle ---------------------------
(***************************************************************************)
(* plugin/src/plugin.c: creation, registration, the periodic sweep job and *)
(* unloading, with the create and destroy functions of the components.     *)
(*                                                                         *)
(* Three kinds of threads meet: charon's plugin loader, whichever worker   *)
(* runs the sweep job, and the workers that process IKE_SAs and call the   *)
(* plugin as an attribute provider and as a listener.  The plugin object   *)
(* is shared by the loader and the job and freed by whoever drops the last *)
(* of their references; components are freed with it, last one first.      *)
(*                                                                         *)
(* charon's side follows from how the plugin uses it: remove_provider and  *)
(* remove_listener wait for calls in progress, checkout_by_id waits for an *)
(* IKE_SA another thread has checked out, and a job ends by returning      *)
(* JOB_REQUEUE_NONE or because charon discards it while it is queued.      *)
(***************************************************************************)
EXTENDS Naturals

CONSTANT Thread   (* charon's workers, each with an IKE_SA of its own *)

VARIABLES
  loader,       (* the loader's next step *)
  job,          (* the sweep job's next step *)
  call,         (* what each worker is doing *)
  exists,       (* the plugin object is allocated *)
  built,        (* how many of policy, allocator and listener exist *)
  refcnt,
  terminating,
  sweep_lock,   (* "free", or who holds it *)
  provider,     (* registered with charon->attributes *)
  listener,     (* registered with charon->bus *)
  visit         (* the workers whose IKE_SAs this sweep still checks out *)

objectVars == <<exists, built, refcnt>>
registryVars == <<provider, listener>>
pluginVars == <<loader, job, call, objectVars, terminating, sweep_lock, registryVars, visit>>

LifecycleInit ==
  /\ loader = "start" /\ job = "none"
  /\ call = [t \in Thread |-> "idle"]
  /\ exists = FALSE /\ built = 0 /\ refcnt = 0
  /\ terminating = FALSE /\ sweep_lock = "free"
  /\ provider = FALSE /\ listener = FALSE
  /\ visit = {}

-----------------------------------------------------------------------------
(* user_policy_plugin_create: the object, then policy_engine_create,       *)
(* ip_allocator_create and event_listener_create, each of which may fail.  *)

user_policy_plugin_create ==
  /\ loader = "start"
  /\ exists' = TRUE /\ refcnt' = 1
  /\ loader' = "building"
  /\ UNCHANGED <<job, call, built, terminating, sweep_lock, registryVars, visit>>

build ==
  /\ loader = "building"
  /\ built' = built + 1
  /\ loader' = IF built' = 3 THEN "created" ELSE "building"
  /\ UNCHANGED <<job, call, exists, refcnt, terminating, sweep_lock, registryVars, visit>>

build_fails ==
  /\ loader = "building"
  /\ loader' = "destroying"
  /\ UNCHANGED <<job, call, objectVars, terminating, sweep_lock, registryVars, visit>>

(* plugin_destroy_internal, run by p: one component after the other, then  *)
(* the object.                                                             *)
DestroyInternal ==
  /\ IF built > 0 THEN built' = built - 1 /\ UNCHANGED exists
                  ELSE exists' = FALSE /\ UNCHANGED built
  /\ UNCHANGED <<call, refcnt, terminating, sweep_lock, registryVars, visit>>

destroy_internal_loader ==
  /\ loader = "destroying"
  /\ DestroyInternal
  /\ loader' = IF built > 0 THEN "destroying" ELSE "gone"
  /\ UNCHANGED job

destroy_internal_job ==
  /\ job = "destroying"
  /\ DestroyInternal
  /\ job' = IF built > 0 THEN "destroying" ELSE "gone"
  /\ UNCHANGED loader

(* Faulty: off by one. *)
AfterUnref_Negative == IF refcnt' < 0 THEN "destroying" ELSE "gone"

(* What plugin_unref makes its caller do next. *)
AfterUnref == IF refcnt' <= 0 THEN "destroying" ELSE "gone"

-----------------------------------------------------------------------------
(* plugin_cb and destroy, called by the loader *)

add_provider ==
  /\ loader = "created"
  /\ provider' = TRUE
  /\ loader' = "add_listener"
  /\ UNCHANGED <<job, call, objectVars, terminating, sweep_lock, listener, visit>>

add_listener ==
  /\ loader = "add_listener"
  /\ listener' = TRUE
  /\ loader' = "ref"
  /\ UNCHANGED <<job, call, objectVars, terminating, sweep_lock, provider, visit>>

(* Faulty: the job gets no reference. *)
plugin_ref_Missing ==
  /\ loader = "ref"
  /\ loader' = "queue_job"
  /\ UNCHANGED <<job, call, objectVars, terminating, sweep_lock, registryVars, visit>>

(* plugin_ref, on behalf of the job that is created next. *)
plugin_ref ==
  /\ loader = "ref"
  /\ refcnt' = refcnt + 1
  /\ loader' = "queue_job"
  /\ UNCHANGED <<job, call, exists, built, terminating, sweep_lock, registryVars, visit>>

queue_job ==
  /\ loader = "queue_job"
  /\ job' = "queued"
  /\ loader' = "registered"
  /\ UNCHANGED <<call, objectVars, terminating, sweep_lock, registryVars, visit>>

(* Faulty: the job's reference is not returned. *)
create_job_fails_KeepsRef ==
  /\ loader = "queue_job"
  /\ loader' = "registered"
  /\ UNCHANGED <<job, call, objectVars, terminating, sweep_lock, registryVars, visit>>

(* callback_job_create failed: there will be no sweeps. *)
create_job_fails ==
  /\ loader = "queue_job"
  /\ refcnt' = refcnt - 1
  /\ loader' = "registered"
  /\ UNCHANGED <<job, call, exists, built, terminating, sweep_lock, registryVars, visit>>

(* charon begins to unload the plugin. *)
unregister ==
  /\ loader = "registered"
  /\ loader' = "remove_provider"
  /\ UNCHANGED <<job, call, objectVars, terminating, sweep_lock, registryVars, visit>>

remove_provider ==
  /\ loader = "remove_provider"
  /\ \A t \in Thread : call[t] # "provider"
  /\ provider' = FALSE
  /\ loader' = "remove_listener"
  /\ UNCHANGED <<job, call, objectVars, terminating, sweep_lock, listener, visit>>

remove_listener ==
  /\ loader = "remove_listener"
  /\ \A t \in Thread : call[t] # "listener"
  /\ listener' = FALSE
  /\ loader' = "terminate"
  /\ UNCHANGED <<job, call, objectVars, terminating, sweep_lock, provider, visit>>

(* Sets the flag under sweep_lock: a sweep that is running ends first. *)
terminate ==
  /\ loader = "terminate"
  /\ sweep_lock = "free"
  /\ terminating' = TRUE
  /\ loader' = "unregistered"
  /\ UNCHANGED <<job, call, objectVars, sweep_lock, registryVars, visit>>

(* Also when the feature was never registered. *)
destroy ==
  /\ loader \in {"created", "unregistered"}
  /\ refcnt' = refcnt - 1
  /\ loader' = AfterUnref
  /\ UNCHANGED <<job, call, exists, built, terminating, sweep_lock, registryVars, visit>>

-----------------------------------------------------------------------------
(* sweep_cb, run by a worker as a job *)

sweep_cb ==
  /\ job = "queued"
  /\ job' = IF terminating THEN "cleanup" ELSE "lock"
  /\ UNCHANGED <<loader, call, objectVars, terminating, sweep_lock, registryVars, visit>>

(* Faulty: the flag is not read again once the lock is held. *)
MaySweep_Always == TRUE

MaySweep == ~terminating

(* With the lock held, the flag is read again and the sweep begins: leases *)
(* of any workers' IKE_SAs may have expired.                               *)
sweep_begin ==
  /\ job = "lock"
  /\ sweep_lock = "free"
  /\ sweep_lock' = "job"
  /\ visit' \in IF MaySweep THEN SUBSET Thread ELSE {{}}
  /\ job' = IF MaySweep THEN "sweep" ELSE "unlock"
  /\ UNCHANGED <<loader, call, objectVars, terminating, registryVars>>

(* checkout_by_id and checkin of the IKE_SA worker t works on. *)
sweep_checkout(t) ==
  /\ job = "sweep"
  /\ t \in visit
  /\ call[t] = "idle"
  /\ visit' = visit \ {t}
  /\ UNCHANGED <<loader, job, call, objectVars, terminating, sweep_lock, registryVars>>

sweep_end ==
  /\ job = "sweep"
  /\ visit = {}
  /\ job' = "unlock"
  /\ UNCHANGED <<loader, call, objectVars, terminating, sweep_lock, registryVars, visit>>

(* Faulty: no unlock. *)
sweep_unlock_Missing ==
  /\ job = "unlock"
  /\ job' = "requeue"
  /\ UNCHANGED <<loader, call, objectVars, terminating, sweep_lock, registryVars, visit>>

sweep_unlock ==
  /\ job = "unlock"
  /\ sweep_lock' = "free"
  /\ job' = "requeue"
  /\ UNCHANGED <<loader, call, objectVars, terminating, registryVars, visit>>

(* Returns JOB_REQUEUE_NONE or JOB_RESCHEDULE_MS; charon queues the job    *)
(* again when the interval has passed.                                     *)
sweep_requeue ==
  /\ job = "requeue"
  /\ job' = IF terminating THEN "cleanup" ELSE "queued"
  /\ UNCHANGED <<loader, call, objectVars, terminating, sweep_lock, registryVars, visit>>

(* charon discards a job that waits to be run. *)
discard ==
  /\ job = "queued"
  /\ job' = "cleanup"
  /\ UNCHANGED <<loader, call, objectVars, terminating, sweep_lock, registryVars, visit>>

(* sweep_cleanup: the job's reference is returned. *)
sweep_cleanup ==
  /\ job = "cleanup"
  /\ refcnt' = refcnt - 1
  /\ job' = AfterUnref
  /\ UNCHANGED <<loader, call, exists, built, terminating, sweep_lock, registryVars, visit>>

-----------------------------------------------------------------------------
(* charon's workers *)

begin_work(t) ==
  /\ call[t] = "idle"
  /\ call' = [call EXCEPT ![t] = "working"]
  /\ UNCHANGED <<loader, job, objectVars, terminating, sweep_lock, registryVars, visit>>

(* charon asks its providers under a read lock, which a waiting writer     *)
(* gets before later readers.                                              *)
call_provider(t) ==
  /\ call[t] = "working"
  /\ provider /\ loader # "remove_provider"
  /\ call' = [call EXCEPT ![t] = "provider"]
  /\ UNCHANGED <<loader, job, objectVars, terminating, sweep_lock, registryVars, visit>>

(* charon calls its listeners under a mutex. *)
call_listener(t) ==
  /\ call[t] = "working"
  /\ listener /\ \A u \in Thread : call[u] # "listener"
  /\ call' = [call EXCEPT ![t] = "listener"]
  /\ UNCHANGED <<loader, job, objectVars, terminating, sweep_lock, registryVars, visit>>

(* A call into the plugin returns, or the IKE_SA is checked in. *)
finish(t) ==
  /\ call[t] # "idle"
  /\ call' = [call EXCEPT ![t] = "idle"]
  /\ UNCHANGED <<loader, job, objectVars, terminating, sweep_lock, registryVars, visit>>

-----------------------------------------------------------------------------
Creating == user_policy_plugin_create \/ build \/ build_fails

Registering == add_provider \/ add_listener \/ plugin_ref \/ queue_job \/ create_job_fails

Unregistering == remove_provider \/ remove_listener \/ terminate

SweepJob == \/ sweep_cb \/ sweep_begin \/ sweep_end \/ sweep_unlock
            \/ sweep_requeue \/ sweep_cleanup \/ destroy_internal_job

LifecycleNext ==
  \/ Creating \/ Registering \/ unregister \/ Unregistering
  \/ destroy \/ destroy_internal_loader
  \/ SweepJob \/ discard
  \/ \E t \in Thread : sweep_checkout(t) \/ begin_work(t) \/ finish(t)
                        \/ call_provider(t) \/ call_listener(t)

LifecycleSpec == LifecycleInit /\ [][LifecycleNext]_pluginVars

(* Threads inside a call go on, a job that is due is run, and the loader   *)
(* carries through an unload once begun.  Who waits for a lock or an       *)
(* IKE_SA that is free again and again gets it.                            *)
LifecycleFairness ==
  /\ SF_pluginVars(Unregistering)
  /\ WF_pluginVars(loader = "unregistered" /\ destroy)
  /\ WF_pluginVars(destroy_internal_loader)
  /\ WF_pluginVars(SweepJob)
  /\ \A t \in Thread : WF_pluginVars(finish(t)) /\ SF_pluginVars(sweep_checkout(t))

FairLifecycleSpec == LifecycleSpec /\ LifecycleFairness

-----------------------------------------------------------------------------
Registered == {"add_listener", "ref", "queue_job", "registered", "remove_provider",
               "remove_listener", "terminate"}

LoaderStep == {"start", "building", "created", "unregistered", "destroying", "gone"}
                \cup Registered

JobStep == {"none", "queued", "lock", "sweep", "unlock", "requeue", "cleanup",
            "destroying", "gone"}

LifecycleTypeOK ==
  /\ loader \in LoaderStep /\ job \in JobStep
  /\ call \in [Thread -> {"idle", "working", "provider", "listener"}]
  /\ exists \in BOOLEAN /\ built \in 0 .. 3 /\ refcnt \in 0 .. 2
  /\ terminating \in BOOLEAN /\ sweep_lock \in {"free", "job"}
  /\ provider \in BOOLEAN /\ listener \in BOOLEAN
  /\ visit \subseteq Thread

(* Who may still use the plugin object. *)
LoaderHolds == loader \in {"created", "unregistered"} \cup Registered
JobHolds == loader = "queue_job" \/ job \in JobStep \ {"none", "destroying", "gone"}
InPlugin(t) == call[t] \in {"provider", "listener"}

(* Each user of the object has exactly one reference, also while the       *)
(* object is half built, while its job is being created, and when creating *)
(* the job fails (plugin.c:30-36, 165-176).                                *)
RefsAreHolders ==
  LoaderHolds \/ JobHolds =>
    refcnt = (IF LoaderHolds THEN 1 ELSE 0) + (IF JobHolds THEN 1 ELSE 0)

(* Nobody uses the plugin or a component of it once it is being freed,     *)
(* wherever the unload meets the job (README.md:233), and the loader and   *)
(* the job never both free it.                                             *)
FreedAfterLastUse ==
  /\ LoaderHolds \/ JobHolds \/ (\E t \in Thread : InPlugin(t)) => exists /\ built = 3
  /\ ~(loader = "destroying" /\ job = "destroying")

(* When the unregistration has returned, no thread is inside the plugin    *)
(* and no sweep runs or will run: the flag is read again under sweep_lock  *)
(* (plugin.c:110-115), because it may have been set since sweep_cb began.  *)
QuietAfterUnregister ==
  loader \in {"unregistered", "destroying", "gone"} =>
    /\ \A t \in Thread : ~InPlugin(t)
    /\ job # "sweep"

(* An unload comes to its end though it waits for calls in progress and    *)
(* for a sweep, which waits for IKE_SAs that those calls have checked out. *)
UnloadEnds == (loader = "remove_provider") ~> (loader = "gone")

(* The object is freed in the end, by the loader or by the job's cleanup.  *)
PluginFreed == (loader \in {"destroying", "gone"}) ~> ~exists
=============================================================================
