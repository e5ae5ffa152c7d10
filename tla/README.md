# A TLA+ model of the CUPP strongSwan plugin

CUPP (`src/plugin/src/`) is a charon plugin that assigns virtual IPs by user
name: a user listed in `policy.yaml` gets a fixed address, every other user an
address of a pool the plugin keeps itself. This directory models what the
plugin does with leases, addresses and policies, checks it with TLC and proves
its safety properties and the refinement with TLAPS. Paths below are relative to `src/plugin/src/`.

## The system

| Component | State | Operations | Called by |
|---|---|---|---|
| `dynamic_pool.c` | bitmap, counter, own mutex | acquire, release | ip_allocator |
| `session_manager.c` | two hash tables of shared `lease_t` pointers, own mutex | bind_lease, migrate, lookup_by_user, unbind, foreach_expiring | ip_allocator |
| `policy_engine.c` | pointer to the snapshot in force, reload lock | lookup_fixed, get_pool, reload | ip_allocator, plugin |
| `ip_allocator.c` | lock; owns pool and sessions | acquire_address, release_address, release_by_uid, sweep | charon, event_listener, plugin |
| `event_listener.c` | none | ike_updown: release when an IKE_SA goes down | charon |
| `plugin.c` | reference count, sweep lock, terminating flag | registration, periodic sweep job, reload, unload | charon |
| `fixed_pool.c` | name -> address table of one snapshot, counter | add (while loading), lookup, count | policy_engine, yaml_loader |
| `yaml_loader.c` | parser state | fills a fixed pool and the pool's end points | policy_engine |
| `identity_manager.c` | none | picks a user name from an IKE_SA's identities | ip_allocator |

A lease is a heap structure with a user, an IKE_SA unique_id, an address, a
fixed flag and a time. `acquire_address` holds the allocator's lock from the
lookup of the user's old lease to the copy of the address it returns.
`release_by_uid_impl`, reached from `ike_updown`, from `release_address`, from
the sweep and from acquire's own rollback, holds that lock only for `unbind`;
it clears the pool's bit and frees the lease afterwards. The sweep collects
lease pointers under the table's mutex and works on them outside every lock.
`reload` swaps the policy pointer under its own lock, which readers do not take.

The plugin object is shared by charon's plugin loader and the sweep job, and
freed by whoever drops the last reference. Unloading first waits for charon's
calls into the plugin to return, then sets `terminating` under the `sweep_lock`.

What is hard here: three sources of releases for one lease; borrowed pointers
that outlive the mutex that protected them; a lease that changes IKE_SA while
somebody works on its unique_id; the gap between unbinding and clearing the
bit; error paths in the middle of a lock; the sweep against everything; unloading
against a sweep that waits for an IKE_SA; a parser that knows where it is only
from the order of events. The
`hazards` of `PROJECT.json` list each at its line.

What makes each component correct:

* pool: the counter is the number of bits; it refuses only when full.
* session table: both indexes describe the same live leases.
* allocator: a pool address has one lease, is lost only for want of memory, and
  what a user holds is the user's by policy or of the pool; a lease is freed
  once, the lease `acquire_address` works on stays, every call returns, orphans
  are reclaimed, connected users keep their own address.
* policy engine: one owner per snapshot, no reload brings an old policy back,
  every reload leaves its lock, readers see live snapshots.
* plugin: nobody uses it once it is freed, after unregistering nothing of it
  runs, unloading ends and frees it.
* loader and fixed table: what is loaded is what the file says; every address
  object is owned or destroyed, wherever the load fails.
* identity: one IKE_SA asks under one name.

## The modules

| Module | Models |
|---|---|
| `DynamicPool` | `dynamic_pool.c`. `bits` is the set of offsets whose bit is 1, `used` the counter. `PoolAcquire(i)`, `PoolExhausted`, `PoolRelease(ip)`. An address is its host-order integer. |
| `SessionManager` | `session_manager.c`. `by_uid`, `by_user` map to chunks, `heap` maps a chunk to a lease or to NULL when it is free. Each method is one step, because it holds the mutex from first to last access. |
| `IpAllocator` | `ip_allocator.c` and its callers; extends the two above and uses their operations as sub-actions. |
| `AddressLeases` | the abstract specification: users, leases, the addresses IKE_SAs are connected with; five operations (grant, deliver, reassign, disconnect, revoke). |
| `PolicyEngine` | `policy_engine.c`: snapshots as heap chunks, readers and overlapping reloads. |
| `PluginLifecycle` | `plugin.c` and the create and destroy functions: registration, sweep job, reference count, unload. |
| `FixedPool` | `fixed_pool.c`: table and counter. |
| `YamlLoader` | `yaml_loader.c` and `snapshot_load`; extends `FixedPool`. |
| `IdentityManager` | `identity_manager.c` and the fallback in `acquire_address`. |
| `PoolRange` | the fixed-width arithmetic of `dynamic_pool_create`. |
| `Pointers`, `Heap` | the constant NULL; the heap's chunks. |
| `MCTables` | pool, session table, range, identities, plugin and policy engine, each alone, for TLC. |
| `MCIpAllocator` | constants for TLC. |
| `DynamicPoolProofs` (also of `PoolRange`), `SessionManagerProofs`, `IpAllocatorProofs`, `IpAllocatorLeaseProofs`, `PolicyEngineProofs`, `PluginLifecycleProofs`, `YamlLoaderProofs`, `IdentityManagerProofs` | theorems and proofs. |

### IpAllocator

One process per IKE_SA (a unique_id) and the sweep job. charon lets one thread
at a time work on an IKE_SA, so the calls of one IKE_SA follow each other; the
`sweep_lock` of `plugin.c` keeps the sweep to one at a time. `pc[p]` names the
next step of process p:

| pc | code |
|---|---|
| `lock` | `ip_allocator.c:151` |
| `lookup`, `migrate`, `clone_reused` | 154-164 |
| `choose` | 167-194: fixed table, pool, or no address |
| `bind`, `clone` | 197-223; `acquire_rollback` is 209-216 |
| `unbind`, `recycle`, `destroy` | `release_by_uid_impl`, 64-86 |
| `sweeping`, `checkout`, `orphan` | `session_manager.c:216-220`, `ip_allocator.c:270-280` |

`hand` holds acquire's locals `ip` and `is_fixed` until they are bound, `cur[p]`
the local `lease`, `expiring`, `suspect` and `target` the sweep's locals. `sa`
and `vip` are charon's: whether an IKE_SA is in charon's table, and the
addresses stored with it. `create_sa`, `remove_sa`, `destroy_sa` stand for code
that is not in this repository and follow from how the plugin uses it: an
IKE_SA goes down (`ike_updown`) while it is still in the table, may also vanish
without `ike_updown`, and returns each address it stored (`release_address`)
when it is destroyed, after it left the table. `sweep_alive` waits until no
other thread works on the IKE_SA, as `checkout_by_id` does.

`lookup_fixed` (171) lends a `host_t` of the snapshot that `clone` (174) copies
next. `acquire_fixed` is both, without a reload in between. `acquire_fixed_freed`
is both with a reload in between that destroyed the snapshot: the freed object
is copied, and any address comes out. `ReloadRaces` allows it.

Reading a freed lease yields any unique_id (`ReadUid`). With `AllocFails` every
allocation whose result the code checks may fail: copying an address, creating a
lease, creating a host. Two it does not check, `session_manager.c:62` and
`fixed_pool.c:56`: the NULL name goes to a hash table, whose hash function
reads it, and charon crashes there. After that there is no state to model.
Copying the name is assumed to succeed: if `identity_get_username` fails
to copy it, the call goes on under the placeholder name, which `UserOf` (one
name per IKE_SA) excludes; if the placeholder cannot be copied either, the call
returns before it takes the lock, the same as a call not made. The clock is reduced to
whether a lease has expired; `lease_ages` may expire any lease at any time, and
`migrate` makes it fresh again. A plugin without a pool is a pool of capacity 0.
`reload` replaces the policy and not the pool, as the code does; its own steps
are those of `PolicyEngine`.

`UserOf` gives each unique_id its user name; that there is one is what
`IdentityManager` checks. `AnonPrefixed` are the names that start with `anon-`.

### PluginLifecycle

`loader` is where charon's loading thread is in `user_policy_plugin_create`,
`plugin_cb` and `destroy`; `job` where the sweep job is in `sweep_cb` and
`sweep_cleanup`; `call[t]` what worker t does with the IKE_SA it has checked out.

| Step | `plugin.c` |
|---|---|
| `user_policy_plugin_create`, `build`, `build_fails` | 242-298; `built` counts policy, allocator and listener |
| `add_provider`, `add_listener`, `plugin_ref`, `queue_job` or `create_job_fails` | 157-176 |
| `remove_provider`, `remove_listener`, `terminate` | 180-188 |
| `destroy`, `sweep_cleanup` | 216-221, 129-134; `AfterUnref` is `plugin_unref` |
| `sweep_cb`, `sweep_begin`, `sweep_end`, `sweep_unlock`, `sweep_requeue` | 102-120 |
| `destroy_internal_loader`, `destroy_internal_job` | 63-82, one component a step |

`sweep_checkout(t)` is `checkout_by_id` of an expired lease's IKE_SA, which
waits for the worker that has it. The sweep's effect on leases is not repeated
here; `visit` is the set of IKE_SAs it will look up. Of charon the model takes
what follows: `remove_provider` and `remove_listener` return when no call is in
progress and no call begins afterwards; a queued job may be discarded, which
runs its cleanup; `sweep_cancel`, which reads the flag and nothing else, is
called while the job still has its reference, and is covered by that.

### YamlLoader

The module holds two machines. The loader's (`st`, `pending`, `cur_user`, the
end points, the table) is translated from the `switch` of `yaml_load_policy`.
The other is the document: it knows in which mapping it is (`where`), which key
it has given (`key`), whose mapping it is (`who`), and what it has said so far
(`says`); where it gives a value that is no address, it says `Wrong`. Every
event is a step of both. The document has the documented shape but is otherwise
free: unknown keys, values that are no addresses, keys, users and sections given
twice, sections left out. A parse error may come after any event. `short` counts
allocations that failed unnoticed: a key that cannot be copied (`yaml_loader.c:119`)
is forgotten and its value then taken for a key; a `host_t` that cannot be
created looks like an address that does not parse. `FollowsDocument` compares
the two machines, `LoadsWhatItSays` their results, both while `short = 0`.

`hosts` counts the address objects the load created and has not destroyed. The
end points belong to whoever called the loader: `snapshot_load` keeps them in
the snapshot (`policy_engine.c:61`) or destroys them (83). `HostsOwned` counts by
that, although `yaml_loader.h:21` calls them borrowed. `fixed_pool.h:23` and `yaml_loader.h:20` speak of one more reference where
`add` makes a copy; both owners then destroy their own, so nothing comes of it.
A file that cannot be opened is a parse error before the first event.

### IdentityManager and PoolRange

`id` maps the four sources of `identity_manager.c:13-17` to an identity or NULL.
charon fills them: IDi first, then perhaps an EAP identity, which is in the
IKE_SA at once and in the `auth_cfg` when authentication is done. `acquire_name`
may run any number of times from when the EAP identity is known. `names` records
the names used. `PoolRange` creates one pool of any range in words of `Word`
values; `Word` is 2^32 in the code.

### Refinement

`ImplementsAddressLeases` maps `lease[u]` to the lease `by_user[u]` points to and
`carried[s]` to the addresses charon stored with s while s is up. `bind_lease`
is a Grant, the return of `acquire_address` a Deliver, `migrate` a Reassign,
`ike_updown` and the removal of an IKE_SA a Disconnect, `unbind` a Revoke; every
other step of every thread is a stutter. It says that

* an address is granted only while no other user's lease holds it, be it fixed
  or of the pool;
* a fixed address is one a policy assigns to the user;
* a held address never changes;
* no lease is revoked, or moved to another IKE_SA, while the IKE_SA it belongs to
  is connected with its address: a release that comes late must find nothing.

The code implements it where it is used as it should be: the IKE_SAs of a user do
not overlap, no sweep runs, policies keep fixed addresses out of the pool and
apart, and no reload frees one while it is copied. Each condition is needed: the
runs `two_devices`, `sweep_takes_live`, `fixed_taken` and `freed` show what
happens without it.

## Runs

| Run | Instance | Checks |
|---|---|---|
| `any_order` | each component of `MCTables` alone. Pool: 5 addresses, callers that release anything. Sessions: 3 unique_ids, 2 users, 3 chunks. Ranges: 64 values a word. Identities: 2 strings, 1 other. Plugin: 3 workers, fair. Policies: 1 reader, 2 reloaders, 2 edits of the file, fair | pool `UsedCountsBits`, `ExhaustedOnlyWhenFull`; sessions `IndexesAgree`, `LeasesOfTheirUser`; range `RangeFits`; identities `OneNamePerSa`; plugin `RefsAreHolders`, `FreedAfterLastUse`, `QuietAfterUnregister`, `UnloadEnds`, `PluginFreed`; policies `PolicyTypeOK`, `OneOwner`, `PolicyNeverGoesBack`, `ReloadsEnd` |
| `policy_file` | policy files with 2 names (one also a keyword), 2 addresses, 8 scalars; one end point given again, one allocation that fails | `CountsUsers`, `FollowsDocument`, `LoadsWhatItSays`, `HostsOwned` |
| `shared` | 3 IKE_SAs (2 of alice), 2 addresses, 3 chunks, sweep | `AddressesExclusive`, `NoLeakedAddress`, `DestroyedByOne`, `AcquiredLeaseStays`, `AcquireIsExclusive` |
| `fixed` | 3 IKE_SAs (2 of alice), a fixed address inside the pool that reloads add and remove, also while it is copied, no sweep | `IpTypeOK`, `AddressesExclusive`, `NoLeakedAddress` |
| `failing` | alice reconnecting, 2 addresses, allocations that fail, sweep, fair | `AddressesExclusive`, `DestroyedByOne`, `IndexesAgree`, `LossesAreFailures`, `CallsReturn`, `OrphanReclaimed` |
| `vips` | 3 IKE_SAs, one per user at a time, 2 requests, a fixed address outside the pool that reloads add and remove, no sweep | `VipsAreLeased`, `NoSharedVip`, `FixedOfTheirUser`, `ImplementsAddressLeases` |

What they show: `any_order`, that pool and table stay consistent under callers
that keep to no order at all; that a bitmap has a bit for every address of its
range; that the choice among identities is stable while they arrive; and that an
unload, wherever it meets the sweep job and calls in progress, ends, frees the
plugin once and leaves nothing running in it; that overlapping and failing
reloads are safe for each other. `policy_file`, that the loader
reads every document of the documented shape right while memory lasts, but for
values that are no address, and that no address object is lost wherever the load
fails, whether or not memory lasts. `shared`, that three IKE_SAs and the sweep
competing for two addresses neither share nor lose one, and that leases are
freed once and not under `acquire_address`. `fixed`, that a fixed address inside
the pool's range, which reloads assign and withdraw, clears nobody's bit and
orphans none. It does not show that such an address has one user, and it has not
(`fixed_taken`). `failing`, that no error path leaves a table inconsistent, the
lock taken or a lease unclaimed for ever, and that addresses are lost in two
places only, whichever of the allocations fail whose result the code checks.
`vips`, that connected users keep the address the table says, through
reconnects and late releases, that what users hold is theirs by policy or of the
pool, and that the whole implements `AddressLeases`.

Why these bounds. Every conflict in the allocator is between a holder of an
address, a second caller that takes or returns it, and the sweep: three IKE_SAs
with two of one user and the sweep give every such triple. Two addresses let
the pool be both shared and full, three chunks, as many as leases can exist at
once, let a freed chunk be reused while a stale pointer to it exists. An IKE_SA asks for at most
`MaxAcquire` addresses; 2 makes the reuse of its own lease happen. Chunks are
symmetric (nothing orders them) in the safety runs; runs with liveness use no
symmetry. `vips` stops when all IKE_SAs are dead, in `policy_file` a
file ends and in `any_order` a peer is authenticated, so deadlock is not checked
there; in all other passing runs the sweep, reloads or readers go on for ever. In the policy file
every key occurs with a right and a wrong value, twice, and in both orders of
the sections, and a user may be called `ip`, so that a pair counted wrongly
shows; documents have no length bound except that `MaxReplaced` limits how many
end points are given again, which is what `hosts` grows with, and `MaxShort` how
many allocations fail; one is enough to put the loader out of step for the rest
of the file. 64 values a word
let a range leave a byte partly used and let both `e - s + 1` and `cap + 7` wrap.
Three workers let one be inside the provider, one inside the listener and one
hold an IKE_SA that the sweep waits for.

`RangeFits` is restricted to ranges of fewer than `Word - 8` steps. Beyond,
`cap + 7` wraps and the bitmap is too small, and for the whole address space
`cap` itself is 0 although `dynamic_pool.h:29` says `end - start + 1`. No IPv4
pool is that large; the bound is where the code stops being right.

`vips` excludes by its constants what the violation runs show: a
user with two IKE_SAs at once, the sweep, a fixed address inside the pool, and a
reload that frees an address while it is copied. That is the boundary within
which connected users keep what the table says.

Fairness. `Acquiring`, `Releasing` and `Destroying` are weakly fair per IKE_SA:
a thread inside a call goes on, and the mutex, free for good once its holder is
done, is eventually taken. Nothing forces charon to create, use or remove an
IKE_SA. `Sweeping` is weakly fair because the job reschedules itself
(`plugin.c:120`), `lease_ages` because time passes. In `PolicyEngine` only the
steps of a reload that has begun are fair; a load may fail every time.

In `PluginLifecycle` a call returns and a worker checks its IKE_SA in
(`finish`); a job that is queued is run (`SweepJob`); the loader goes on once it
unregisters, and frees what it destroys. Strong fairness is assumed of who waits
for something that others take in turn: the unregistering steps for calls in
progress and the `sweep_lock`, `sweep_checkout` for an IKE_SA. That no reader
enters charon's provider lock while `remove_provider` waits to write is a
property of charon's lock and a guard of `call_provider`. Nothing forces the
plugin to be unloaded or a queued job to be discarded.

### Where code and documentation differ

Each of these runs checks one statement and TLC finds it violated:

| Run | Statement | What happens |
|---|---|---|
| `sweep_takes_live` | `SweepReclaimsOrphans` (`ip_allocator.c:262`) | The sweep checks `lease->unique_id`, the user reconnects and the lease migrates, the sweep reads `unique_id` again and releases the live lease. |
| `sweep_reads_freed` | `SweepReadsLeases` (`README.md:36`) | `ike_updown` frees a lease that the sweep's snapshot still points to. |
| `two_devices` | `NoSharedVip` (`README.md:22`) | The second IKE_SA of a user takes the lease over, goes down, the address is recycled; the first still uses it. |
| `pool_moves` | `GrantsFollowPolicy` (`README.deploy.md:417`) | The pool is created once; a reload does not replace it. |
| `freed` | `ReadersSeeSnapshots` (`policy_engine.h:13`) | `reload` destroys the snapshot a reader is using. |
| `fixed_taken` | `FixedStaysReserved` (`README.md:30`, `fixed_pool.h:13`) | A fixed address inside the pool's range is handed out dynamically to another user, also while its user holds it. `README.deploy.md:688` only warns of it. |

Other behaviours are known, and differ from what documents say:

* A value that is no address is skipped, and the load succeeds
  (`yaml_loader.c:124-149`). The design asks for -1
  (`.trae/documents/cupp-charon-user-policy-plugin.md:145`), and `README.md:35`
  has a malformed file refused. `LoadsWhatItSays` promises nothing of such values.
* The end points of the pool are said to be borrowed, not to be freed by the
  caller (`yaml_loader.h:21`). `snapshot_load` owns and destroys them
  (`policy_engine.c:61,83`), which is what `HostsOwned` counts by.
* The first source that has an identity decides, even if it is no string
  (`identity_manager.c:48`): the peer is anonymous although a later source has a
  string. `README.deploy.md:740` has the placeholder name only if none has.
* A configured user whose name starts with `anon-` is never looked up in the
  fixed table (`ip_allocator.c:168`, `FixedFor`); `README.md:5` promises fixed
  addresses without exception.

No document speaks of these: when `bind_lease` or the creation of a host fails
for want of memory, the pool's bit stays set until charon restarts.
`LossesAreFailures` says that this is the only way to lose an address, one at a
time and for good; `NoLeakedAddress` holds with `AllocFails = FALSE`. A pool end
point that the file gives twice loses the first address object
(`yaml_loader.c:142`); `HostsOwned` counts exactly these.

Operators whose comment begins with "Faulty" are variants of the code's
operations with a plausible bug; `PROJECT.json` names for every checked property
a variant that breaks it.

## Proofs

For every value of the constants that satisfies the named assumptions:

| Theorem | States |
|---|---|
| `DynamicPoolProofs!PoolCounts`, `RefusesOnlyWhenFull` | `UsedCountsBits`, `ExhaustedOnlyWhenFull` of the pool alone |
| `DynamicPoolProofs!BitmapFits`, `BitmapWraps` | `RangeFits`; beyond its bound the bitmap is empty |
| `SessionManagerProofs!SessionIndexes`, `FiledUnderOwnUser` | `IndexesAgree`, `LeasesOfTheirUser` of the table alone |
| `IpAllocatorProofs!TypeCorrect` | `IpTypeOK` |
| `IpAllocatorProofs!Exclusive` | `AddressesExclusive` |
| `IpAllocatorProofs!NoDoubleDestroy` | `DestroyedByOne` |
| `IpAllocatorProofs!CriticalSection`, `BorrowedLeaseStays` | `AcquireIsExclusive`, `AcquiredLeaseStays` |
| `IpAllocatorProofs!IndexesInUse` | `IndexesAgree` of the composed system |
| `IpAllocatorLeaseProofs!LossesExplained` | `LossesAreFailures`, an action property |
| `IpAllocatorLeaseProofs!NothingLeaks` | `NoLeakedAddress`, if `~AllocFails` |
| `IpAllocatorLeaseProofs!FixedGoToTheirUsers` | `FixedOfTheirUser`, if `~ReloadRaces` |
| `IpAllocatorLeaseProofs!ConnectionsLeased` | `VipsAreLeased`, if `OneSaPerUser` and `~SweepEnabled` |
| `IpAllocatorLeaseProofs!NobodySharesAnAddress` | `NoSharedVip`, if also `~ReloadRaces` and `FixedAddressesApart` |
| `IpAllocatorLeaseProofs!LeasesImplemented` | `ImplementsAddressLeases`: under the same four conditions the allocator refines `AddressLeases` |
| `PolicyEngineProofs!SnapshotsOwned`, `PolicyTypeCorrect` | `OneOwner`, `PolicyTypeOK` |
| `PolicyEngineProofs!PolicyAdvances` | `PolicyNeverGoesBack`, an action property |
| `PluginLifecycleProofs!ReferencesCounted`, `NoUseAfterFree`, `UnloadIsQuiet` | `RefsAreHolders`, `FreedAfterLastUse`, `QuietAfterUnregister` |
| `YamlLoaderProofs!StaysWithTheDocument`, `LoadsTheDocument` | `FollowsDocument`, `LoadsWhatItSays` |
| `YamlLoaderProofs!HostsAccounted`, `TableCounts` | `HostsOwned`, `CountsUsers` |
| `IdentityManagerProofs!OneName` | `OneNamePerSa` |

Assumptions: `PoolAssumption` (the range consists of addresses, addresses are
numbers), `SessionAssumption` (one user name per unique_id; NULL is neither a
chunk nor a lease), `AllocatorAssumption` (NULL and the sweep are no unique_ids;
NULL is none of the records of `Hand` and `Held`; policies are functions into
addresses), `WordAssumption` (a word has a multiple of 8 values, more than 8),
`PolicyAssumption`, `LoaderAssumption` and `IdentityAssumption` (NULL is none of
the values; the keywords, names and addresses are scalars). There is no bound on
IKE_SAs, users, chunks, addresses, reloaders, workers or the length of a
document, and allocations may fail unless a theorem says otherwise.
`MaxEdition`, `MaxReplaced`, `MaxShort` and `MaxAcquire` are arbitrary numbers.

The argument. `PoolInv` (types and counter) and `SessionInv` (types and indexes)
are inductive on their own; each operation has a lemma that says what it keeps
and changes, and the composed proof cites only those lemmas. `AddressesExclusive`
is not inductive: a release clears the bit of the address in `cur[p]`, which is
harmless only because that lease was unbound by p alone (`DestroyedByOne`); a
bind adds a holder, which is harmless only because the user had none and the
address in hand is marked (`AcquireIsExclusive`); a copy is taken of the right
lease only because nobody else can unbind it meanwhile (`AcquiredLeaseStays`).
`IInv` is the conjunction of these with the types, and is inductive. The
`QuietStep` lemma covers every step that touches neither pool nor table; the
others have a lemma each, in the order of the code.

Five theorems have hypotheses of their own, and none can do without them. With
`AllocFails` addresses are lost, which is what `LossesExplained` is about. With
`ReloadRaces` the copy of a freed `host_t` may be anybody's address. Without
`OneSaPerUser` the run `two_devices` shows an address shared, with
`SweepEnabled` the run `sweep_takes_live` a lease taken from a connected user.
`FixedAddressesApart` says that policies give no address to two users, not even
across a reload, and none of the pool's: `acquire_address` checks neither, and
the run `fixed_taken` shows what comes of it.
`README.deploy.md:688` tells users to keep fixed addresses out of the pool,
the sample policy does (`etc/ipsec.d/cupp/policy.yaml:14-26`), and so
do the constants of the run `vips`, which meets all hypotheses. It
does not let allocations fail; the theorems do.

`IpAllocatorLeaseProofs` builds on `IInv`. `StepKinds` sorts the steps: ten of
them concern holders, bits or the address in hand, all others leave these alone.
`Lost` is the set of bits without an owner. Each of the ten keeps it as it is,
but for the two that fail for want of memory, which add one element: a grant
marks a bit that was clear, `bind_lease` passes ownership from the hand to the
lease, `unbind` from the table to the process that recycles, and the recycling
clears a bit only its lease owned. That nothing ever leaves `Lost` needs
`AddressesExclusive`. `ConnectionsInv` strengthens
`VipsAreLeased` with who may be in a call: an IKE_SA that acquires is up, and no
other of its user that is up acquires or has an address; one that releases is not
up or has no address yet; the sweep is idle. `NoSharedVip` then follows from it, `AddressesExclusive` and
`FixedOfTheirUser` (inductive with `IInv`).

The refinement needs all of these. At a Grant the user holds nothing
(`AcquireIsExclusive`), and no other user holds the address (`UsersApart`): two
dynamic addresses differ by `AddressesExclusive`, two fixed ones and one of each
by `FixedOfTheirUser` and `FixedAddressesApart`. At a Reassign and a Revoke the
IKE_SA the lease belongs to must carry nothing, unless the lease stays with it:
`ConnectionsInv` says that of every other IKE_SA of the user while one is in
`acquire_address`, and of every IKE_SA inside a release. A Deliver adds the
address of the lease under both indexes (`AcquiredLeaseStays`).

`PolicyInv` says who points at what: the active snapshot, the fresh one of a
reloader before the swap and the old one after it are all different, and what a
reloader loaded under the lock is no older than what is in force. `OneOwner` and
`PolicyNeverGoesBack` follow. `PluginLifecycle`'s invariant relates the three
sides of an unload: registration flags to the loader's step, `terminating` and
`sweep_lock` to the job's, the reference count to both. `FreedAfterLastUse`
needs all of them, because a worker inside the plugin has no reference and is
safe only while it is registered. `YamlInv` goes from where the loader is to
what it loaded to what it owns. `IdentityInv` says that the end of
authentication moves the EAP identity without changing what is chosen.

Model-checked only: `CallsReturn`, `OrphanReclaimed`, `ReloadsEnd`, `UnloadEnds`,
`PluginFreed`. Liveness under fairness is out of the prover's reach; every other
property of a passing run is stated by a theorem.

## Not modelled

* The crash of charon when the copy of a user name fails at `session_manager.c:62`
  or `fixed_pool.c:56`: the code passes the NULL to a hash table, and nothing
  comes after.
* Weak memory: the policy pointer is a plain `volatile` store.
* charon itself, beyond what is described above; in particular the transfer of
  addresses to a rekeyed IKE_SA, cancelling a worker in the middle of a sweep,
  and a reload while the plugin unloads.
* charon's hash table, of which `fixed_pool.c:57` assumes that `put` keeps the
  old key.
* Policy files outside the documented shape (nested unknown sections,
  sequences, aliases), which nothing is promised for; names longer than the
  loader's buffer.
* The length of the sweep interval (`plugin.c:120`, where it may wrap): the job
  may run again at any time.
* Logging, build files, the sample policy and the start script: no state.

## Plan

1. Done: every component, the abstract leases, and the theorems above. No safety
   property is left to model checking alone.
2. What liveness rests on and can be stated without it: that some step of every
   thread inside a call can be taken unless the lock's holder can move; that the
   steps of an unload cannot wait for each other in a circle.
