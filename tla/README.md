# TLA+ models of the fusefs node cache

These are TLA+ models of `src/usr/src/uts/common/fs/fusefs/fusefs_node.c`, the
fusenode cache of the illumos FUSE client. TLC checks them.

## The system

The file keeps one fusenode (and its vnode) per remote path of a mounted FUSE
file system. It has three shared structures:

- **Path index**, one per mount: the AVL tree `fmi_hash_avl`, guarded by the
  rwlock `fmi_hash_lk` and ordered by `fusefs_node_cmp` on `(n_rpath, n_rplen)`.
  An indexed node has `RHASHED` set.
- **Freelist**, process-wide: the circular list `fusefreelist` under
  `fusefreelist_lock`. It holds cached nodes that nobody references.
- **Reference count** of each vnode, `v_count` under `v_lock`. Its
  discipline: v_count = references owned by threads + 1 if the node is on the
  freelist. Being in the index contributes no count.

The operations, all run by concurrent kernel threads:

| Operation | Code | What it does |
|---|---|---|
| lookup / create | `fusefs_node_findcreate`, `make_fusenode`, `sn_hashfind` | find by path under the reader lock; a hit on the freelist takes over the freelist's reference. To create: drop the lock, take a freelist victim (at or over `nfusenode`, possibly hashed in another mount) or allocate, take the writer lock, look up again and either insert or lose the race. |
| release | `fusefs_addfree` (from `fusefs_inactive`) | destroy the node (unhashed, unmounted, or too many nodes) or append it to the freelist, each after rechecking `v_count`. |
| unhash | `fusefs_rmhash` | a vnode operation (remove, rename) takes its node out of the index. |
| reclaim | `fusefs_node_reclaim` | the kmem callback drains the freelist. |
| unmount | `fusefs_destroy_table` | moves busy nodes to a new tree and destroys the inactive ones. |
| busy check | `fusefs_check_table` | under the reader lock, counts the mount's nodes that are off the freelist or dirty; the unmount code outside this file uses the count. |
| prune | `fusefs_attrcache_prune` | invalidates the attributes of every `/` and `:` descendant of a node by walking the AVL tree. |

Every "recheck" in the file (`v_count > 1` at 338, 354, 508, 545, 567 and
1162; `r_freef` at 715/723; the second `sn_hashfind` at 433) exists because a
lock was dropped in between. Those gaps are what the models explore.

## Modules

### `NodeCache.tla`: the cache protocol (model `MCNodeCache.tla`)

**State.** `avl[m]` is the set of nodes in mount `m`'s tree and `freelist` is
a sequence (the head is the oldest). The per-node state is `vcount`, `alloc`
(slot of `fusenode_cache` in use), `rpath`, `nmount` and `pages`. `pages`
means the VM may `VN_HOLD` the vnode. It is set on creation and cleared on
recycle or destroy. The counters are `nodenew` (`fusenodenew`) and
`vfsref[m]` (the VFS_HOLDs this file took). `unmounted[m]` is
`VFS_UNMOUNTED`. The locks are `wlock[m]` and `rlock[m]` (readers holding
across a step).

**Threads.** Threads are model values. `Workers` run vnode operations,
reclaim and unmount. `Pagers` are VM threads that `VN_HOLD` vnodes with
pages. `RmHashers` are the workers whose operations call `fusefs_rmhash`.

**Steps.** Each thread has a program counter `pc` and its C locals (`np`,
`res`, the tmp_avl `tmp` and `rlist` of destroy_table). A step ends at each
blocking lock acquisition and wherever the code reads shared state unlocked
and uses it later. Each `pc` value is one of these atomic steps:

- `FindCreate`/`TopFind`, `HfLock`: `sn_hashfind` and its freelist check.
- `MkFree`, `MkHashedRead`, `MkVictimLock`, `MkInactive`, `MkAlloc`,
  `MkWriteLock`, `MkRestart`, `MkReacquire`: `make_fusenode`, split at
  lines 320, 329 (the victim's `RHASHED` is read at 333, after
  `fusefreelist_lock` is dropped), 336, 353, 426 and 442.
- `AddFree` (the policy test), `AfHashedRead` (the second unlocked `RHASHED`
  read at 505), `AfDestroyLock`, `AfInactive`, `AfFreeLock`:
  `fusefs_addfree`. A caller enters it with `AddFree` and gets back through
  `afk`. A node whose first read showed it unhashed skips `AfHashedRead`.
  Only `make_fusenode` hashes a node, and only its own new node, so the
  second read would give the same answer.
- `ReclaimStart`/`ReclaimLoop`/`RcHashedRead`/`ReclaimLock`: reclaim, with
  the `RHASHED` read at 1157 after the unlock at 1156 as a step of its own.
- `AssertRHashed`: the `ASSERT(RHASHED)` of `sn_rmhash_locked` (656) fails.
  A thread read `RHASHED` unlocked, took the writer lock and saw v_count 1 on
  a node that is no longer hashed. A DEBUG kernel panics, so the thread
  goes to `"panic"` and the whole model stops (`Halted`, a stuttering step).
  In the branches where the assertion holds, `RmHashLocked` requires the
  node to be hashed. A non-DEBUG kernel would run `avl_remove` on a node
  that is not in the tree, corrupting it, and the model does not follow
  that.
- `DtLock`/`DtDrain`/`DtRlist`: `fusefs_destroy_table`. `DtDrain` removes
  one node per step, in any order.
- `RmHash`: `fusefs_rmhash`. It does not test `RHASHED` itself. Its callers
  are outside this repository, and they call it on a node that is still
  hashed.
- `CheckTable`/`CtStep`/`CtReturn`: `fusefs_check_table`, one loop
  iteration per step, holding the reader lock. It takes the non-DEBUG
  `fusefs_check_table_debug = 0` and breaks at the first busy node. A node with
  pages may be `RDIRTY`, since the write path outside this file sets that
  flag. `ct[t]` holds the nodes left to visit, `busycnt`, and a history
  field: the nodes that were off the freelist at `rw_enter`.
- `Release` is `VN_RELE`/`fusefs_inactive`. `VmHold` is the VM's hold.
  `Unmount` sets `VFS_UNMOUNTED`. These three are outside this file and are
  modelled from the spec. `fusefs_node_findcreate` does not test
  `VFS_UNMOUNTED`, so lookups on an unmounted mount go on in the model too.

**Constants.** `Checkers` are the workers whose unmount calls
`check_table`, and `RmHashers` those whose operations call `fusefs_rmhash`.

**Fairness.** `FairSpec` adds fairness to `Spec`:
- Strong fairness for `Continue(t)`, the steps of an operation in progress.
  These steps wait for `fmi_hash_lk` and are only intermittently enabled. An
  illumos rwlock queues waiters on a turnstile and hands the lock to them on
  `rw_exit`, so no waiter is passed over forever.
- Weak fairness for `Release`: a holder eventually does `VN_RELE`.
- Weak fairness for reclaim while `MemoryWait`. A `KM_SLEEP` allocation
  waiting on a full cache makes kmem reap its caches, and that calls
  `fusefs_kmem_reclaim`, which was registered at line 1099.
- No fairness for `StartOp`: lookups, VM holds, rmhash, unmount, check_table
  and reclaim without memory pressure are up to the rest of the kernel.

**Abstracted.** A remote path is a model value; `PathOrder` covers the byte
strings. `r_count` and `r_error` are never written in this file and stay 0.
Credentials, attributes, page flushing and `n_ino` are not modelled.

### `CacheIndex.tla`: what the cache promises

`CacheIndex` is the cache with every operation atomic. Its state:
- `index[m][p]`, the node of path `p` in mount `m`, or none;
- `got[t]`, the node worker `t` holds from its last lookup.

Its steps:
- `Find`: a lookup returns the node its path maps to now.
- `Create`: a miss links a node that no path of any mount maps to and no
  worker holds.
- `Unlink`: a mapping disappears (rmhash, recycling, reclaim, destroy).
- `Put`: the worker releases its node.

`NodeCache` refines it with this mapping:
- `index` is read from the AVL trees by path.
- While destroy_table drains a mount under the writer lock, the mount's index
  is the tree together with its `tmp_avl`. Moving a busy node aside is then
  a stuttering step, and only the freelist nodes it destroys are unlinked.
- `got` is `res` restricted to the workers. VM holds are not lookups.

Every other step of the protocol must leave this view unchanged.

### `FreeRing.tla` and `FreeList.tla`: the freelist ring and its refinement

`FreeList` is the abstract freelist: a queue with append at the tail and
removal of any member. `NodeCache` uses this view of the freelist.

`FreeRing` is the code's own data structure:
- the head `fusefreelist` and the `r_freef`/`r_freeb` links of each node;
- `AddTail`, the pointer stores of lines 578-588 of `fusefs_addfree`;
- `SnRmFree`, the stores of `sn_rmfree`, with each store seeing the one
  before it.

Both operations run under `fusefreelist_lock`, so each is one step. `RingSeq`
reads the ring into a sequence by walking `r_freef` from the head (the
recursive `Walk`). `Abstract == INSTANCE FreeList WITH list <- RingSeq` is
the refinement mapping.

### `PathOrder.tla`: comparator and prune walk

A path is a sequence of byte values.

- `NodeCmp` is `fusefs_node_cmp` over `StrNCmp` (`strncmp` with the NUL
  terminator `Byte(s, Len(s)+1) = 0`).
- `Succ` is `avl_walk(AVL_AFTER)` in the order `NodeCmp` gives.
- `AddHash`/`RmHash` change the tree.
- `PruneStart`/`PruneStep`/`PruneEnd` are `fusefs_attrcache_prune`, one loop
  iteration per step. The walk holds the reader lock, so the tree does not
  change during it.
- `RefCmp` and `Descendants` are the reference definitions the code is
  checked against.

### `SubrInit.tla`: cache sizing in C arithmetic (model `MCSubrInit.tla`)

`nfusenode` is a `long`, `ncsize` an `int`, and `nfusenode_max` a
`ulong_t`. TLC's integers are 32 bits, so the widths are
the constants `LongBits` (16 in the run) and `IntBits` (8). Which branch
each comparison takes depends only on the signs and on `int` fitting in
`long`, and any such pair of widths keeps both.

- `Init` is the boot state (line 104). The tunable `nfusenode`, `ncsize`
  and what `kmem_maxavail()` returns are chosen from boundary values: negative,
  zero, small and the type's top. `tunable` is a history variable that keeps
  the boot value of `nfusenode`.
- `Subrinit` is lines 1087-1095. `ToULong` is the conversion of the `long` in
  `nfusenode > nfusenode_max`, and `ToLong` is the conversion of the assignment
  back. `NFuseNodeMax` is the `>> 2` and the division.
- `fusefs_subrinit` runs once, so the model stops after `Subrinit`.

## Properties

### NodeCache

- `TypeOK`
- `RefCountExact`: v_count = the references threads own + 1 if on the
  freelist, and it is at least 1 while the node is allocated. This is the
  reference transfer of sn_hashfind and the retry idiom.
- `NoStaleNode`: every node in an index, on the freelist or owned by a thread
  is allocated. Indexed nodes carry their mount and path, and a lookup's
  result has the path and mount asked for. This is spec goal "no observer
  sees a stale node". It holds only without `fusefs_rmhash`; see
  rmhash_inactive_held.
- `IndexUnique`: at most one node per (mount, path). This is spec P1.
- `FreeNodesCached`: freelist nodes are hashed. It holds only without
  `fusefs_rmhash`; see below.
- `ResourceAccounting`: `fusenodenew` equals the allocated slots, and each
  vfs's holds equal its allocated nodes.
- `DestroyAsserts`: the ASSERTs of `fusefs_addfree` (481, 484) and
  `sn_destroy_node` (995-1001) hold whenever a thread reaches them. The node
  is off the freelist and held, and it is unhashed and off the freelist when
  destroyed with v_count 1 (`sn_inactive` at 376 too).
- `CheckTableSnapshot`: when `check_table` ends its walk with busycnt 0,
  every node of the tree was on the freelist when it took `fmi_hash_lk`.
  Removals from the freelist may race the walk. Insertions cannot, because
  `fusefs_addfree` appends only under the writer lock (564).
- `OperationsComplete` (under `FairSpec`): once no new operation starts,
  every thread that started one returns to idle. This covers the `goto start`
  retries (344, 358), the reclaim loop (1154), destroy_table and a `KM_SLEEP`
  allocation on a full cache. The property is conditional on quiescence
  (`<>[][no StartOp]_vars => ...`). The code does not exclude starvation
  under an endless stream of holds, and no run claims it does.
- `ImplementsCacheIndex`: `Index!Spec`, the refinement above. It fails as
  soon as any step between two lock drops shows callers a map that no atomic
  sequence of operations produces, for example a lookup that returns a node
  already unlinked.
- `UnmountDestroysInactive`, `CallerHoldsTwo`, `RmHashAsserts`,
  `InactiveOnlyPagerRefs`: claims of the spec and the code, checked in the
  violation runs below. `InactiveOnlyPagerRefs` is the comment at 526-532:
  when `fusefs_addfree` inactivates a node (or `make_fusenode` does, 351),
  only the VM can have taken a reference since it was unhashed, so no other
  worker holds it.

### FreeRing

- `TypeOK`: `r_freef` and `r_freeb` are NULL together.
- `RingWellFormed`: `freeb[freef[n]] = n = freef[freeb[n]]` on the ring, the
  head is on it, and the walk from the head meets exactly the nodes with
  `r_freef != NULL`. This is spec P3, and it is what the `r_freef` tests of
  `sn_hashfind` and destroy_table rely on.
- `ImplementsFreeList`: `Abstract!Spec`, which says every ring step is an
  append or a removal of the queue.

### PathOrder

- `TypeOK`: also requires the walk cursor to stay in the tree.
- `CmpIsStrOrder`: `fusefs_node_cmp` agrees with the string order on every
  indexed pair. This is spec P5; it makes `avl_find` exact.
- `PruneCorrect`: at loop exit, `attrcache_remove` has been called once on
  each descendant and on nothing else. This is spec P8.

### SubrInit

- `NFuseNodeSized`: after `fusefs_subrinit`, `nfusenode` is `RefTarget`, the
  spec's `nodes_target`. That is the tunable if set, or else `ncsize`, clamped
  to (memory / 4) / sizeof(node), and the clamp itself when neither is
  positive. A negative `ncsize` reaches the clamp only through the unsigned
  comparison, and 0/0 reaches it only through the second clause.
  `nfusenode` is therefore never negative, so the `ulong_t`-against-`long`
  tests at 326 and 501 behave as the plain comparisons NodeCache uses with
  `NFuseNode`.

## Runs

| Run | Config | Expect | Shows |
|---|---|---|---|
| cache_two_mounts | MCNodeCache2.cfg | pass (2.59M states) | the eight invariants, with check_table and cross-mount recycling |
| cache_rmhash | MCNodeCacheRmHash.cfg | pass (127k states) | counts, uniqueness, accounting and the destroy ASSERTs under concurrent `fusefs_rmhash`, without the VM thread, up to a failed ASSERT at 656 |
| cache_liveness | MCNodeCacheLive.cfg | pass (564k states) | `OperationsComplete` under `FairSpec` |
| cache_refinement | MCNodeCacheRefine.cfg | pass (78k states) | the two-mount instance without the VM thread refines `CacheIndex` |
| cache_refinement_rmhash | MCNodeCacheRefineRmHash.cfg | pass (936k states) | the same on one mount with the VM thread and concurrent `fusefs_rmhash`, on two slots with `NFuseNode = 1`, up to a failed ASSERT at 656 |
| free_ring | FreeRing.cfg | pass (326 states) | the ring stays well formed and refines `FreeList` |
| path_order | PathOrder.cfg | pass (729k states) | comparator and prune against the reference definitions |
| subrinit_sizing | SubrInit.cfg | pass (120 states) | the sizing of `nfusenode` over boundary inputs |
| unmount_race | MC_UnmountDestroysInactive.cfg | violation | an inactive node survives a forced unmount on the freelist |
| caller_refcount | MC_CallerHoldsTwo.cfg | violation | callers hold v_count 1, not the spec's >= 2 |
| rmhash_stale_rhashed | MC_RmHashAsserts.cfg | violation | `sn_rmhash_locked` is called on an unhashed node |
| rmhash_inactive_held | MC_InactiveOnlyPagerRefs.cfg | violation | a node another worker holds is inactivated, its `n_rpath` freed |

### What the violations show

**unmount_race.** w1 drops the last reference, and `fusefs_addfree`'s
unlocked policy test chooses the freelist. w2 then sets `VFS_UNMOUNTED`, and
destroy_table sees the node off the freelist and keeps it as busy. w1 then
takes the writer lock and appends the node to the freelist. The unmounted vfs
keeps a hold and an inactive node, against the comment at lines 895-897.

**rmhash_stale_rhashed.** Reclaim pops a hashed node and reads `RHASHED`.
Another holder finds the node, calls `fusefs_rmhash` and releases it. Reclaim
takes the writer lock, sees v_count 1 and calls `sn_rmhash_locked` on a node
that is no longer in the tree: the ASSERT at 656 fails, and `avl_remove`
runs on a foreign node. `make_fusenode` (333) and `fusefs_addfree` (505) have
the same pattern.

**rmhash_inactive_held.** Reclaim pops n1 off the freelist and drops
`fusefreelist_lock`. w2 finds n1 in the tree, takes a `VN_HOLD` and unhashes
it with `fusefs_rmhash`. Reclaim now reads `RHASHED` clear (1157) and hands
n1 to `fusefs_addfree`. Its `sn_inactive` (523) frees `n_rpath` and `r_cred`
before the v_count recheck, which then only drops reclaim's count. w2 still
holds n1, and its path is gone. The comment at 526-532 says only a
`VOP_PUTPAGE` reference can exist there. `make_fusenode` has the same
window between 333 and 351. In cache_rmhash this trace breaks `NoStaleNode`,
so that run does not check it.

**caller_refcount.** This is a disagreement between the spec and the code.
The code's count has no share for the index.

**FreeNodesCached with rmhash.** The same unlocked `RHASHED` test lets an
unhashed node be pooled. The code handles unhashed freelist nodes on purpose
(the `RHASHED` tests in `make_fusenode` and reclaim), so that run leaves the
property out and this is not reported as a defect.

### Mutants

Each property of a passing run is paired with a plausible bug that it
catches:

| Mutant | Bug | Caught by |
|---|---|---|
| `MkVictimLockNoDrop` | the abandon path without `v_count--` | `RefCountExact` |
| `MkVictimLockNoRecheck` | no recheck | `NoStaleNode` |
| `MkWriteLockNoRecheck` | no second `sn_hashfind` | `IndexUnique` |
| `AddFreeKeepUnhashed` | policy without `!RHASHED` | `FreeNodesCached` |
| `MkInactiveNoVfsRele` | line 375 missing | `ResourceAccounting` |
| `AfInactiveEarlyCount` | `fusenodenew--` before the recheck | `TypeOK` |
| `NodeCmpNoLenTie` | no length tie-break | `CmpIsStrOrder` |
| `PruneStepBreakOnSkip` | break at "foo bar" | `PruneCorrect` |
| `RmHashNoLock` | prune without the lock | `TypeOK` |
| `DtDrainNoRmFree` | destroy_table lists a freelist node without `sn_rmfree` | `DestroyAsserts` |
| `AfFreeLockNoHashLock` | append without `fmi_hash_lk` (564) | `CheckTableSnapshot` |
| `HfLockNoRwExit` | a freelist hit returns without `rw_exit` (241) | `OperationsComplete` |
| `TopFindUnlocked` | a freelist hit taken after `fmi_hash_lk` is let go | `ImplementsCacheIndex` |
| `SnRmFreeKeepBack` | line 618 clears `r_freef` only | FreeRing `TypeOK` |
| `SnRmFreeNoBackLink` | line 616 missing | `RingWellFormed` |
| `AddTailAtHead` | the new node becomes the head (LIFO) | `ImplementsFreeList` |
| `SubrinitNoZeroCase` | line 1091 without `nfusenode == 0 && ncsize == 0` | `NFuseNodeSized` |

## Bounds and why they suffice

**NodeCache.** Two workers and one pager, three node slots, two paths (one
path in the two-mount run), and `NFuseNode = 2`. With these bounds:

- three slots with a soft limit of 2 reach both the recycle branch
  (`nodenew >= nfusenode`) and the destroy branch (`nodenew > nfusenode`);
- two workers on one path reach the lost race and the find-versus-recycle
  race;
- the pager reaches the v_count rechecks after unhashing, which only a VM
  hold can trigger.

Symmetry permutes nodes, paths, workers and, in the two-mount run, mounts.
All of these are interchangeable model values. Both workers may run
check_table, except in cache_rmhash: `fusefs_rmhash` needs the writer lock,
so it cannot overlap the walk, and leaving check_table out keeps that run
small. cache_rmhash also has no VM thread (with it the run has 3.9M states);
the VM thread meets `fusefs_rmhash` in cache_refinement_rmhash and in the
two rmhash violation runs.

**Refinement.** The two-mount instance without the VM thread, because cross-mount recycling is
the path where a node leaves one mount's map and enters another's. There is
no check_table here, since it only reads and so is a stuttering step. With
rmhash, the run uses two slots and `NFuseNode = 1`. That still reaches both
the recycle branch (`>= 1`) and the destroy branch (`> 1`), and the stale
`RHASHED` race. On three slots the run takes close to five minutes, because
TLC checks the action property on every transition. When that race reaches
`sn_rmhash_locked` on an unhashed node, the run stops at the failed ASSERT
at 656 (`AssertRHashed`); the refinement is checked up to that panic.

**Liveness.** One mount, two paths, two workers, no VM thread, two slots,
and `NFuseNode = 2`. With two slots the cache fills, so a creator that chose
to allocate can sleep on a full cache. Recycling starts with both slots in
use, so a lookup can make a recycler back off and restart. TLC does not
combine symmetry with liveness, so the run has none. With the VM thread the
state graph has 1.8M states, and the liveness check on it does not finish
in reasonable time.

**FreeRing.** Five nodes, with every order of appends and removals, which
covers the empty ring, the single-node ring and removing the head, the tail
and a middle node.

**PathOrder.** Bytes `' ' < '/' < ':' < 'a'`, paths up to 3 bytes, and up to
3 indexed paths. These contain the boundary cases: a sibling with a shared
prefix that sorts before the first descendant ("a a" < "a/a"), both
separators, and prefix pairs for the tie-break.

**SubrInit.** The tunable takes the values {-1, 0, 2, 2^15-1}, `ncsize` takes
{-2^7, -1, 0, 3, 2^7-1}, and the free memory takes {0, 64, 2^16-1}, with
`sizeof = 8`. This gives every branch: a tunable used or ignored, a hint
above or below the clamp, a clamp of 0, and a negative `ncsize`.

## Fairness

Only cache_liveness assumes fairness (`FairSpec`, see NodeCache above). All
other runs check safety with deadlock checking on.

## Not modelled

- `fusefs_nget`: name validation around one findcreate call. The separator it passes comes from `FUSEFS_DNP_SEP`, which is defined outside this repository.
- The rest of `fusefs_subrinit` and all of `fusefs_subrfini`. They create
  and destroy the kmem cache and the locks, and no decision in them is
  left for a property. SubrInit models the sizing. NodeCache takes its
  result as the constant `NFuseNode`.
- `fusefs_rflush` (an empty stub).
- `fusefs_gethash`.
- The caller of `fusefs_check_table` and the rest of unmount, which live in
  the vfs operations outside this file.
- Attribute application and page flushing, which live in other files.

## Plan for later work

1. **Bounded population.** Spec P6 bounds the population "plus a transient
   slack". In the code, a creator that read `fusenodenew < nfusenode` at 326
   allocates after other creators have filled the cache. The surplus then
   stays, next to pooled nodes, until a release destroys a node (the `>` at
   501) or a create recycles one. The slack is not bounded by anything in
   flight, so P6 has no exact form to check. The hazard at 326 records this.
2. **Composition.** `NodeCache` uses the freelist only through `Append`,
   `Remove` and `Head`. These are the `AddTail`, `sn_rmfree` and
   `fusefreelist` of `FreeRing`, which the free_ring run shows refine the
   queue. Running `NodeCache` on the ring's pointers would check nothing
   more, so it is not planned.
3. **Liveness with the VM thread,** if a smaller encoding of the pager makes
   it fit.
