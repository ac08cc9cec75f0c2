----------------------------- MODULE NodeCache -----------------------------
(***************************************************************************)
(* The fusefs node cache of usr/src/uts/common/fs/fusefs/fusefs_node.c:   *)
(* the per-mount AVL "hash" of fusenodes keyed by remote path, the        *)
(* process-wide fusenode freelist, the vnode reference count v_count and  *)
(* the kmem cache of fusenodes, driven by concurrent kernel threads.      *)
(*                                                                         *)
(* Each thread runs one of the file's entry points as a sequence of      *)
(* atomic steps.  A step boundary sits at every blocking lock acquisition *)
(* and wherever the code reads shared state without the lock that        *)
(* protects it and uses it later; a section executed entirely under      *)
(* v_lock or fusefreelist_lock, which never block inside, is one step.    *)
(*                                                                         *)
(* Data is abstracted: a remote path is a model value (the byte string    *)
(* and its length are the key), a node is a slot of the kmem cache, and   *)
(* the AVL tree of a mount is the set of nodes linked into it.            *)
(***************************************************************************)
EXTENDS Integers, Sequences, FiniteSets, SequencesExt

CONSTANTS
    Mounts,     \* fusemntinfo_t instances (one per mounted vfs)
    Paths,      \* remote path names (n_rpath, n_rplen)
    Nodes,      \* slots of fusenode_cache; bounds the kmem cache
    Workers,    \* kernel threads running vnode operations on the cache
    Pagers,     \* VM threads that VN_HOLD vnodes with cached pages
    RmHashers,  \* workers whose vnode operations call fusefs_rmhash
    Checkers,   \* workers whose unmount calls fusefs_check_table
    NFuseNode,  \* nfusenode: soft ceiling on allocated fusenodes
    NoNode, NoPath, NoMount, NoThread

Threads == Workers \cup Pagers

ASSUME Workers \cap Pagers = {}
ASSUME RmHashers \subseteq Workers /\ Checkers \subseteq Workers
ASSUME NFuseNode \in Nat \ {0}
ASSUME {NoNode, NoPath, NoMount, NoThread} \cap (Nodes \cup Paths \cup Mounts \cup Threads) = {}

VARIABLES
    avl,        \* avl[m]: nodes linked into fmi_hash_avl of mount m
    freelist,   \* fusefreelist, oldest first (r_freef / r_freeb ring)
    vcount,     \* vcount[n]: v_count of the vnode of n
    alloc,      \* alloc[n]: n is allocated from fusenode_cache
    rpath,      \* rpath[n]: n_rpath, NoPath when NULL
    nmount,     \* nmount[n]: n_mount, also the vfs held through v_vfsp
    pages,      \* pages[n]: the vnode may have cached pages, so the VM may VN_HOLD it
    nodenew,    \* fusenodenew: count of allocated fusenodes
    vfsref,     \* vfsref[m]: VFS_HOLDs on the vfs of m taken by this file
    unmounted,  \* unmounted[m]: VFS_UNMOUNTED set in vfs_flag of m
    wlock,      \* wlock[m]: writer of fmi_hash_lk, NoThread if none
    rlock,      \* rlock[m]: readers holding fmi_hash_lk across a step
    pc,         \* pc[t]: where thread t is
    mnt,        \* mnt[t]: mount argument of the operation of t
    key,        \* key[t]: remote path being looked up by t (rpath)
    np,         \* np[t]: node t owns a reference to and is working on
    res,        \* res[t]: node t owns a reference to and returns or holds
    fnd,        \* fnd[t]: node found by sn_hashfind, reference not yet taken
    hfk,        \* hfk[t]: caller of sn_hashfind to return to
    afk,        \* afk[t]: caller of fusefs_addfree to return to
    rlist,      \* rlist[t]: destroy list of fusefs_destroy_table
    tmp,        \* tmp[t]: tmp_avl of fusefs_destroy_table (busy nodes)
    ct          \* ct[t]: walk of fusefs_check_table: nodes left, busycnt, and
                \* (history) the nodes off the freelist when the walk began

cache  == <<avl, freelist, vcount, alloc, rpath, nmount, pages, nodenew, vfsref, unmounted>>
locks  == <<wlock, rlock>>
locals == <<pc, mnt, key, np, res, fnd, hfk, afk, rlist, tmp, ct>>
vars   == <<cache, locks, locals>>

-----------------------------------------------------------------------------
(* Derived state.                                                           *)

\* r_freef != NULL
OnFree(n) == \E i \in 1..Len(freelist) : freelist[i] = n

\* RHASHED: set while linked into a mount's AVL, and kept by
\* fusefs_destroy_table for the busy nodes it moves to tmp_avl.
Hashed(n) == (\E m \in Mounts : n \in avl[m]) \/ (\E t \in Workers : n \in tmp[t])

\* avl_find over fusefs_node_cmp: the nodes whose path equals p.
Match(m, p) == {n \in avl[m] : rpath[n] = p}

CanRead(m)  == wlock[m] = NoThread
CanWrite(m) == wlock[m] = NoThread /\ rlock[m] = {}

\* The vnode references thread t owns.
Owned(t) == ({np[t], res[t]} \ {NoNode}) \cup ToSet(rlist[t])


\* sn_rmfree: unlink n from the freelist, fusefreelist_lock held.
SnRmFree(n) == freelist' = Remove(freelist, n)

\* sn_inactive: drop r_cred and free n_rpath under r_statelock.
SnInactive(x) == rpath' = [rpath EXCEPT ![x] = NoPath]

\* sn_destroy_node, v_count being 1: fusenodenew--, vn_invalid, vn_free,
\* kmem_cache_free, VFS_RELE.
SnDestroyNode(x) ==
    /\ vcount'  = [vcount EXCEPT ![x] = 0]
    /\ alloc'   = [alloc EXCEPT ![x] = FALSE]
    /\ nmount'  = [nmount EXCEPT ![x] = NoMount]
    /\ pages'   = [pages EXCEPT ![x] = FALSE]
    /\ nodenew' = nodenew - 1
    /\ vfsref'  = [vfsref EXCEPT ![nmount[x]] = @ - 1]

\* sn_rmfree when on the freelist (the freelist reference passes to the
\* finder), VN_HOLD otherwise: lines 715-731 of sn_hashfind.
TakeRef(f) ==
    IF OnFree(f)
    THEN /\ SnRmFree(f)
         /\ UNCHANGED vcount
    ELSE /\ vcount' = [vcount EXCEPT ![f] = @ + 1]
         /\ UNCHANGED freelist

\* sn_rmhash_locked: avl_remove and clear RHASHED, fmi_hash_lk held as
\* writer.  Its ASSERT(RHASHED) (line 656) is AssertRHashed below; this
\* branch is the one taken when the assertion holds.
RmHashLocked(x) ==
    /\ Hashed(x)
    /\ avl' = [avl EXCEPT ![nmount[x]] = @ \ {x}]

\* Drop the reference to x under v_lock (v_count > 1 branches).
Drop(x) == vcount' = [vcount EXCEPT ![x] = @ - 1]

-----------------------------------------------------------------------------
(* fusefs_addfree, called by t for a node it owns a reference to.          *)

\* End of fusefs_addfree: back to whichever caller invoked it.
AfReturn(t) ==
    /\ np' = [np EXCEPT ![t] = NoNode]
    /\ pc' = [pc EXCEPT ![t] = CASE afk[t] = "inactive" -> "idle"
                                 [] afk[t] = "lost"     -> "mk_reacq"
                                 [] afk[t] = "reclaim"  -> "rc_loop"
                                 [] afk[t] = "destroy"  -> "dt_rlist"]

\* Mutant: the policy test without (r_flags & RHASHED) == 0, so unhashed
\* nodes are pooled too.
AddFreeKeepUnhashed(t, x, h, k) ==
    /\ np'  = [np EXCEPT ![t] = x]
    /\ afk' = [afk EXCEPT ![t] = k]
    /\ pc'  = [pc EXCEPT ![t] =
                 IF unmounted[nmount[x]] \/ nodenew > NFuseNode
                 THEN IF h THEN "af_hread" ELSE "af_inact"
                 ELSE "af_flock"]

\* Entry of fusefs_addfree(x) by caller k, RHASHED being h.  The policy test
\* of lines 497-501 reads RHASHED, r_error and VFS_UNMOUNTED without
\* fmi_hash_lk; r_count and r_error stay 0 in this file.  A node read as
\* hashed is read again at line 505 (AfHashedRead); one read as unhashed
\* stays so, since only make_fusenode hashes, and only its own new node.
AddFree(t, x, h, k) ==
    /\ np'  = [np EXCEPT ![t] = x]
    /\ afk' = [afk EXCEPT ![t] = k]
    /\ pc'  = [pc EXCEPT ![t] =
                 IF ~h \/ unmounted[nmount[x]] \/ nodenew > NFuseNode
                 THEN IF h THEN "af_hread" ELSE "af_inact"
                 ELSE "af_flock"]

\* Line 505: RHASHED read again, still without fmi_hash_lk.
AfHashedRead(t) ==
    /\ pc[t] = "af_hread"
    /\ pc' = [pc EXCEPT ![t] = IF Hashed(np[t]) THEN "af_dlock" ELSE "af_inact"]
    /\ UNCHANGED <<cache, locks, mnt, key, np, res, fnd, hfk, afk, rlist, tmp, ct>>

\* Lines 505-521: destroy a hashed node; back off if another reference
\* appeared since the policy test.
AfDestroyLock(t) ==
    LET x == np[t] IN
    /\ pc[t] = "af_dlock"
    /\ CanWrite(nmount[x])
    /\ \/ /\ vcount[x] > 1
          /\ Drop(x)
          /\ AfReturn(t)
          /\ UNCHANGED avl
       \/ /\ vcount[x] = 1
          /\ RmHashLocked(x)
          /\ pc' = [pc EXCEPT ![t] = "af_inact"]
          /\ UNCHANGED <<vcount, np>>
    /\ UNCHANGED <<freelist, alloc, rpath, nmount, pages, nodenew, vfsref, unmounted,
                   locks, mnt, key, res, fnd, hfk, afk, rlist, tmp, ct>>

\* Mutant: fusefs_fusenodenew decremented before the v_count recheck, so
\* also when the destroy is abandoned.
AfInactiveEarlyCount(t) ==
    LET x == np[t] IN
    /\ pc[t] = "af_inact"
    /\ rpath' = [rpath EXCEPT ![x] = NoPath]
    /\ nodenew' = nodenew - 1
    /\ \/ /\ vcount[x] > 1
          /\ Drop(x)
          /\ UNCHANGED <<alloc, nmount, pages, vfsref>>
       \/ /\ vcount[x] = 1
          /\ vcount'  = [vcount EXCEPT ![x] = 0]
          /\ alloc'   = [alloc EXCEPT ![x] = FALSE]
          /\ nmount'  = [nmount EXCEPT ![x] = NoMount]
          /\ pages'   = [pages EXCEPT ![x] = FALSE]
          /\ vfsref'  = [vfsref EXCEPT ![nmount[x]] = @ - 1]
    /\ AfReturn(t)
    /\ UNCHANGED <<avl, freelist, unmounted, locks, mnt, key, res, fnd, hfk, afk, rlist, tmp, ct>>

\* Lines 523-552: sn_inactive, recheck v_count, sn_destroy_node.
AfInactive(t) ==
    LET x == np[t] IN
    /\ pc[t] = "af_inact"
    /\ SnInactive(x)
    /\ \/ /\ vcount[x] > 1
          /\ Drop(x)
          /\ UNCHANGED <<alloc, nmount, pages, nodenew, vfsref>>
       \/ /\ vcount[x] = 1
          /\ SnDestroyNode(x)
    /\ AfReturn(t)
    /\ UNCHANGED <<avl, freelist, unmounted, locks, mnt, key, res, fnd, hfk, afk, rlist, tmp, ct>>

\* Mutant: the node is appended under fusefreelist_lock alone, without
\* taking fmi_hash_lk as writer first (line 564).
AfFreeLockNoHashLock(t) ==
    LET x == np[t] IN
    /\ pc[t] = "af_flock"
    /\ \/ /\ vcount[x] > 1
          /\ Drop(x)
          /\ UNCHANGED freelist
       \/ /\ vcount[x] = 1
          /\ freelist' = Append(freelist, x)
          /\ UNCHANGED vcount
    /\ AfReturn(t)
    /\ UNCHANGED <<avl, alloc, rpath, nmount, pages, nodenew, vfsref, unmounted,
                   locks, mnt, key, res, fnd, hfk, afk, rlist, tmp, ct>>

\* Lines 564-591: under fmi_hash_lk as writer, recheck v_count and append
\* the node at the tail of the freelist.
AfFreeLock(t) ==
    LET x == np[t] IN
    /\ pc[t] = "af_flock"
    /\ CanWrite(nmount[x])
    /\ \/ /\ vcount[x] > 1
          /\ Drop(x)
          /\ UNCHANGED freelist
       \/ /\ vcount[x] = 1
          /\ freelist' = Append(freelist, x)
          /\ UNCHANGED vcount
    /\ AfReturn(t)
    /\ UNCHANGED <<avl, alloc, rpath, nmount, pages, nodenew, vfsref, unmounted,
                   locks, mnt, key, res, fnd, hfk, afk, rlist, tmp, ct>>

-----------------------------------------------------------------------------
(* fusefs_node_findcreate and make_fusenode.                               *)

\* Mutant: a node seen on the freelist is taken after fmi_hash_lk has
\* been let go, so writers may run before fusefreelist_lock is taken.
TopFindUnlocked(t, k) ==
    LET m == mnt'[t]
        p == key'[t]
        M == Match(m, p)
    IN
    /\ \/ /\ M = {}
          /\ pc' = [pc EXCEPT ![t] = IF k = "find" THEN "idle" ELSE "mk_free"]
          /\ UNCHANGED <<vcount, res, fnd, hfk>>
       \/ \E f \in M :
            /\ ~OnFree(f)
            /\ vcount' = [vcount EXCEPT ![f] = @ + 1]
            /\ res' = [res EXCEPT ![t] = f]
            /\ pc' = [pc EXCEPT ![t] = "idle"]
            /\ UNCHANGED <<fnd, hfk>>
       \/ \E f \in M :
            /\ OnFree(f)
            /\ fnd' = [fnd EXCEPT ![t] = f]
            /\ hfk' = [hfk EXCEPT ![t] = "find"]
            /\ pc' = [pc EXCEPT ![t] = "hf_lock"]
            /\ UNCHANGED <<vcount, res>>
    /\ UNCHANGED <<avl, freelist, alloc, rpath, nmount, pages, nodenew, vfsref, unmounted,
                   locks, np, afk, rlist, tmp, ct>>

\* sn_hashfind at the top of findcreate (k = "find", no attributes) or of
\* make_fusenode (k = "make"), fmi_hash_lk just taken as reader.  A node
\* off the freelist is held and returned at once (rw_exit of line 241); a
\* node seen on the freelist is taken by HfLock under fusefreelist_lock.
TopFind(t, k) ==
    LET m == mnt'[t]
        p == key'[t]
        M == Match(m, p)
    IN
    /\ \/ /\ M = {}
          /\ pc' = [pc EXCEPT ![t] = IF k = "find" THEN "idle" ELSE "mk_free"]
          /\ UNCHANGED <<vcount, rlock, res, fnd, hfk>>
       \/ \E f \in M :
            /\ ~OnFree(f)
            /\ vcount' = [vcount EXCEPT ![f] = @ + 1]
            /\ res' = [res EXCEPT ![t] = f]
            /\ pc' = [pc EXCEPT ![t] = "idle"]
            /\ UNCHANGED <<rlock, fnd, hfk>>
       \/ \E f \in M :
            /\ OnFree(f)
            /\ rlock' = [rlock EXCEPT ![m] = @ \cup {t}]
            /\ fnd' = [fnd EXCEPT ![t] = f]
            /\ hfk' = [hfk EXCEPT ![t] = "find"]
            /\ pc' = [pc EXCEPT ![t] = "hf_lock"]
            /\ UNCHANGED <<vcount, res>>
    /\ UNCHANGED <<avl, freelist, alloc, rpath, nmount, pages, nodenew, vfsref, unmounted,
                   wlock, np, afk, rlist, tmp, ct>>

\* fusefs_node_findcreate(mi, ..., fap) by worker t for path p: fap = NULL
\* when ~create, otherwise fusefs_fattr0 or real attributes (which only
\* differ in calls outside this file).
FindCreate(t, m, p, create) ==
    /\ t \in Workers
    /\ pc[t] = "idle"
    /\ res[t] = NoNode
    /\ CanRead(m)
    /\ mnt' = [mnt EXCEPT ![t] = m]
    /\ key' = [key EXCEPT ![t] = p]
    /\ TopFind(t, IF create THEN "make" ELSE "find")

\* Lines 342-344 and 357-358: retake fmi_hash_lk as reader, goto start.
MkRestart(t) ==
    /\ pc[t] = "mk_restart"
    /\ CanRead(mnt[t])
    /\ UNCHANGED <<mnt, key>>
    /\ TopFind(t, "make")

\* Mutant: a freelist hit of findcreate returns without the rw_exit of
\* line 241, leaking the reader hold on fmi_hash_lk.
HfLockNoRwExit(t) ==
    LET f == fnd[t]
        m == mnt[t]
    IN
    /\ pc[t] = "hf_lock"
    /\ TakeRef(f)
    /\ res' = [res EXCEPT ![t] = f]
    /\ fnd' = [fnd EXCEPT ![t] = NoNode]
    /\ \/ /\ hfk[t] = "find"
          /\ pc' = [pc EXCEPT ![t] = "idle"]
          /\ UNCHANGED <<rlock, wlock, np, afk>>
       \/ /\ hfk[t] = "recheck"
          /\ wlock' = [wlock EXCEPT ![m] = NoThread]
          /\ AddFree(t, np[t], FALSE, "lost")
          /\ UNCHANGED rlock
    /\ UNCHANGED <<avl, alloc, rpath, nmount, pages, nodenew, vfsref, unmounted,
                   mnt, key, hfk, rlist, tmp, ct>>

\* Second half of sn_hashfind (lines 716-729) under fusefreelist_lock, then
\* the caller resumes: findcreate returns (k = "find"), or make_fusenode
\* lost the race (k = "recheck", lines 439-444) and frees its new node.
HfLock(t) ==
    LET f == fnd[t]
        m == mnt[t]
    IN
    /\ pc[t] = "hf_lock"
    /\ TakeRef(f)
    /\ res' = [res EXCEPT ![t] = f]
    /\ fnd' = [fnd EXCEPT ![t] = NoNode]
    /\ \/ /\ hfk[t] = "find"
          /\ rlock' = [rlock EXCEPT ![m] = @ \ {t}]
          /\ pc' = [pc EXCEPT ![t] = "idle"]
          /\ UNCHANGED <<wlock, np, afk>>
       \/ /\ hfk[t] = "recheck"
          /\ wlock' = [wlock EXCEPT ![m] = NoThread]
          /\ AddFree(t, np[t], FALSE, "lost")
          /\ UNCHANGED rlock
    /\ UNCHANGED <<avl, alloc, rpath, nmount, pages, nodenew, vfsref, unmounted,
                   mnt, key, hfk, rlist, tmp, ct>>

\* Lines 320-329 and 377-383: fmi_hash_lk dropped; under fusefreelist_lock
\* take the oldest freelist node as victim when at or over nfusenode,
\* else go allocate.
MkFree(t) ==
    /\ pc[t] = "mk_free"
    /\ \/ /\ freelist # <<>>
          /\ nodenew >= NFuseNode
          /\ SnRmFree(Head(freelist))
          /\ np' = [np EXCEPT ![t] = Head(freelist)]
          /\ pc' = [pc EXCEPT ![t] = "mk_hread"]
       \/ /\ freelist = <<>> \/ nodenew < NFuseNode
          /\ pc' = [pc EXCEPT ![t] = "mk_alloc"]
          /\ UNCHANGED <<freelist, np>>
    /\ UNCHANGED <<avl, vcount, alloc, rpath, nmount, pages, nodenew, vfsref, unmounted,
                   locks, mnt, key, res, fnd, hfk, afk, rlist, tmp, ct>>

\* Line 333: RHASHED of the victim, read after fusefreelist_lock is let go
\* (329) and before the victim's mount lock is taken.
MkHashedRead(t) ==
    /\ pc[t] = "mk_hread"
    /\ pc' = [pc EXCEPT ![t] = IF Hashed(np[t]) THEN "mk_vlock" ELSE "mk_inact"]
    /\ UNCHANGED <<cache, locks, mnt, key, np, res, fnd, hfk, afk, rlist, tmp, ct>>

\* Mutant: the v_count > 1 back-off of line 338 forgets vp->v_count--.
MkVictimLockNoDrop(t) ==
    LET v == np[t] IN
    /\ pc[t] = "mk_vlock"
    /\ CanWrite(nmount[v])
    /\ \/ /\ vcount[v] > 1
          /\ np' = [np EXCEPT ![t] = NoNode]
          /\ pc' = [pc EXCEPT ![t] = "mk_restart"]
          /\ UNCHANGED <<avl, vcount>>
       \/ /\ vcount[v] = 1
          /\ RmHashLocked(v)
          /\ pc' = [pc EXCEPT ![t] = "mk_inact"]
          /\ UNCHANGED <<vcount, np>>
    /\ UNCHANGED <<freelist, alloc, rpath, nmount, pages, nodenew, vfsref, unmounted,
                   locks, mnt, key, res, fnd, hfk, afk, rlist, tmp, ct>>

\* Mutant: no v_count recheck under the victim's mount lock; the victim is
\* always unhashed and recycled.
MkVictimLockNoRecheck(t) ==
    LET v == np[t] IN
    /\ pc[t] = "mk_vlock"
    /\ CanWrite(nmount[v])
    /\ RmHashLocked(v)
    /\ pc' = [pc EXCEPT ![t] = "mk_inact"]
    /\ UNCHANGED <<vcount, np, freelist, alloc, rpath, nmount, pages, nodenew, vfsref,
                   unmounted, locks, mnt, key, res, fnd, hfk, afk, rlist, tmp, ct>>

\* Lines 334-348: unhash the victim from its own mount under that mount's
\* writer lock, unless someone referenced it since it left the freelist.
MkVictimLock(t) ==
    LET v == np[t] IN
    /\ pc[t] = "mk_vlock"
    /\ CanWrite(nmount[v])
    /\ \/ /\ vcount[v] > 1
          /\ Drop(v)
          /\ np' = [np EXCEPT ![t] = NoNode]
          /\ pc' = [pc EXCEPT ![t] = "mk_restart"]
          /\ UNCHANGED avl
       \/ /\ vcount[v] = 1
          /\ RmHashLocked(v)
          /\ pc' = [pc EXCEPT ![t] = "mk_inact"]
          /\ UNCHANGED <<vcount, np>>
    /\ UNCHANGED <<freelist, alloc, rpath, nmount, pages, nodenew, vfsref, unmounted,
                   locks, mnt, key, res, fnd, hfk, afk, rlist, tmp, ct>>

\* Mutant: a recycled node keeps its VFS_HOLD on the old vfs (no VFS_RELE,
\* the omission the comment at lines 370-374 warns about).
MkInactiveNoVfsRele(t) ==
    LET v == np[t] IN
    /\ pc[t] = "mk_inact"
    /\ rpath' = [rpath EXCEPT ![v] = NoPath]
    /\ \/ /\ vcount[v] > 1
          /\ Drop(v)
          /\ np' = [np EXCEPT ![t] = NoNode]
          /\ pc' = [pc EXCEPT ![t] = "mk_restart"]
          /\ UNCHANGED <<nmount, pages, vfsref>>
       \/ /\ vcount[v] = 1
          /\ pages'  = [pages EXCEPT ![v] = FALSE]
          /\ vfsref' = [vfsref EXCEPT ![mnt[t]] = @ + 1]
          /\ nmount' = [nmount EXCEPT ![v] = mnt[t]]
          /\ pc' = [pc EXCEPT ![t] = "mk_wlock"]
          /\ UNCHANGED <<vcount, np>>
    /\ UNCHANGED <<avl, freelist, alloc, nodenew, unmounted, locks, mnt, key, res, fnd,
                   hfk, afk, rlist, tmp, ct>>

\* Lines 351-376 and 395-419: sn_inactive, recheck v_count, vn_invalid,
\* VFS_RELE of the old vfs, vn_reinit; then rebuild the node for mi and
\* VFS_HOLD the new vfs.
MkInactive(t) ==
    LET v == np[t] IN
    /\ pc[t] = "mk_inact"
    /\ SnInactive(v)
    /\ \/ /\ vcount[v] > 1
          /\ Drop(v)
          /\ np' = [np EXCEPT ![t] = NoNode]
          /\ pc' = [pc EXCEPT ![t] = "mk_restart"]
          /\ UNCHANGED <<nmount, pages, vfsref>>
       \/ /\ vcount[v] = 1
          /\ pages'  = [pages EXCEPT ![v] = FALSE]
          /\ vfsref' = [vfsref EXCEPT ![nmount[v]] = @ - 1, ![mnt[t]] = @ + 1]
          /\ nmount' = [nmount EXCEPT ![v] = mnt[t]]
          /\ pc' = [pc EXCEPT ![t] = "mk_wlock"]
          /\ UNCHANGED <<vcount, np>>
    /\ UNCHANGED <<avl, freelist, alloc, nodenew, unmounted, locks, mnt, key, res, fnd,
                   hfk, afk, rlist, tmp, ct>>

\* Lines 385-389 and 395-419: kmem_cache_alloc and vn_alloc (KM_SLEEP: wait
\* for a free slot), count it in fusenodenew, initialise it for mi.
MkAlloc(t) ==
    /\ pc[t] = "mk_alloc"
    /\ \E n \in Nodes :
         /\ ~alloc[n]
         /\ alloc'  = [alloc EXCEPT ![n] = TRUE]
         /\ vcount' = [vcount EXCEPT ![n] = 1]
         /\ nmount' = [nmount EXCEPT ![n] = mnt[t]]
         /\ vfsref' = [vfsref EXCEPT ![mnt[t]] = @ + 1]
         /\ nodenew' = nodenew + 1
         /\ np' = [np EXCEPT ![t] = n]
    /\ pc' = [pc EXCEPT ![t] = "mk_wlock"]
    /\ UNCHANGED <<avl, freelist, rpath, pages, unmounted, locks, mnt, key, res, fnd,
                   hfk, afk, rlist, tmp, ct>>

\* Mutant: make_fusenode links its new node without searching again after
\* retaking fmi_hash_lk.
MkWriteLockNoRecheck(t) ==
    LET m == mnt[t]
        x == np[t]
    IN
    /\ pc[t] = "mk_wlock"
    /\ CanWrite(m)
    /\ avl'   = [avl EXCEPT ![m] = @ \cup {x}]
    /\ rpath' = [rpath EXCEPT ![x] = key[t]]
    /\ pages' = [pages EXCEPT ![x] = TRUE]
    /\ res' = [res EXCEPT ![t] = x]
    /\ np'  = [np EXCEPT ![t] = NoNode]
    /\ pc'  = [pc EXCEPT ![t] = "idle"]
    /\ UNCHANGED <<vcount, wlock, fnd, hfk, afk, freelist, alloc, nmount, nodenew, vfsref,
                   unmounted, rlock, mnt, key, rlist, tmp, ct>>

\* Lines 426-460 and 241: retake fmi_hash_lk as writer and search again.
\* Not found: link the new node under the path and return it.  Found: lost
\* the race, take a reference on the winner (through HfLock when it is on
\* the freelist) and give the new node to fusefs_addfree.
MkWriteLock(t) ==
    LET m == mnt[t]
        x == np[t]
        M == Match(m, key[t])
    IN
    /\ pc[t] = "mk_wlock"
    /\ CanWrite(m)
    /\ \/ /\ M = {}
          /\ avl'   = [avl EXCEPT ![m] = @ \cup {x}]
          /\ rpath' = [rpath EXCEPT ![x] = key[t]]
          /\ pages' = [pages EXCEPT ![x] = TRUE]
          /\ res' = [res EXCEPT ![t] = x]
          /\ np'  = [np EXCEPT ![t] = NoNode]
          /\ pc'  = [pc EXCEPT ![t] = "idle"]
          /\ UNCHANGED <<vcount, wlock, fnd, hfk, afk>>
       \/ \E f \in M :
            /\ ~OnFree(f)
            /\ vcount' = [vcount EXCEPT ![f] = @ + 1]
            /\ res' = [res EXCEPT ![t] = f]
            /\ AddFree(t, x, FALSE, "lost")
            /\ UNCHANGED <<avl, rpath, pages, wlock, fnd, hfk>>
       \/ \E f \in M :
            /\ OnFree(f)
            /\ wlock' = [wlock EXCEPT ![m] = t]
            /\ fnd' = [fnd EXCEPT ![t] = f]
            /\ hfk' = [hfk EXCEPT ![t] = "recheck"]
            /\ pc'  = [pc EXCEPT ![t] = "hf_lock"]
            /\ UNCHANGED <<avl, rpath, pages, vcount, res, np, afk>>
    /\ UNCHANGED <<freelist, alloc, nmount, nodenew, vfsref, unmounted, rlock, mnt, key,
                   rlist, tmp, ct>>

\* Line 442 then 241: after losing the race, retake and drop the reader lock.
MkReacquire(t) ==
    /\ pc[t] = "mk_reacq"
    /\ CanRead(mnt[t])
    /\ pc' = [pc EXCEPT ![t] = "idle"]
    /\ UNCHANGED <<cache, locks, mnt, key, np, res, fnd, hfk, afk, rlist, tmp, ct>>

-----------------------------------------------------------------------------
(* Releasing a reference: VN_RELE, and fusefs_inactive calling             *)
(* fusefs_addfree for the last one.                                        *)

Release(t) ==
    LET x == res[t] IN
    /\ pc[t] = "idle"
    /\ x # NoNode
    /\ res' = [res EXCEPT ![t] = NoNode]
    /\ \/ /\ vcount[x] > 1
          /\ Drop(x)
          /\ UNCHANGED <<pc, np, afk>>
       \/ /\ vcount[x] = 1
          /\ AddFree(t, x, Hashed(x), "inactive")
          /\ UNCHANGED vcount
    /\ UNCHANGED <<avl, freelist, alloc, rpath, nmount, pages, nodenew, vfsref, unmounted,
                   locks, mnt, key, fnd, hfk, rlist, tmp, ct>>

\* fusefs_rmhash (lines 670-678), called by a vnode operation of a worker
\* holding the node it looked up: take fmi_hash_lk as writer and unlink the
\* node.  fusefs_rmhash does not test RHASHED itself; its callers, outside
\* this repository, call it on a node that is still hashed.
RmHash(t) ==
    LET x == res[t] IN
    /\ t \in RmHashers
    /\ pc[t] = "idle"
    /\ x # NoNode
    /\ CanWrite(nmount[x])
    /\ RmHashLocked(x)
    /\ UNCHANGED <<freelist, vcount, alloc, rpath, nmount, pages, nodenew, vfsref,
                   unmounted, locks, locals>>

\* The VM subsystem takes a reference on a vnode that has cached pages
\* (VOP_PUTPAGE and the like), whatever state its fusenode is in.
VmHold(t, n) ==
    /\ t \in Pagers
    /\ pc[t] = "idle"
    /\ res[t] = NoNode
    /\ alloc[n]
    /\ pages[n]
    /\ vcount' = [vcount EXCEPT ![n] = @ + 1]
    /\ res' = [res EXCEPT ![t] = n]
    /\ UNCHANGED <<avl, freelist, alloc, rpath, nmount, pages, nodenew, vfsref, unmounted,
                   locks, pc, mnt, key, np, fnd, hfk, afk, rlist, tmp, ct>>

-----------------------------------------------------------------------------
(* fusefs_kmem_reclaim -> fusefs_node_reclaim.                              *)

ReclaimStart(t) ==
    /\ t \in Workers
    /\ pc[t] = "idle"
    /\ res[t] = NoNode
    /\ pc' = [pc EXCEPT ![t] = "rc_loop"]
    /\ UNCHANGED <<cache, locks, mnt, key, np, res, fnd, hfk, afk, rlist, tmp, ct>>

\* Lines 1152-1156 and 1181: pop the head of the freelist under
\* fusefreelist_lock and let the lock go, or stop when the list is empty.
ReclaimLoop(t) ==
    /\ pc[t] = "rc_loop"
    /\ \/ /\ freelist = <<>>
          /\ pc' = [pc EXCEPT ![t] = "idle"]
          /\ UNCHANGED <<freelist, np>>
       \/ /\ freelist # <<>>
          /\ SnRmFree(Head(freelist))
          /\ np' = [np EXCEPT ![t] = Head(freelist)]
          /\ pc' = [pc EXCEPT ![t] = "rc_hread"]
    /\ UNCHANGED <<avl, vcount, alloc, rpath, nmount, pages, nodenew, vfsref, unmounted,
                   locks, mnt, key, res, fnd, hfk, afk, rlist, tmp, ct>>

\* Lines 1157 and 1178: RHASHED read with no lock held; unhash the node
\* first if set, else hand it to fusefs_addfree.
RcHashedRead(t) ==
    /\ pc[t] = "rc_hread"
    /\ \/ /\ Hashed(np[t])
          /\ pc' = [pc EXCEPT ![t] = "rc_vlock"]
          /\ UNCHANGED <<np, afk>>
       \/ /\ ~Hashed(np[t])
          /\ AddFree(t, np[t], FALSE, "reclaim")
    /\ UNCHANGED <<cache, locks, mnt, key, res, fnd, hfk, rlist, tmp, ct>>

\* Lines 1158-1178.
ReclaimLock(t) ==
    LET v == np[t] IN
    /\ pc[t] = "rc_vlock"
    /\ CanWrite(nmount[v])
    /\ \/ /\ vcount[v] > 1
          /\ Drop(v)
          /\ np' = [np EXCEPT ![t] = NoNode]
          /\ pc' = [pc EXCEPT ![t] = "rc_loop"]
          /\ UNCHANGED <<avl, afk>>
       \/ /\ vcount[v] = 1
          /\ RmHashLocked(v)
          /\ AddFree(t, v, FALSE, "reclaim")
          /\ UNCHANGED vcount
    /\ UNCHANGED <<freelist, alloc, rpath, nmount, pages, nodenew, vfsref, unmounted,
                   locks, mnt, key, res, fnd, hfk, rlist, tmp, ct>>

-----------------------------------------------------------------------------
(* Unmount: fusefs_destroy_table.                                          *)

\* The unmount path sets VFS_UNMOUNTED on the vfs and calls
\* fusefs_destroy_table.  fusefs_node_findcreate does not test the flag,
\* so lookups through vnodes still held may go on.
Unmount(t, m) ==
    /\ t \in Workers
    /\ pc[t] = "idle"
    /\ res[t] = NoNode
    /\ ~unmounted[m]
    /\ unmounted' = [unmounted EXCEPT ![m] = TRUE]
    /\ mnt' = [mnt EXCEPT ![t] = m]
    /\ pc' = [pc EXCEPT ![t] = "dt_lock"]
    /\ UNCHANGED <<avl, freelist, vcount, alloc, rpath, nmount, pages, nodenew, vfsref,
                   locks, key, np, res, fnd, hfk, afk, rlist, tmp, ct>>

\* Line 921.
DtLock(t) ==
    /\ pc[t] = "dt_lock"
    /\ CanWrite(mnt[t])
    /\ wlock' = [wlock EXCEPT ![mnt[t]] = t]
    /\ pc' = [pc EXCEPT ![t] = "dt_drain"]
    /\ UNCHANGED <<cache, rlock, mnt, key, np, res, fnd, hfk, afk, rlist, tmp, ct>>

\* Mutant: destroy_table moves a freelist node to rlist without sn_rmfree
\* (line 938).
DtDrainNoRmFree(t) ==
    LET m == mnt[t] IN
    /\ pc[t] = "dt_drain"
    /\ \/ /\ avl[m] = {}
          /\ avl' = [avl EXCEPT ![m] = tmp[t]]
          /\ tmp' = [tmp EXCEPT ![t] = {}]
          /\ wlock' = [wlock EXCEPT ![m] = NoThread]
          /\ pc' = [pc EXCEPT ![t] = "dt_rlist"]
          /\ UNCHANGED rlist
       \/ \E x \in avl[m] :
            /\ avl' = [avl EXCEPT ![m] = @ \ {x}]
            /\ \/ /\ ~OnFree(x)
                  /\ tmp' = [tmp EXCEPT ![t] = @ \cup {x}]
                  /\ UNCHANGED rlist
               \/ /\ OnFree(x)
                  /\ rlist' = [rlist EXCEPT ![t] = <<x>> \o @]
                  /\ UNCHANGED tmp
            /\ UNCHANGED <<wlock, pc>>
    /\ UNCHANGED <<freelist, vcount, alloc, rpath, nmount, pages, nodenew, vfsref, unmounted,
                   rlock, mnt, key, np, res, fnd, hfk, afk, ct>>

\* Lines 923-966: avl_destroy_nodes one node at a time (in an order the
\* tree chooses); under fusefreelist_lock a freelist node is taken off the
\* freelist, unhashed and put on rlist, a busy node goes to tmp_avl.  When
\* the tree is empty, tmp_avl replaces it and the lock is dropped.
DtDrain(t) ==
    LET m == mnt[t] IN
    /\ pc[t] = "dt_drain"
    /\ \/ /\ avl[m] = {}
          /\ avl' = [avl EXCEPT ![m] = tmp[t]]
          /\ tmp' = [tmp EXCEPT ![t] = {}]
          /\ wlock' = [wlock EXCEPT ![m] = NoThread]
          /\ pc' = [pc EXCEPT ![t] = "dt_rlist"]
          /\ UNCHANGED <<freelist, rlist>>
       \/ \E x \in avl[m] :
            /\ avl' = [avl EXCEPT ![m] = @ \ {x}]
            /\ \/ /\ ~OnFree(x)
                  /\ tmp' = [tmp EXCEPT ![t] = @ \cup {x}]
                  /\ UNCHANGED <<freelist, rlist>>
               \/ /\ OnFree(x)
                  /\ SnRmFree(x)
                  /\ rlist' = [rlist EXCEPT ![t] = <<x>> \o @]
                  /\ UNCHANGED tmp
            /\ UNCHANGED <<wlock, pc>>
    /\ UNCHANGED <<vcount, alloc, rpath, nmount, pages, nodenew, vfsref, unmounted,
                   rlock, mnt, key, np, res, fnd, hfk, afk, ct>>

\* Lines 974-977: fusefs_addfree on each node of rlist.
DtRlist(t) ==
    /\ pc[t] = "dt_rlist"
    /\ \/ /\ rlist[t] = <<>>
          /\ pc' = [pc EXCEPT ![t] = "idle"]
          /\ UNCHANGED <<rlist, np, afk>>
       \/ /\ rlist[t] # <<>>
          /\ rlist' = [rlist EXCEPT ![t] = Tail(@)]
          /\ AddFree(t, Head(rlist[t]), FALSE, "destroy")
    /\ UNCHANGED <<cache, locks, mnt, key, res, fnd, hfk, tmp, ct>>

-----------------------------------------------------------------------------
(* fusefs_check_table, called by the unmount code of the vfs.  rtnp is the *)
(* mount's root node, which no node of the model is.                       *)

CtIdle == [left |-> {}, busy |-> 0, off |-> {}]

\* Lines 853-856: rw_enter(fmi_hash_lk, RW_READER), np = avl_first.
CheckTable(t, m) ==
    /\ t \in Checkers
    /\ pc[t] = "idle"
    /\ res[t] = NoNode
    /\ CanRead(m)
    /\ rlock' = [rlock EXCEPT ![m] = @ \cup {t}]
    /\ mnt' = [mnt EXCEPT ![t] = m]
    /\ ct' = [ct EXCEPT ![t] = [left |-> avl[m], busy |-> 0,
                                off  |-> {x \in avl[m] : ~OnFree(x)}]]
    /\ pc' = [pc EXCEPT ![t] = "ct_walk"]
    /\ UNCHANGED <<cache, wlock, key, np, res, fnd, hfk, afk, rlist, tmp>>

\* Lines 857-887, one iteration: a node is busy when r_freef is NULL (864),
\* and when it has cached pages and RDIRTY (871), which the write path
\* outside this file sets, so a node with pages may be dirty.  r_count is
\* always 0 (879).  The loop breaks on busycnt != 0 (885, the non-DEBUG
\* value of fusefs_check_table_debug) or when avl_walk returns NULL.  The
\* order of the walk does not matter to the count.
CtStep(t) ==
    /\ pc[t] = "ct_walk"
    /\ \/ /\ ct[t].left = {} \/ ct[t].busy # 0
          /\ pc' = [pc EXCEPT ![t] = "ct_ret"]
          /\ UNCHANGED ct
       \/ \E x \in ct[t].left :
          \E dirty \in IF pages[x] THEN BOOLEAN ELSE {FALSE} :
            /\ ct[t].busy = 0
            /\ ct' = [ct EXCEPT ![t].left = @ \ {x},
                                ![t].busy = @ + (IF OnFree(x) THEN 0 ELSE 1)
                                              + (IF dirty THEN 1 ELSE 0)]
            /\ UNCHANGED pc
    /\ UNCHANGED <<cache, locks, mnt, key, np, res, fnd, hfk, afk, rlist, tmp>>

\* Lines 889-891: rw_exit and return busycnt to the caller.
CtReturn(t) ==
    /\ pc[t] = "ct_ret"
    /\ rlock' = [rlock EXCEPT ![mnt[t]] = @ \ {t}]
    /\ pc' = [pc EXCEPT ![t] = "idle"]
    /\ ct' = [ct EXCEPT ![t] = CtIdle]
    /\ UNCHANGED <<cache, wlock, mnt, key, np, res, fnd, hfk, afk, rlist, tmp>>

-----------------------------------------------------------------------------
(* ASSERT(np->r_flags & RHASHED) of sn_rmhash_locked (line 656), reached   *)
(* by a thread that read RHASHED unlocked (333, 505, 1157), holds the      *)
(* mount's writer lock and saw v_count 1.  A DEBUG kernel panics: the      *)
(* thread stops at "panic" and so does every other.                        *)

AssertRHashed(t) ==
    LET x == np[t] IN
    /\ pc[t] \in {"mk_vlock", "af_dlock", "rc_vlock"}
    /\ CanWrite(nmount[x])
    /\ vcount[x] = 1
    /\ ~Hashed(x)
    /\ pc' = [pc EXCEPT ![t] = "panic"]
    /\ UNCHANGED <<cache, locks, mnt, key, np, res, fnd, hfk, afk, rlist, tmp, ct>>

Panicked == \E t \in Threads : pc[t] = "panic"

\* After a panic nothing runs.
Halted == Panicked /\ UNCHANGED vars

-----------------------------------------------------------------------------

Init ==
    /\ avl       = [m \in Mounts |-> {}]
    /\ freelist  = <<>>
    /\ vcount    = [n \in Nodes |-> 0]
    /\ alloc     = [n \in Nodes |-> FALSE]
    /\ rpath     = [n \in Nodes |-> NoPath]
    /\ nmount    = [n \in Nodes |-> NoMount]
    /\ pages     = [n \in Nodes |-> FALSE]
    /\ nodenew   = 0
    /\ vfsref    = [m \in Mounts |-> 0]
    /\ unmounted = [m \in Mounts |-> FALSE]
    /\ wlock     = [m \in Mounts |-> NoThread]
    /\ rlock     = [m \in Mounts |-> {}]
    /\ pc        = [t \in Threads |-> "idle"]
    /\ mnt       = [t \in Threads |-> NoMount]
    /\ key       = [t \in Threads |-> NoPath]
    /\ np        = [t \in Threads |-> NoNode]
    /\ res       = [t \in Threads |-> NoNode]
    /\ fnd       = [t \in Threads |-> NoNode]
    /\ hfk       = [t \in Threads |-> "find"]
    /\ afk       = [t \in Threads |-> "inactive"]
    /\ rlist     = [t \in Threads |-> <<>>]
    /\ tmp       = [t \in Threads |-> {}]
    /\ ct        = [t \in Threads |-> CtIdle]

Next ==
    \/ /\ ~Panicked
       /\ \E t \in Threads :
        \/ \E m \in Mounts, p \in Paths, c \in BOOLEAN : FindCreate(t, m, p, c)
        \/ MkRestart(t) \/ HfLock(t) \/ MkFree(t) \/ MkHashedRead(t) \/ MkVictimLock(t)
        \/ MkInactive(t) \/ MkAlloc(t) \/ MkWriteLock(t) \/ MkReacquire(t)
        \/ Release(t) \/ RmHash(t) \/ \E n \in Nodes : VmHold(t, n)
        \/ AfHashedRead(t) \/ AfDestroyLock(t) \/ AfInactive(t) \/ AfFreeLock(t)
        \/ ReclaimStart(t) \/ ReclaimLoop(t) \/ RcHashedRead(t) \/ ReclaimLock(t)
        \/ AssertRHashed(t)
        \/ \E m \in Mounts : Unmount(t, m)
        \/ DtLock(t) \/ DtDrain(t) \/ DtRlist(t)
        \/ \E m \in Mounts : CheckTable(t, m)
        \/ CtStep(t) \/ CtReturn(t)
    \/ Halted

Spec == Init /\ [][Next]_vars

\* A kmem_cache_alloc(KM_SLEEP) of make_fusenode (line 385) is sleeping
\* because every fusenode of the cache is allocated.
MemoryWait == \E t \in Workers : pc[t] = "mk_alloc" /\ \A n \in Nodes : alloc[n]

\* The steps that start an operation: a lookup, a VM hold, an unhash, an
\* unmount, a check_table, or a kmem reclaim callback without memory pressure.  Whether
\* and when they happen is up to the rest of the kernel.
StartOp(t) ==
    \/ \E m \in Mounts, p \in Paths, c \in BOOLEAN : FindCreate(t, m, p, c)
    \/ \E n \in Nodes : VmHold(t, n)
    \/ RmHash(t) \/ \E m \in Mounts : Unmount(t, m) \/ CheckTable(t, m)
    \/ ReclaimStart(t) /\ ~MemoryWait

\* The steps of an operation once started.  Those that wait for
\* fmi_hash_lk (or, in MkAlloc, for kmem) are enabled only intermittently;
\* an illumos rwlock queues its waiters on a turnstile and hands the lock
\* over on rw_exit, so a waiter is not passed over forever: strong fairness.
Continue(t) ==
    \/ MkRestart(t) \/ HfLock(t) \/ MkFree(t) \/ MkHashedRead(t) \/ MkVictimLock(t)
    \/ MkInactive(t) \/ MkAlloc(t) \/ MkWriteLock(t) \/ MkReacquire(t)
    \/ AfHashedRead(t) \/ AfDestroyLock(t) \/ AfInactive(t) \/ AfFreeLock(t)
    \/ ReclaimLoop(t) \/ RcHashedRead(t) \/ ReclaimLock(t)
    \/ DtLock(t) \/ DtDrain(t) \/ DtRlist(t)
    \/ CtStep(t) \/ CtReturn(t)

\* Every operation runs on once started, and a holder eventually drops its
\* reference (VN_RELE).  While an allocation sleeps for memory, kmem reaps
\* its caches and calls the reclaim callback fusefs_kmem_reclaim
\* (registered at line 1099) on an idle thread.
Fairness ==
    /\ \A t \in Threads : SF_vars(Continue(t)) /\ WF_vars(Release(t))
    /\ WF_vars(\E t \in Workers : ReclaimStart(t) /\ MemoryWait)

FairSpec == Spec /\ Fairness

-----------------------------------------------------------------------------
(* Properties.                                                             *)

TypeOK ==
    /\ \A m \in Mounts : avl[m] \subseteq Nodes
    /\ freelist \in Seq(Nodes)
    /\ vcount \in [Nodes -> Nat]
    /\ alloc \in [Nodes -> BOOLEAN]
    /\ rpath \in [Nodes -> Paths \cup {NoPath}]
    /\ nmount \in [Nodes -> Mounts \cup {NoMount}]
    /\ pages \in [Nodes -> BOOLEAN]
    /\ nodenew \in Nat
    /\ vfsref \in [Mounts -> Nat]
    /\ unmounted \in [Mounts -> BOOLEAN]
    /\ wlock \in [Mounts -> Threads \cup {NoThread}]
    /\ rlock \in [Mounts -> SUBSET Threads]
    /\ mnt \in [Threads -> Mounts \cup {NoMount}]
    /\ key \in [Threads -> Paths \cup {NoPath}]
    /\ np \in [Threads -> Nodes \cup {NoNode}]
    /\ res \in [Threads -> Nodes \cup {NoNode}]
    /\ fnd \in [Threads -> Nodes \cup {NoNode}]
    /\ rlist \in [Threads -> Seq(Nodes)]
    /\ tmp \in [Threads -> SUBSET Nodes]
    /\ ct \in [Threads -> [left : SUBSET Nodes, busy : Nat, off : SUBSET Nodes]]

\* Reference accounting, the discipline of the block comment at lines
\* 75-93: the v_count of every vnode equals the references threads own
\* (returned by sn_hashfind, held by a caller, popped off the freelist,
\* carried through fusefs_addfree or a destroy list) plus one while it is
\* on the freelist, and never drops below 1 while the node is allocated.
\* Broken by a transfer counted as a hold or a back-off that keeps its
\* reference in any of the v_count > 1 branches.
RefCountExact ==
    \A n \in Nodes :
        /\ vcount[n] = Cardinality({t \in Threads : n \in Owned(t)})
                         + (IF OnFree(n) THEN 1 ELSE 0)
        /\ alloc[n] => vcount[n] >= 1

\* No use after free and no stale identity: every node reachable through a
\* mount's AVL tree, the freelist or a thread's hands is allocated; a node
\* in a tree belongs to that mount and has its path; and a node a worker
\* holds from fusefs_node_findcreate still is the node of the path and
\* mount it looked up, i.e. it was never recycled or destroyed under it.
NoStaleNode ==
    /\ \A m \in Mounts : \A n \in avl[m] :
         alloc[n] /\ nmount[n] = m /\ rpath[n] # NoPath
    /\ \A n \in ToSet(freelist) : alloc[n]
    /\ \A t \in Threads : \A n \in Owned(t) \cup ({fnd[t]} \ {NoNode}) : alloc[n]
    /\ \A t \in Workers :
         (pc[t] = "idle" /\ res[t] # NoNode) =>
            /\ rpath[res[t]] = key[t]
            /\ nmount[res[t]] = mnt[t]

\* A path of a mount has at most one node in its AVL tree: the re-check
\* at line 433 after make_fusenode drops every lock must catch a node
\* another thread created meanwhile.
IndexUnique ==
    \A m \in Mounts : \A a, b \in avl[m] : rpath[a] = rpath[b] => a = b

\* A freelist node is "cached but cold": still hashed, so the only way
\* back to it is a lookup of its path (lines 65-69: an unhashed node has
\* no value and is destroyed instead).
FreeNodesCached == \A n \in ToSet(freelist) : Hashed(n)

\* fusenodenew counts the allocated fusenodes, and every allocated node
\* holds exactly one VFS_HOLD on the vfs of its mount, moved from the old
\* to the new vfs when make_fusenode recycles a node (lines 370-375, 417).
ResourceAccounting ==
    /\ nodenew = Cardinality({n \in Nodes : alloc[n]})
    /\ \A m \in Mounts : vfsref[m] = Cardinality({n \in Nodes : alloc[n] /\ nmount[n] = m})

\* fusefs_destroy_table for m is under way: draining, or destroying the
\* nodes of its rlist through fusefs_addfree.
DestroyTableRunning(m) ==
    \E t \in Workers :
        /\ mnt[t] = m
        /\ \/ pc[t] \in {"dt_lock", "dt_drain", "dt_rlist"}
           \/ pc[t] \in {"af_hread", "af_dlock", "af_inact", "af_flock"} /\ afk[t] = "destroy"

\* The comment of fusefs_destroy_table (lines 895-897): all inactive vnodes
\* of the vfs are destroyed by a forced or normal unmount.  Once it has
\* run, no node of the unmounted mount is left on the freelist.
UnmountDestroysInactive ==
    \A m \in Mounts :
        (unmounted[m] /\ ~DestroyTableRunning(m)) =>
            \A n \in ToSet(freelist) : nmount[n] # m

\* Section 5 of the specification: a node returned to a caller has
\* v_count >= 2 while the caller holds it, one count for HASHED and one for
\* the caller.
CallerHoldsTwo ==
    \A t \in Workers :
        (pc[t] = "idle" /\ res[t] # NoNode /\ Hashed(res[t])) => vcount[res[t]] >= 2

\* The assertion of sn_rmhash_locked (line 656): whenever a thread is about
\* to unlink a node under fmi_hash_lk (the v_count = 1 branches after lines
\* 338, 508 and 1162), the node is still RHASHED.  Those threads read
\* RHASHED before taking the lock (lines 333, 505, 1157).
RmHashAsserts ==
    \A t \in Workers :
        (/\ pc[t] \in {"mk_vlock", "af_dlock", "rc_vlock"}
         /\ CanWrite(nmount[np[t]])
         /\ vcount[np[t]] = 1) => Hashed(np[t])

\* The comment at lines 526-532 of fusefs_addfree: once the node is out of
\* the AVL tree, the only reference that can appear before the v_count
\* recheck is a VOP_PUTPAGE hold of the VM.  So no other worker holds the
\* node that fusefs_addfree (or make_fusenode, lines 351-353) inactivates,
\* freeing its n_rpath and r_cred.
InactiveOnlyPagerRefs ==
    \A t, u \in Workers :
        (t # u /\ pc[t] \in {"af_inact", "mk_inact"}) => res[u] # np[t]

\* The assertions on entry to fusefs_addfree (lines 481, 484) and of
\* sn_destroy_node (lines 995, 1000, 1001), and their counterpart before
\* make_fusenode reinitialises a victim (line 376): a node a thread carries
\* through fusefs_addfree is off the freelist and referenced, and a node
\* about to be destroyed or reinitialised with its last reference is
\* linked into no AVL tree and not on the freelist.  Other threads can
\* link, pop or find the node between the unlocked steps.
DestroyAsserts ==
    \A t \in Workers :
        /\ pc[t] \in {"af_hread", "af_dlock", "af_inact", "af_flock"} =>
               ~OnFree(np[t]) /\ vcount[np[t]] >= 1
        /\ (pc[t] \in {"af_inact", "mk_inact"} /\ vcount[np[t]] = 1) =>
               ~Hashed(np[t]) /\ ~OnFree(np[t])

\* Once no new operation starts, every operation under way returns: the
\* goto start of make_fusenode (lines 344, 358), the back-offs of
\* fusefs_addfree, the loop of fusefs_node_reclaim (line 1154, which drops
\* fusefreelist_lock on each pass) and the drain of fusefs_destroy_table
\* cannot go on forever, nor can threads wait on each other's locks.
OperationsComplete ==
    <>[][\A t \in Threads : ~StartOp(t)]_vars =>
        \A t \in Threads : (pc[t] # "idle") ~> (pc[t] = "idle")


\* fusefs_check_table reads r_freef without fusefreelist_lock while other
\* threads take nodes off the freelist.  Its zero answer is still exact for
\* the moment it took fmi_hash_lk: when the walk ends with busycnt 0, every
\* node in the mount's tree was on the freelist at rw_enter.  This holds
\* because fusefs_addfree links a node in only under fmi_hash_lk as
\* writer (line 564), so no busy node can join the freelist mid-walk.
CheckTableSnapshot ==
    \A t \in Workers : (pc[t] = "ct_ret" /\ ct[t].busy = 0) => ct[t].off = {}


-----------------------------------------------------------------------------
(* Refinement of CacheIndex.  While fusefs_destroy_table drains a mount's  *)
(* tree under the writer lock, its busy nodes sit in tmp_avl and go back   *)
(* as the new tree; nobody can look in meanwhile, so the index the callers *)
(* see is the tree together with that tmp_avl.  A worker's got is the node *)
(* it returned from fusefs_node_findcreate and has not released.           *)

Indexed(m) ==
    avl[m] \cup UNION {tmp[t] : t \in {u \in Workers : pc[u] = "dt_drain" /\ mnt[u] = m}}

IndexMap ==
    [m \in Mounts |-> [p \in Paths |->
        IF \E x \in Indexed(m) : rpath[x] = p
        THEN CHOOSE x \in Indexed(m) : rpath[x] = p
        ELSE NoNode]]

Got == [t \in Workers |-> res[t]]

Index == INSTANCE CacheIndex WITH index <- IndexMap, got <- Got, Threads <- Workers

\* The cache protocol implements the atomic cache of CacheIndex: every
\* step of every thread, across all the lock drops of make_fusenode,
\* addfree, reclaim and destroy_table, either leaves the (mount, path)
\* map and the workers' results alone or is one atomic lookup, create,
\* unlink or release.  In particular a lookup returns the node its path
\* maps to at that moment, and a create links only a node that no path
\* maps to and no worker holds.
ImplementsCacheIndex == Index!Spec

=============================================================================
