----------------------------- MODULE Subsurface -----------------------------
(***************************************************************************)
(* Trees of surfaces (types/wlr_subcompositor.c on top of the commit queue *)
(* of types/wlr_compositor.c).  A sub-surface that is synchronized, itself *)
(* or through an ancestor, holds a lock on its first commit that waits and *)
(* releases it when its parent's state is applied, when it becomes         *)
(* desynchronized or when it is destroyed.  Applying one state may thereby *)
(* apply states of the children, and of their children: a handler is one   *)
(* step here, and works on the whole tree w, so its helpers take w and     *)
(* return it changed.                                                      *)
(*                                                                         *)
(* What the surfaces show is SurfaceCommit.tla's subject; a state is here  *)
(* its number, its locks, whether it attaches a buffer ("buf"), a NULL one *)
(* ("null") or none ("keep"), and the sub-surfaces it lists.               *)
(***************************************************************************)
EXTENDS Naturals, Sequences, FiniteSets, FiniteSetsExt

CONSTANTS Surfaces,
          Toplevels,    \* surfaces mapped by another role; never sub-surfaces
          NoParent,     \* the parent of a surface that is no sub-surface
          Fenced,       \* surfaces whose commits may wait for a fence
          MaxSubCommits, \* bound: commits per surface
          MaxTreeCommits \* bound: commits of all surfaces

ASSUME SubsurfaceAssumption ==
    /\ Toplevels \subseteq Surfaces /\ Fenced \subseteq Surfaces /\ NoParent \notin Surfaces
    /\ MaxSubCommits \in Nat /\ MaxTreeCommits \in Nat

VARIABLES tree    \* the surfaces, their queues and their wl_subsurfaces

NoSub == [obj |-> "none", parent |-> NoParent, sync |-> TRUE, hasCache |-> FALSE,
          cachedSeq |-> 0, added |-> FALSE]

\* alive: the wl_surface exists.  sub: its wl_subsurface; obj tells whether
\* there is one ("live") and whether it lost its parent ("inert").  ext: the
\* commit that something else, such as an acquire fence, holds; 0 for none.
\* failed: an assertion of wlr_surface_unlock_cached does not hold.
SubInit ==
    tree = [pending |-> [s \in Surfaces |-> [seq |-> 1, locks |-> 0, kind |-> "keep",
                                             hasbuf |-> FALSE, subs |-> {}]],
            cached  |-> [s \in Surfaces |-> <<>>],
            current |-> [s \in Surfaces |-> [seq |-> 0, hasbuf |-> FALSE, subs |-> {}]],
            mapped  |-> [s \in Surfaces |-> FALSE],
            sub     |-> [s \in Surfaces |-> NoSub],
            ext     |-> [s \in Surfaces |-> 0],
            alive   |-> [s \in Surfaces |-> TRUE],
            failed  |-> FALSE]

Live(w, s) == w.sub[s].obj = "live"

-----------------------------------------------------------------------------
(* Mapping.                                                                 *)

RECURSIVE wlr_surface_map(_, _)
RECURSIVE wlr_surface_unmap(_, _)

\* subsurface_consider_map: a sub-surface that its parent lists, below a mapped
\* parent, with contents, is mapped.
subsurface_consider_map(w, s) ==
    IF w.sub[s].added /\ w.mapped[w.sub[s].parent] /\ w.current[s].hasbuf
    THEN wlr_surface_map(w, s) ELSE w

wlr_surface_map(w, s) ==
    IF w.mapped[s] THEN w
    ELSE FoldSet(LAMBDA c, v : subsurface_consider_map(v, c),
                 [w EXCEPT !.mapped[s] = TRUE], w.current[s].subs)

wlr_surface_unmap(w, s) ==
    IF ~w.mapped[s] THEN w
    ELSE FoldSet(LAMBDA c, v : wlr_surface_unmap(v, c),
                 [w EXCEPT !.mapped[s] = FALSE], w.current[s].subs)

-----------------------------------------------------------------------------
(* Synchronization, and applying states.                                    *)

RECURSIVE subsurface_is_synchronized(_, _)
RECURSIVE wlr_surface_unlock_cached(_, _, _)
RECURSIVE surface_commit_state(_, _, _)
RECURSIVE ApplyUnlocked(_, _)

subsurface_is_synchronized(w, s) ==
    Live(w, s) /\ (w.sub[s].sync \/ subsurface_is_synchronized(w, w.sub[s].parent))

\* Releasing the lock a sub-surface holds on its own surface.
ReleaseCache(w, s) ==
    [wlr_surface_unlock_cached(w, s, w.sub[s].cachedSeq) EXCEPT !.sub[s].hasCache = FALSE]

subsurface_handle_parent_commit(w, s) ==
    LET released == IF w.sub[s].sync /\ w.sub[s].hasCache THEN ReleaseCache(w, s) ELSE w
    IN  IF released.sub[s].added THEN released
        ELSE subsurface_consider_map([released EXCEPT !.sub[s].added = TRUE], s)

\* surface_commit_state: unmap on a NULL buffer, merge, tell the sub-surfaces
\* that are now listed, run the role's commit.
surface_commit_state(w, s, next) ==
    LET unmapped == IF next.kind = "null" THEN wlr_surface_unmap(w, s) ELSE w
        moved == [unmapped EXCEPT
            !.current[s] = [seq |-> next.seq, hasbuf |-> next.hasbuf,
                            subs |-> @.subs \cup next.subs]]
        parented == FoldSet(LAMBDA c, v : subsurface_handle_parent_commit(v, c),
                            moved, moved.current[s].subs)
    IN  IF Live(parented, s) THEN subsurface_consider_map(parented, s) ELSE parented

\* The loop of wlr_surface_unlock_cached.
ApplyUnlocked(w, s) ==
    IF w.cached[s] = <<>> \/ Head(w.cached[s]).locks > 0 THEN w
    ELSE LET applied == surface_commit_state(w, s, Head(w.cached[s]))
         IN  ApplyUnlocked([applied EXCEPT !.cached[s] = Tail(@)], s)

wlr_surface_unlock_cached(w, s, seq) ==
    LET i == {j \in 1..Len(w.cached[s]) : w.cached[s][j].seq = seq}
    IN  IF w.pending[s].seq = seq
        THEN [w EXCEPT !.pending[s].locks = @ - 1,
                       !.failed = @ \/ w.pending[s].locks = 0]
        ELSE IF i = {} \/ \E j \in i : w.cached[s][j].locks = 0
        THEN [w EXCEPT !.failed = TRUE]
        ELSE LET j == CHOOSE j \in i : TRUE
                 released == [w EXCEPT !.cached[s][j].locks = @ - 1]
             IN  IF j = 1 THEN ApplyUnlocked(released, s) ELSE released

-----------------------------------------------------------------------------
(* Requests and events.                                                     *)

\* subsurface_handle_surface_client_commit.
ClientCommit(w, s) ==
    IF subsurface_is_synchronized(w, s)
    THEN IF w.sub[s].hasCache THEN w
         ELSE [w EXCEPT !.pending[s].locks = @ + 1,
                        !.sub[s].hasCache = TRUE,
                        !.sub[s].cachedSeq = w.pending[s].seq]
    ELSE IF Live(w, s) /\ w.sub[s].hasCache THEN ReleaseCache(w, s) ELSE w

\* What surface_state_move leaves of the pending state, renumbered.
Emptied(state) == [state EXCEPT !.seq = @ + 1, !.locks = 0, !.kind = "keep"]

\* surface_handle_commit; `fence` says whether something else locks the commit.
Commit(s, kind, fence) ==
    /\ tree.alive[s]
    /\ tree.pending[s].seq <= MaxSubCommits
    /\ MapThenSumSet(LAMBDA c : tree.pending[c].seq - 1, Surfaces) < MaxTreeCommits
    /\ fence => s \in Fenced /\ tree.ext[s] = 0
    /\ LET seq == tree.pending[s].seq
           finalized == [tree EXCEPT
               !.pending[s].kind = kind,
               !.pending[s].hasbuf = IF kind = "keep" THEN @ ELSE kind = "buf",
               !.pending[s].locks = IF fence THEN @ + 1 ELSE @,
               !.ext[s] = IF fence THEN seq ELSE @]
           w == ClientCommit(finalized, s)
           next == w.pending[s]
       IN  tree' = IF next.locks > 0 \/ w.cached[s] # <<>>
                   THEN [w EXCEPT !.cached[s] = Append(@, next), !.pending[s] = Emptied(next)]
                   ELSE [surface_commit_state(w, s, next) EXCEPT !.pending[s] = Emptied(next)]

\* The fence of a commit is signalled.
FenceSignalled(s) ==
    /\ tree.alive[s] /\ tree.ext[s] # 0
    /\ tree' = [wlr_surface_unlock_cached(tree, s, tree.ext[s]) EXCEPT !.ext[s] = 0]

\* Roles other than wl_subsurface map and unmap their surface.
MapToplevel(s) ==
    /\ s \in Toplevels /\ tree.alive[s] /\ ~tree.mapped[s] /\ tree.current[s].hasbuf
    /\ tree' = wlr_surface_map(tree, s)

UnmapToplevel(s) ==
    /\ s \in Toplevels /\ tree.mapped[s]
    /\ tree' = wlr_surface_unmap(tree, s)

\* wlr_surface_get_root_surface.
RECURSIVE RootOf(_, _)
RootOf(w, s) == IF Live(w, s) THEN RootOf(w, w.sub[s].parent) ELSE s

\* A surface only has to be another one than the parent.
may_parent_any(s, p) == s # p

\* The errors of subcompositor_handle_get_subsurface end the client.
MayParent(s, p) == RootOf(tree, p) # s

GetSubsurface(s, p) ==
    /\ tree.alive[s] /\ tree.alive[p]
    /\ s \notin Toplevels /\ tree.sub[s].obj = "none"
    /\ MayParent(s, p)
    /\ tree' = [tree EXCEPT !.sub[s] = [NoSub EXCEPT !.obj = "live", !.parent = p],
                            !.pending[p].subs = @ \cup {s}]

SetSync(s) ==
    /\ Live(tree, s)
    /\ tree' = [tree EXCEPT !.sub[s].sync = TRUE]

\* The ancestors are not asked.
SetDesync_own(s) ==
    LET w == [tree EXCEPT !.sub[s].sync = FALSE]
    IN  /\ Live(tree, s) /\ tree.sub[s].sync
        /\ tree' = IF w.sub[s].hasCache THEN ReleaseCache(w, s) ELSE w

SetDesync(s) ==
    LET w == [tree EXCEPT !.sub[s].sync = FALSE]
    IN  /\ Live(tree, s) /\ tree.sub[s].sync
        /\ tree' = IF ~subsurface_is_synchronized(w, s) /\ w.sub[s].hasCache
                   THEN ReleaseCache(w, s) ELSE w

\* wlr_surface_synced_finish: no state of the parent lists the sub-surface.
Unlisted(w, s) ==
    LET p == w.sub[s].parent
    IN  [w EXCEPT !.pending[p].subs = @ \ {s},
                  !.current[p].subs = @ \ {s},
                  !.cached[p] = [i \in DOMAIN @ |-> [@[i] EXCEPT !.subs = @ \ {s}]]]

\* A sub-surface that goes without unmapping what its last commit mapped.
destroy_nounmap(w, s, obj) ==
    LET released == IF w.sub[s].hasCache
                    THEN wlr_surface_unlock_cached(w, s, w.sub[s].cachedSeq) ELSE w
    IN  [Unlisted(released, s) EXCEPT !.sub[s] = [NoSub EXCEPT !.obj = obj]]

\* A sub-surface that goes with its lock.
destroy_keeplock(w, s, obj) ==
    [Unlisted(wlr_surface_unmap(w, s), s) EXCEPT !.sub[s] = [NoSub EXCEPT !.obj = obj]]

\* subsurface_destroy; the wl_subsurface is gone or inert afterwards.
subsurface_destroy(w, s, obj) ==
    LET released == IF w.sub[s].hasCache
                    THEN wlr_surface_unlock_cached(w, s, w.sub[s].cachedSeq) ELSE w
    IN  [Unlisted(wlr_surface_unmap(released, s), s)
            EXCEPT !.sub[s] = [NoSub EXCEPT !.obj = obj]]

\* surface_destroy_role_object.
RoleObjectDestroyed(w, s) ==
    LET unmapped == wlr_surface_unmap(w, s)
    IN  IF Live(unmapped, s) THEN subsurface_destroy(unmapped, s, "none")
        ELSE [unmapped EXCEPT !.sub[s] = NoSub]

DestroySubsurface(s) ==
    /\ tree.alive[s] /\ tree.sub[s].obj # "none"
    /\ tree' = RoleObjectDestroyed(tree, s)

\* surface_handle_resource_destroy: the role object goes first; whoever else
\* holds a commit releases it; the children become inert; and the states that
\* still wait are dropped.
DestroySurface(s) ==
    LET unmapped == RoleObjectDestroyed(tree, s)
        w == IF tree.ext[s] = 0 THEN unmapped
             ELSE wlr_surface_unlock_cached(unmapped, s, tree.ext[s])
        children == {c \in Surfaces : Live(w, c) /\ w.sub[c].parent = s}
        orphaned == FoldSet(LAMBDA c, v : subsurface_destroy(v, c, "inert"), w, children)
    IN  /\ tree.alive[s]
        /\ tree' = [orphaned EXCEPT !.alive[s] = FALSE, !.cached[s] = <<>>,
                                    !.pending[s].locks = 0, !.ext[s] = 0]

SubNext ==
    \/ \E s \in Surfaces, kind \in {"keep", "buf", "null"}, fence \in BOOLEAN :
           Commit(s, kind, fence)
    \/ \E s, p \in Surfaces : GetSubsurface(s, p)
    \/ \E s \in Surfaces :
           \/ FenceSignalled(s)
           \/ MapToplevel(s) \/ UnmapToplevel(s)
           \/ SetSync(s) \/ SetDesync(s)
           \/ DestroySubsurface(s) \/ DestroySurface(s)

SubSpec == SubInit /\ [][SubNext]_tree

-----------------------------------------------------------------------------
LocksOn(s, seq) ==
    (IF Live(tree, s) /\ tree.sub[s].hasCache /\ tree.sub[s].cachedSeq = seq THEN 1 ELSE 0)
    + (IF tree.ext[s] = seq THEN 1 ELSE 0)

\* A state is locked by those who hold it and by nobody else, whatever became
\* of the sub-surface meanwhile: no assertion of wlr_surface_unlock_cached
\* fails, and no lock stays behind that nobody will release.
LocksOwned ==
    /\ ~tree.failed
    /\ \A s \in Surfaces : tree.alive[s] =>
        /\ tree.pending[s].locks = LocksOn(s, tree.pending[s].seq)
        /\ \A i \in 1..Len(tree.cached[s]) :
               tree.cached[s][i].locks = LocksOn(s, tree.cached[s][i].seq)
        /\ tree.cached[s] # <<>> => Head(tree.cached[s]).locks > 0

\* A sub-surface is mapped exactly when its parent lists it and is mapped and
\* it has contents, and a surface that lost its wl_subsurface is not mapped.
MappedWithParent ==
    \A s \in Surfaces \ Toplevels :
        tree.mapped[s] = (/\ Live(tree, s) /\ tree.sub[s].added
                          /\ tree.mapped[tree.sub[s].parent] /\ tree.current[s].hasbuf)

\* No surface is its own ancestor: subsurface_is_synchronized and the walks over
\* the tree end.
Ancestors == {<<s, p>> \in Surfaces \X Surfaces : Live(tree, s) /\ tree.sub[s].parent = p}
Acyclic ==
    \A S \in SUBSET Surfaces \ {{}} : \E s \in S : \A p \in S : <<s, p>> \notin Ancestors

\* New contents of a sub-surface that is synchronized appear together with a
\* new state of its parent, unless a fence held them back or the sub-surface
\* goes: "We already lock a previous commit. The prevents any future commit to
\* be applied before we release the previous commit." (wlr_subcompositor.c)
SyncedWithParent ==
    [][\A s \in Surfaces :
        /\ subsurface_is_synchronized(tree, s) /\ subsurface_is_synchronized(tree', s)
        /\ tree'.current[s].seq # tree.current[s].seq
        /\ tree'.ext[s] = tree.ext[s]
        => LET p == tree.sub[s].parent IN tree'.current[p].seq # tree.current[p].seq]_tree

\* What a synchronized sub-surface held back is released when its parent's
\* state is applied: the lock lasts until "we release the previous commit"
\* (subsurface_handle_surface_client_commit), and this is where that happens
\* while the sub-surface stays synchronized.
ReleasedWithParent ==
    [][\A s \in Surfaces :
        /\ subsurface_is_synchronized(tree, s) /\ subsurface_is_synchronized(tree', s)
        /\ tree.sub[s].added
        /\ tree'.current[tree.sub[s].parent].seq # tree.current[tree.sub[s].parent].seq
        => ~tree'.sub[s].hasCache]_tree
=============================================================================
