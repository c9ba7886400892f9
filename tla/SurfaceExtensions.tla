------------------------- MODULE SurfaceExtensions --------------------------
(***************************************************************************)
(* The states that other protocols attach to a surface (wlr_surface_synced):*)
(* every state of the surface, pending, cached or current, has an array     *)
(* with one slot per attached object, and the object knows its index.       *)
(* Objects come and go while commits wait.  On top: alpha modifier, content *)
(* type, tearing, color representation, background effect, and presentation *)
(* feedback, whose answers depend on the output too.  Locks and the order   *)
(* of commits are those of SurfaceCommit: here a commit waits or not.       *)
(***************************************************************************)
EXTENDS Naturals, Sequences, FiniteSets

CONSTANTS SyncedKind,      \* protocols with one object per surface
          SyncedValues,    \* what a client can set; 0 is the initial value
          MaxAttached, MaxSyncedGen, MaxCached, MaxFeedback, MaxOutputSeq

ASSUME SyncedAssumption ==
  /\ {"alpha", "content", "tearing", "color", "blur"} \subseteq SyncedKind
  /\ "feedback" \notin SyncedKind /\ 0 \in SyncedValues
  /\ \A b \in {MaxAttached, MaxSyncedGen, MaxCached, MaxFeedback, MaxOutputSeq} : b \in Nat

VARIABLE ext

Kinds == SyncedKind \cup {"feedback"}
FeedbackId == 1..MaxFeedback

(* A slot belongs to the object of a kind created as number gen; v is the   *)
(* value, fb the feedback resources of one wlr_presentation_feedback.       *)
Slot(k, g) == [kind |-> k, gen |-> g, v |-> 0, fb |-> {}]

(* index: of the object in the arrays, 0 without one; inert: objects whose  *)
(* surface is gone; hint: tearing hint its listeners know; queued: feedback *)
(* waiting for an output; owed: commits whose present event is to come.     *)
ExtInit ==
  ext = [alive |-> TRUE, client |-> TRUE, index |-> [k \in Kinds |-> 0],
         gen |-> [k \in Kinds |-> 0], born |-> 0, inert |-> {},
         pending |-> <<>>, cached |-> <<>>, current |-> <<>>,
         hint |-> 0, fate |-> [i \in FeedbackId |-> "none"], queued |-> {},
         output |-> TRUE, seq |-> 0, owed |-> {}]

Attached(st) == {k \in Kinds : st.index[k] > 0}

-----------------------------------------------------------------------------
(* wlr_surface_synced. *)
array_remove_at(arr, i) == SubSeq(arr, 1, i - 1) \o SubSeq(arr, i + 1, Len(arr))

(* A slot in every state of the surface, those that wait included. *)
wlr_surface_synced_init(st, k) ==
  LET g == st.born + 1
      add(arr) == Append(arr, Slot(k, g))
  IN [st EXCEPT !.index[k] = Cardinality(Attached(st)) + 1, !.gen[k] = g, !.born = g,
                !.pending = add(@), !.current = add(@),
                !.cached = [i \in DOMAIN @ |-> add(@[i])]]

(* wlr_presentation_feedback_destroy: those who wait get discarded. *)
wlr_presentation_feedback_destroy(st, ids) ==
  [st EXCEPT !.fate = [i \in FeedbackId |-> IF i \in ids THEN "discarded" ELSE @[i]]]

finish_no_shift(st, k) ==
  LET i == st.index[k] IN
  [st EXCEPT !.index[k] = 0, !.pending = array_remove_at(@, i), !.current = array_remove_at(@, i),
             !.cached = [c \in DOMAIN @ |-> array_remove_at(@[c], i)]]

(* The slots are removed everywhere; objects behind it move up.  Feedback   *)
(* in the slots is discarded by finish_state.                               *)
wlr_surface_synced_finish(st, k) ==
  LET i == st.index[k]
      ids == st.pending[i].fb \cup st.current[i].fb
             \cup UNION {st.cached[c][i].fb : c \in DOMAIN st.cached}
      done == wlr_presentation_feedback_destroy(st, ids)
  IN [done EXCEPT
        !.index = [o \in Kinds |-> IF o = k THEN 0 ELSE IF @[o] > i THEN @[o] - 1 ELSE @[o]],
        !.pending = array_remove_at(@, i), !.current = array_remove_at(@, i),
        !.cached = [c \in DOMAIN @ |-> array_remove_at(@[c], i)]]

(* Only the value moves, from and to the slots at the object's index.       *)
Moved(st, dst, src) ==
  [i \in DOMAIN dst |->
     LET own == {k \in Attached(st) : st.index[k] = i} IN
     IF own = {} THEN dst[i] ELSE [dst[i] EXCEPT !.v = src[i].v, !.fb = src[i].fb]]

MoveKeepsSource(src) == src

(* Feedback leaves its source; other values stay, for the next commit. *)
surface_synced_move_state(src) == [i \in DOMAIN src |-> [src[i] EXCEPT !.fb = {}]]

Overwritten(dst) == UNION {dst[i].fb : i \in DOMAIN dst}

hint_handle_surface_commit(st) ==
  IF "tearing" \in Attached(st)
    THEN [st EXCEPT !.hint = st.current[st.index["tearing"]].v] ELSE st

-----------------------------------------------------------------------------
(* Commits of the surface. *)
surface_cache_pending ==
  LET fresh == [i \in DOMAIN ext.pending |-> [ext.pending[i] EXCEPT !.v = 0, !.fb = {}]] IN
  /\ ext.alive /\ ext.client /\ Len(ext.cached) < MaxCached
  /\ ext' = [ext EXCEPT !.cached = Append(@, Moved(ext, fresh, ext.pending)),
                        !.pending = surface_synced_move_state(@)]

ApplyState(st, src) ==
  hint_handle_surface_commit(
    wlr_presentation_feedback_destroy(
      [st EXCEPT !.current = Moved(st, @, src)], Overwritten(st.current)))

surface_commit_state ==
  /\ ext.alive /\ ext.client
  /\ \/ /\ ext.cached = <<>>
        /\ ext' = [ApplyState(ext, ext.pending) EXCEPT !.pending = surface_synced_move_state(@)]
     \/ /\ ext.cached # <<>>
        /\ ext' = [ApplyState(ext, Head(ext.cached)) EXCEPT !.cached = Tail(@)]

-----------------------------------------------------------------------------
(* Objects of the client: one per surface and protocol; a request for a     *)
(* second one is a protocol error.                                          *)
GetObject(k) ==
  /\ ext.alive /\ ext.client /\ k \in SyncedKind
  /\ ext.index[k] = 0 /\ k \notin ext.inert
  /\ ext.born < MaxSyncedGen /\ Cardinality(Attached(ext)) < MaxAttached
  /\ ext' = [wlr_surface_synced_init(ext, k) EXCEPT !.hint = IF k = "tearing" THEN 0 ELSE @]

manager_handle_get_surface == GetObject("alpha")
manager_handle_get_surface_content_type == GetObject("content")
tearing_control_manager_handle_get_tearing_control == GetObject("tearing")
color_repr_manager_handle_get_surface == GetObject("color")
manager_handle_get_background_effect == GetObject("blur")

SetValue(k, v) ==
  /\ ext.client /\ ext.index[k] > 0 /\ ext.pending[ext.index[k]].v # v
  /\ ext' = [ext EXCEPT !.pending[ext.index[k]].v = v]

surface_handle_set_multiplier(v) == SetValue("alpha", v)
content_type_surface_handle_set_content_type(v) == SetValue("content", v)
tearing_control_handle_set_presentation_hint(v) == SetValue("tearing", v)
color_repr_handle_set(v) == SetValue("color", v)
surface_handle_set_blur_region(v) == SetValue("blur", v)

(* Destroyed by the client: with the object, or the inert rest of it. *)
DestroyObject(k) ==
  \/ ext.index[k] > 0 /\ ext' = wlr_surface_synced_finish(ext, k)
  \/ k \in ext.inert /\ ext' = [ext EXCEPT !.inert = @ \ {k}]

surface_destroy == DestroyObject("alpha")
content_type_surface_destroy == DestroyObject("content")
destroy_tearing_hint == DestroyObject("tearing")
color_repr_destroy == DestroyObject("color")
background_effect_surface_destroy == DestroyObject("blur")

(* The wl_surface goes first: all objects are finished, one by one in any   *)
(* order, and the client's resources become inert.                          *)
surface_addon_destroy(k) ==
  /\ ext.alive /\ k \in Attached(ext)
  /\ LET st == wlr_surface_synced_finish(ext, k)
     IN ext' = [st EXCEPT !.inert = @ \cup ({k} \cap SyncedKind),
                          !.alive = Attached(st) # {}, !.client = FALSE]

-----------------------------------------------------------------------------
(* Presentation feedback. *)
presentation_handle_feedback(id) ==
  LET st == IF ext.index["feedback"] = 0 THEN wlr_surface_synced_init(ext, "feedback") ELSE ext IN
  /\ ext.alive /\ ext.client /\ ext.fate[id] = "none"
  /\ ext.index["feedback"] = 0 => ext.born < MaxSyncedGen /\ Cardinality(Attached(ext)) < MaxAttached
  /\ ext' = [st EXCEPT !.fate[id] = "waiting", !.pending[st.index["feedback"]].fb = @ \cup {id}]

(* wlr_presentation_surface_sampled: taken out of the current state. *)
presentation_surface_queued_on_output ==
  LET i == ext.index["feedback"] IN
  /\ ext.alive /\ ext.output /\ i > 0 /\ ext.current[i].fb # {}
  /\ ext' = [ext EXCEPT !.current[i].fb = {},
               !.queued = @ \cup {[ids |-> ext.current[i].fb, seq |-> 0]}]

(* The output commits; what was queued since the last commit is in it. *)
feedback_handle_output_commit ==
  LET n == ext.seq + 1 IN
  /\ ext.output /\ n <= MaxOutputSeq
  /\ ext' = [ext EXCEPT !.seq = n, !.owed = @ \cup {n},
               !.queued = {IF q.seq = 0 THEN [q EXCEPT !.seq = n] ELSE q : q \in @}]

(* The event of a commit, with a picture presented or not. *)
feedback_handle_output_present(n, presented) ==
  LET hit == {q \in ext.queued : q.seq = n}
      ids == UNION {q.ids : q \in hit}
      result == IF presented THEN "presented" ELSE "discarded"
  IN /\ n \in ext.owed
     /\ ext' = [ext EXCEPT !.owed = @ \ {n}, !.queued = @ \ hit,
                  !.fate = [i \in FeedbackId |-> IF i \in ids THEN result ELSE @[i]]]

(* A blocking modeset replaces a page-flip: no event will come. *)
drm_page_flip_superseded(n) ==
  n \in ext.owed /\ n < ext.seq /\ ext' = [ext EXCEPT !.owed = @ \ {n}]

feedback_handle_output_destroy ==
  /\ ext.output
  /\ ext' = [wlr_presentation_feedback_destroy(ext, UNION {q.ids : q \in ext.queued})
               EXCEPT !.output = FALSE, !.queued = {}, !.owed = {}]

ExtNext ==
  \/ surface_cache_pending \/ surface_commit_state
  \/ manager_handle_get_surface \/ manager_handle_get_surface_content_type
  \/ tearing_control_manager_handle_get_tearing_control
  \/ color_repr_manager_handle_get_surface \/ manager_handle_get_background_effect
  \/ \E v \in SyncedValues :
       \/ surface_handle_set_multiplier(v) \/ content_type_surface_handle_set_content_type(v)
       \/ tearing_control_handle_set_presentation_hint(v) \/ color_repr_handle_set(v)
       \/ surface_handle_set_blur_region(v)
  \/ surface_destroy \/ content_type_surface_destroy \/ destroy_tearing_hint
  \/ color_repr_destroy \/ background_effect_surface_destroy
  \/ \E k \in Kinds : surface_addon_destroy(k)
  \/ \E id \in FeedbackId : presentation_handle_feedback(id)
  \/ presentation_surface_queued_on_output \/ feedback_handle_output_commit
  \/ \E n \in 1..MaxOutputSeq :
       \/ \E p \in BOOLEAN : feedback_handle_output_present(n, p)
       \/ drm_page_flip_superseded(n)
  \/ feedback_handle_output_destroy

ExtSpec == ExtInit /\ [][ExtNext]_ext

-----------------------------------------------------------------------------
(* Each object finds its own slot at its index in every state of the        *)
(* surface, however many objects were attached and finished before it and   *)
(* while commits were waiting: no protocol reads or writes another's data.  *)
SlotsAligned ==
  LET own(arr) == /\ Len(arr) = Cardinality(Attached(ext))
                  /\ \A k \in Attached(ext) :
                       /\ ext.index[k] \in DOMAIN arr
                       /\ arr[ext.index[k]].kind = k
                       /\ arr[ext.index[k]].gen = ext.gen[k]
  IN /\ own(ext.pending) /\ own(ext.current)
     /\ \A i \in DOMAIN ext.cached : own(ext.cached[i])

(* A feedback is answered once: while the client waits for it, exactly one  *)
(* state or one output holds it, and nobody does afterwards.                *)
Holders(id) ==
  {<<"pending", i>> : i \in {j \in DOMAIN ext.pending : id \in ext.pending[j].fb}}
  \cup {<<"current", i>> : i \in {j \in DOMAIN ext.current : id \in ext.current[j].fb}}
  \cup {<<"cached", c>> : c \in {d \in DOMAIN ext.cached :
                                   \E j \in DOMAIN ext.cached[d] : id \in ext.cached[d][j].fb}}
  \cup {<<"queued", q>> : q \in {r \in ext.queued : id \in r.ids}}
FeedbackOnce ==
  \A id \in FeedbackId :
    Cardinality(Holders(id)) = IF ext.fate[id] = "waiting" THEN 1 ELSE 0

(* The tearing hint a listener was told is the one in force. *)
HintKnown ==
  ext.alive /\ ext.index["tearing"] > 0 => ext.hint = ext.current[ext.index["tearing"]].v
=============================================================================
