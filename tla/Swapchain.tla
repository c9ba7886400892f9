----------------------------- MODULE Swapchain -----------------------------
(***************************************************************************)
(* Buffers with their locks (types/buffer/buffer.c), the swapchain that    *)
(* recycles them (render/swapchain.c), and an output that renders into     *)
(* them and hands them to the backend (types/output/render.c, swapchain.c, *)
(* state.c, backend/drm/fb.c).                                             *)
(*                                                                         *)
(* A buffer is freed when its owner has dropped it and the last lock is    *)
(* gone; a slot of the swapchain is free again when its buffer loses its   *)
(* last lock.  The handlers call one another, so the state they share is   *)
(* one record, sc, and each function is an operator from record to record. *)
(***************************************************************************)
EXTENDS Integers, FiniteSets

CONSTANTS
    Cap,         \* WLR_SWAPCHAIN_CAP
    Buffer,      \* addresses of buffers
    Ref,         \* pointers that own a lock: an output state's buffer,
                 \* a plane's queued and current framebuffer
    Local,       \* the local variable that owns a lock during a call
    Mode,        \* sizes and formats
    None,
    PassFails    \* TRUE: the renderer may refuse a render pass

ASSUME SwapchainAssumption ==
    /\ Cap \in Nat \ {0}
    /\ IsFiniteSet(Ref)
    /\ Local \notin Ref
    /\ None \notin Buffer
    /\ None \notin Mode
    /\ PassFails \in BOOLEAN

Slot == 1 .. Cap
Holder == Ref \cup {Local}

VARIABLES
    sc,      \* the buffers, the slots and the references, see TypeOK
    config,  \* the swapchain's size and format, None: output->swapchain is NULL
    alloc    \* FALSE: the allocator was destroyed

vars == <<sc, config, alloc>>

State == [slots : [Slot -> Buffer \cup {None}],      \* slot->buffer
          acquired : [Slot -> BOOLEAN],              \* slot->acquired, and its listener
          live : SUBSET Buffer,                      \* allocated and not yet freed
          locks : [Buffer -> Nat],                   \* buffer->n_locks
          dropped : SUBSET Buffer,                   \* buffer->dropped
          holds : [Holder -> Buffer \cup {None}],    \* what each reference points to
          lost : [Buffer -> Nat]]                    \* history: locks nobody owns

-----------------------------------------------------------------------------
(***************************************************************************)
(* Buffers.                                                                *)
(***************************************************************************)

(* wlr_buffer_lock, the result stored in the empty reference h. *)
wlr_buffer_lock(s, h, b) ==
    [slots |-> s.slots, acquired |-> s.acquired, live |-> s.live,
     locks |-> [s.locks EXCEPT ![b] = s.locks[b] + 1],
     dropped |-> s.dropped,
     holds |-> [s.holds EXCEPT ![h] = b],
     lost |-> s.lost]

(* Slip: a dropped buffer is freed although others still hold it. *)
unlock_frees(s, h) ==
    LET b == s.holds[h]
    IN  IF b = None THEN s
        ELSE [s EXCEPT !.locks[b] = @ - 1, !.holds[h] = None,
                       !.live = IF b \in s.dropped THEN @ \ {b} ELSE @,
                       !.dropped = @ \ {b}]

(* Slip: the release event is not sent. *)
unlock_silent(s, h) ==
    LET b == s.holds[h]
    IN  IF b = None THEN s
        ELSE [s EXCEPT !.locks[b] = @ - 1, !.holds[h] = None]

(* wlr_buffer_unlock of what h points to, h set to NULL: the last lock     *)
(* sends the release event (slot_handle_release) and may free the buffer.  *)
wlr_buffer_unlock(s, h) ==
    LET b == s.holds[h]
        last == s.locks[b] = 1
        freed == IF last /\ b \in s.dropped THEN {b} ELSE {}
    IN  IF b = None THEN s
        ELSE [slots |-> s.slots,
              acquired |-> [i \in Slot |-> s.acquired[i] /\ ~(last /\ s.slots[i] = b)],
              live |-> s.live \ freed,
              locks |-> [s.locks EXCEPT ![b] = s.locks[b] - 1],
              dropped |-> s.dropped \ freed,
              holds |-> [s.holds EXCEPT ![h] = None],
              lost |-> s.lost]

(* The reference "from" is handed over to the empty reference "to". *)
Transfer(s, to, from) ==
    [slots |-> s.slots, acquired |-> s.acquired, live |-> s.live,
     locks |-> s.locks, dropped |-> s.dropped,
     holds |-> [h \in Holder |-> IF h = to THEN s.holds[from]
                                 ELSE IF h = from THEN None ELSE s.holds[h]],
     lost |-> s.lost]

(* The local variable goes out of scope and its lock stays. *)
Forget(s) ==
    LET b == s.holds[Local]
    IN  IF b = None THEN s
        ELSE [slots |-> s.slots, acquired |-> s.acquired, live |-> s.live,
              locks |-> s.locks, dropped |-> s.dropped,
              holds |-> [s.holds EXCEPT ![Local] = None],
              lost |-> [s.lost EXCEPT ![b] = s.lost[b] + 1]]

(* Slip: the old buffer stays locked. *)
SetRef_leaks(s, h, b) == wlr_buffer_lock(s, h, b)

(* wlr_output_state_set_buffer and drm_fb_copy: the old buffer is let go    *)
(* before the new one, which the caller holds, is locked.                  *)
SetRef(s, h, b) == wlr_buffer_lock(wlr_buffer_unlock(s, h), h, b)

drm_fb_move(s, to, from) == Transfer(wlr_buffer_unlock(s, to), to, from)

-----------------------------------------------------------------------------
(***************************************************************************)
(* The swapchain.                                                          *)
(***************************************************************************)

(* wlr_allocator_create_buffer into an empty slot: nobody holds it yet. *)
Allocate(s, i, b) ==
    [slots |-> [s.slots EXCEPT ![i] = b], acquired |-> s.acquired,
     live |-> s.live \cup {b}, locks |-> s.locks, dropped |-> s.dropped,
     holds |-> s.holds, lost |-> s.lost]

(* slot_acquire; the caller's local variable owns the lock. *)
slot_acquire(s, i) ==
    LET t == wlr_buffer_lock(s, Local, s.slots[i])
    IN  [slots |-> t.slots, acquired |-> [t.acquired EXCEPT ![i] = TRUE],
         live |-> t.live, locks |-> t.locks, dropped |-> t.dropped,
         holds |-> t.holds, lost |-> t.lost]

(* Slip: slots are emptied and their unused buffers are not dropped. *)
destroy_keeps(s) ==
    LET held == {b \in Buffer : s.locks[b] > 0 /\ \E i \in Slot : s.slots[i] = b}
    IN  [s EXCEPT !.slots = [i \in Slot |-> None], !.acquired = [i \in Slot |-> FALSE],
                  !.dropped = @ \cup held]

(* wlr_swapchain_destroy: every slot forgets its listener and drops its    *)
(* buffer, which is freed unless somebody holds it.                        *)
wlr_swapchain_destroy(s) ==
    LET own == {b \in Buffer : \E i \in Slot : s.slots[i] = b}
        freed == {b \in own : s.locks[b] = 0}
    IN  [slots |-> [i \in Slot |-> None],
         acquired |-> [i \in Slot |-> FALSE],
         live |-> s.live \ freed,
         locks |-> s.locks,
         dropped |-> (s.dropped \cup own) \ freed,
         holds |-> s.holds, lost |-> s.lost]

Ready(s) == {i \in Slot : ~s.acquired[i] /\ s.slots[i] # None}
Empty(s) == {i \in Slot : ~s.acquired[i] /\ s.slots[i] = None}

(* A slot with a free buffer, or else a new buffer in an empty slot; which *)
(* of them, the first and the last in the array, makes no difference.  s   *)
(* itself is in the answer when NULL is returned.                          *)
wlr_swapchain_acquire(s) ==
    IF Ready(s) # {} THEN {slot_acquire(s, i) : i \in Ready(s)}
    ELSE {s} \cup
         (IF alloc THEN {slot_acquire(Allocate(s, i, b), i) :
                            i \in Empty(s), b \in Buffer \ s.live}
                   ELSE {})

(***************************************************************************)
(* wlr_output_configure_primary_swapchain: a new swapchain replaces the    *)
(* old one after a test commit with its first buffer, which went to the    *)
(* last slot and is free again.  A swapchain that fails its test leaves    *)
(* nothing behind.                                                         *)
(***************************************************************************)
Reconfigured(s) == {Allocate(wlr_swapchain_destroy(s), Cap, b) : b \in Buffer \ s.live}

(* The states a call that succeeds may leave; one that fails leaves sc. *)
Configured(s, m) == IF config = m THEN {s} ELSE IF alloc THEN Reconfigured(s) ELSE {}

-----------------------------------------------------------------------------
(***************************************************************************)
(* wlr_output_begin_render_pass into the output state h.  When the         *)
(* renderer refuses the pass the buffer stays locked.                      *)
(***************************************************************************)
BeginRenderPass(h, m) ==
    /\ \E s \in Configured(sc, m) : \E t \in wlr_swapchain_acquire(s) :
         \/ /\ t.holds[Local] = None
            /\ sc' = t
         \/ /\ t.holds[Local] # None /\ PassFails
            /\ sc' = Forget(t)
         \/ /\ t.holds[Local] # None
            /\ sc' = wlr_buffer_unlock(SetRef(t, h, t.holds[Local]), Local)
    /\ config' = m
    /\ UNCHANGED alloc

(***************************************************************************)
(* A commit that needs a buffer and has none (output_ensure_buffer): an    *)
(* empty one is acquired and, when the backend takes the commit, ends up   *)
(* in the reference h too.  All else lets the buffer go, as do             *)
(* wlr_output_test_state and a refused pass (output_acquire_empty_buffer). *)
(***************************************************************************)
CommitEmptyBuffer(h, m) ==
    /\ \E s \in Configured(sc, m) : \E t \in wlr_swapchain_acquire(s) :
         \/ sc' = wlr_buffer_unlock(t, Local)
         \/ /\ t.holds[Local] # None
            /\ sc' = wlr_buffer_unlock(SetRef(t, h, t.holds[Local]), Local)
    /\ config' = m
    /\ UNCHANGED alloc

(* A reference is copied (a commit, or a second output state). *)
Copy(h, from) ==
    /\ h # from /\ sc.holds[from] # None
    /\ sc' = SetRef(sc, h, sc.holds[from])
    /\ UNCHANGED <<config, alloc>>

(* handle_page_flip: the queued framebuffer becomes the current one. *)
Flip(h, from) ==
    /\ h # from /\ sc.holds[from] # None
    /\ sc' = drm_fb_move(sc, h, from)
    /\ UNCHANGED <<config, alloc>>

(* wlr_output_state_finish, drm_fb_clear *)
Finish(h) ==
    /\ sc.holds[h] # None
    /\ sc' = wlr_buffer_unlock(sc, h)
    /\ UNCHANGED <<config, alloc>>

(* The output is disabled, changes size behind our back, or goes away. *)
DestroySwapchain ==
    /\ config # None
    /\ sc' = wlr_swapchain_destroy(sc)
    /\ config' = None
    /\ UNCHANGED alloc

(* swapchain_handle_allocator_destroy *)
AllocatorDestroy ==
    /\ alloc /\ alloc' = FALSE
    /\ UNCHANGED <<sc, config>>

(* wlr_output_init_render, again, with a new allocator. *)
InitRender ==
    /\ sc' = IF config = None THEN sc ELSE wlr_swapchain_destroy(sc)
    /\ config' = None
    /\ alloc' = TRUE

Init ==
    /\ sc = [slots |-> [i \in Slot |-> None], acquired |-> [i \in Slot |-> FALSE],
             live |-> {}, locks |-> [b \in Buffer |-> 0], dropped |-> {},
             holds |-> [h \in Holder |-> None], lost |-> [b \in Buffer |-> 0]]
    /\ config = None
    /\ alloc = TRUE

Next ==
    \/ \E h \in Ref, m \in Mode : BeginRenderPass(h, m) \/ CommitEmptyBuffer(h, m)
    \/ \E h, from \in Ref : Copy(h, from) \/ Flip(h, from)
    \/ \E h \in Ref : Finish(h)
    \/ DestroySwapchain
    \/ AllocatorDestroy
    \/ InitRender

Spec == Init /\ [][Next]_vars

-----------------------------------------------------------------------------
Holders(s, b) == {h \in Holder : s.holds[h] = b}

TypeOK == sc \in State /\ config \in Mode \cup {None} /\ alloc \in BOOLEAN

(***************************************************************************)
(* n_locks counts the references to a buffer, and those a failed render    *)
(* pass lost (wlr_buffer_lock, wlr_buffer_unlock and all their callers).   *)
(***************************************************************************)
RefCounted(s) == \A b \in Buffer : s.locks[b] = Cardinality(Holders(s, b)) + s.lost[b]

(* No slot and no reference points to a freed buffer. *)
NoUseAfterFree ==
    /\ \A i \in Slot : sc.slots[i] \in sc.live \cup {None}
    /\ \A h \in Holder : sc.holds[h] \in sc.live \cup {None}

(***************************************************************************)
(* A slot is taken exactly while somebody holds its buffer, so             *)
(* wlr_swapchain_acquire never hands out a buffer that is on screen or in  *)
(* a pending state, and finds again each one that is not.                  *)
(***************************************************************************)
AcquiredIffLocked(s) ==
    \A i \in Slot : s.acquired[i] <=> s.slots[i] # None /\ s.locks[s.slots[i]] > 0

(***************************************************************************)
(* A buffer whose swapchain is gone lives exactly as long as somebody      *)
(* holds it: none is leaked by wlr_swapchain_destroy, whatever is held     *)
(* when it runs.                                                           *)
(***************************************************************************)
NoBufferLeak(s) ==
    \A b \in s.live : \/ \E i \in Slot : s.slots[i] = b
                      \/ b \in s.dropped /\ s.locks[b] > 0

(* wlr_buffer_drop asserts that a buffer is dropped once: no buffer is in   *)
(* two slots, and none in a slot was dropped.                              *)
DroppedOnce(s) ==
    /\ \A i \in Slot : s.slots[i] \notin s.dropped
    /\ \A i, j \in Slot : s.slots[i] = s.slots[j] /\ s.slots[i] # None => i = j

(* The local variables of the calls own nothing once these returned. *)
CallsReturned(s) == s.holds[Local] = None

LocksCounted == RefCounted(sc)
SlotsExclusive == AcquiredIffLocked(sc)
BuffersFreed == NoBufferLeak(sc)
DropsOnce == DroppedOnce(sc)

(***************************************************************************)
(* swapchain.h on wlr_swapchain_acquire: "When the caller is done with it, *)
(* they must unlock it".  A slot that is taken is held by a reference that *)
(* will let it go (wlr_output_begin_render_pass, output_ensure_buffer).    *)
(***************************************************************************)
AcquiredHeld ==
    \A i \in Slot : sc.acquired[i] => \E h \in Ref : sc.holds[h] = sc.slots[i]
=============================================================================
