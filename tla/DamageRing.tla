----------------------------- MODULE DamageRing -----------------------------
(***************************************************************************)
(* The damage ring of types/wlr_damage_ring.c: for each buffer an output   *)
(* renders into, how far that buffer is behind the scene.  The ring keeps  *)
(* the damage gathered since the last rotation (current) and a list of     *)
(* entries, most recently painted first.  entry.damage is the difference   *)
(* between the picture painted into that entry's buffer and the picture    *)
(* painted into the next (older) one.                                      *)
(*                                                                         *)
(* A pixman region is the set of the cells it covers.  stale is a history  *)
(* variable: the cells of each buffer that are out of date, because their  *)
(* content is not the scene's or because the caller declared them damaged. *)
(***************************************************************************)
EXTENDS Integers, Sequences, FiniteSets

CONSTANTS
    Buffer,        \* buffers an output may render into
    Width,         \* [Buffer -> Nat], wlr_buffer.width in cells
    Height,        \* [Buffer -> Nat], wlr_buffer.height in cells
    ScreenWidth,   \* damage lies within ScreenWidth x ScreenHeight cells
    ScreenHeight,
    MAX_RECTS      \* WLR_DAMAGE_RING_MAX_RECTS

ASSUME SizeAssumption ==
    /\ ScreenWidth \in Nat /\ ScreenHeight \in Nat /\ MAX_RECTS \in Nat
    /\ Width \in [Buffer -> 0..ScreenWidth]
    /\ Height \in [Buffer -> 0..ScreenHeight]

VARIABLES
    current,   \* wlr_damage_ring.current
    buffers,   \* wlr_damage_ring.buffers: sequence of [buffer, damage]
    stale      \* history: [Buffer -> its cells that are out of date]

vars == <<current, buffers, stale>>

Cell   == (0 .. ScreenWidth - 1) \X (0 .. ScreenHeight - 1)
Region == SUBSET Cell
Entry  == [buffer : Buffer, damage : Region]

(* The rectangle at the origin of the given size, and a buffer's one. *)
Rect(w, h) == {c \in Cell : c[1] < w /\ c[2] < h}
Whole(b)   == Rect(Width[b], Height[b])

TypeOK ==
    /\ current \in Region
    /\ buffers \in Seq(Entry)
    /\ stale \in [Buffer -> Region]

-----------------------------------------------------------------------------
(***************************************************************************)
(* pixman keeps a region as bands: runs of consecutive rows that cover the *)
(* same columns.  A rectangle of the region starts at each cell that opens *)
(* a run of columns in the first row of a band.                            *)
(***************************************************************************)
Row(D, y)  == {x \in 0 .. ScreenWidth - 1 : <<x, y>> \in D}
NRects(D)  == Cardinality({c \in D : /\ <<c[1] - 1, c[2]>> \notin D
                                     /\ Row(D, c[2]) # Row(D, c[2] - 1)})
Extents(D) == {c \in Cell : /\ \E p, q \in D : p[1] <= c[1] /\ c[1] <= q[1]
                            /\ \E p, q \in D : p[2] <= c[2] /\ c[2] <= q[2]}

(* A region of too many rectangles is replaced by its extents. *)
LimitRects(D) == IF NRects(D) > MAX_RECTS THEN D \cup Extents(D) ELSE D

InRing(b)  == \E i \in 1 .. Len(buffers) : buffers[i].buffer = b
IndexOf(b) == CHOOSE i \in 1 .. Len(buffers) : buffers[i].buffer = b

(* The damage met by the walk from the ring's head to entry i. *)
DamageBefore(i) == current \cup UNION {buffers[j].damage : j \in 1 .. (i - 1)}

(* The region rotate_buffer hands back: what has to be redrawn in b. *)
RotateDamage(b) ==
    IF InRing(b) THEN LimitRects(DamageBefore(IndexOf(b)) \cap Whole(b))
                 ELSE Whole(b)

(***************************************************************************)
(* entry_squash_damage hands an entry's damage to the entry before it, or  *)
(* to current when the entry is the first.                                 *)
(***************************************************************************)
SquashCurrentDropped(i) == current   \* slip: the first entry's damage is lost
SquashCurrent(i) == IF i = 1 THEN current \cup buffers[1].damage ELSE current
SquashEntry(i, j) ==
    [buffer |-> buffers[j].buffer,
     damage |-> buffers[j].damage \cup (IF j = i - 1 THEN buffers[i].damage ELSE {})]

(* Entry i leaves the list after its damage was squashed. *)
WithoutEntry(i) ==
    [j \in 1 .. (Len(buffers) - 1) |->
        IF j < i THEN SquashEntry(i, j) ELSE buffers[j + 1]]

(* Entry i moves to the list's head, carrying the damage gathered so far. *)
MoveToFront(i) ==
    [j \in 1 .. Len(buffers) |->
        IF j = 1 THEN [buffer |-> buffers[i].buffer, damage |-> SquashCurrent(i)]
        ELSE IF j <= i THEN SquashEntry(i, j - 1)
        ELSE buffers[j]]

(* A new entry for b at the list's head. *)
InsertFront(b) ==
    [j \in 1 .. (Len(buffers) + 1) |->
        IF j = 1 THEN [buffer |-> b, damage |-> current] ELSE buffers[j - 1]]

-----------------------------------------------------------------------------
(* wlr_damage_ring_init: no buffer has been painted yet. *)
Init ==
    /\ current = {}
    /\ buffers = <<>>
    /\ stale = [b \in Buffer |-> Whole(b)]

(* The scene changes in D: every buffer falls behind there. *)
Damaged(D) == [b \in Buffer |-> stale[b] \cup (D \cap Whole(b))]

(* wlr_damage_ring_add and wlr_damage_ring_add_box: the scene changed in D. *)
Add(D) ==
    /\ current' = current \cup D
    /\ stale' = Damaged(D)
    /\ UNCHANGED buffers

(* The smallest rectangle at the origin that covers every buffer of seq. *)
WholeOf(seq) == UNION {Rect(Width[seq[i].buffer], Height[seq[j].buffer]) :
                          i, j \in 1 .. Len(seq)}

(* wlr_damage_ring_add_whole: everything changed. *)
AddWhole ==
    /\ current' = current \cup WholeOf(buffers)
    /\ stale' = [b \in Buffer |-> Whole(b)]
    /\ UNCHANGED buffers

(***************************************************************************)
(* wlr_damage_ring_rotate_buffer followed by its caller painting the       *)
(* returned region.  The ring meets b in its list, or b is new to it.      *)
(***************************************************************************)
RotateKnownUncleared(b) ==   \* slip: current is copied and not cleared
    /\ InRing(b)
    /\ buffers' = MoveToFront(IndexOf(b))
    /\ current' = current

RotateKnown(b) ==
    /\ InRing(b)
    /\ buffers' = MoveToFront(IndexOf(b))
    /\ current' = {}

(* calloc may fail: the caller repaints all of b and the ring keeps still. *)
RotateNew(b, allocated) ==
    /\ ~InRing(b)
    /\ buffers' = IF allocated THEN InsertFront(b) ELSE buffers
    /\ current' = IF allocated THEN {} ELSE current

Painted(b) == [stale EXCEPT ![b] = @ \ RotateDamage(b)]

RotateAndPaint(b) ==
    /\ \/ RotateKnown(b)
       \/ \E allocated \in BOOLEAN : RotateNew(b, allocated)
    /\ stale' = Painted(b)

(***************************************************************************)
(* The caller rotates but its render pass fails to submit: the content of  *)
(* b is unknown, and the caller damages the whole ring                     *)
(* (wlr_scene_output_build_state).                                         *)
(***************************************************************************)
RotateKnownAndFail(b) ==
    /\ InRing(b)
    /\ buffers' = MoveToFront(IndexOf(b))
    /\ current' = WholeOf(MoveToFront(IndexOf(b)))

RotateNewAndFail(b, allocated) ==
    /\ ~InRing(b)
    /\ buffers' = IF allocated THEN InsertFront(b) ELSE buffers
    /\ current' = IF allocated THEN WholeOf(InsertFront(b))
                               ELSE current \cup WholeOf(buffers)

RotateAndFail(b) ==
    /\ \/ RotateKnownAndFail(b)
       \/ \E allocated \in BOOLEAN : RotateNewAndFail(b, allocated)
    /\ stale' = [a \in Buffer |-> Whole(a)]

(* buffer_handle_destroy; a buffer later created at the same address is new. *)
BufferDestroy(b) ==
    /\ InRing(b)
    /\ current' = SquashCurrent(IndexOf(b))
    /\ buffers' = WithoutEntry(IndexOf(b))
    /\ stale' = [stale EXCEPT ![b] = Whole(b)]

(* wlr_damage_ring_finish, then wlr_damage_ring_init for another output. *)
Finish ==
    /\ current' = {}
    /\ buffers' = <<>>
    /\ stale' = [b \in Buffer |-> Whole(b)]

Next ==
    \/ \E D \in Region : Add(D)
    \/ AddWhole
    \/ \E b \in Buffer : RotateAndPaint(b)
    \/ \E b \in Buffer : RotateAndFail(b)
    \/ \E b \in Buffer : BufferDestroy(b)
    \/ Finish

Spec == Init /\ [][Next]_vars

-----------------------------------------------------------------------------
(***************************************************************************)
(* wlr_damage_ring_rotate_buffer hands back "the region that needs to be   *)
(* redrawn": whatever buffer is rotated next, in whatever order buffers    *)
(* were painted, destroyed and failed before, no cell that differs from    *)
(* the scene is left out.  A missed cell is a glitch on screen.            *)
(***************************************************************************)
RotateSound == \A b \in Buffer : stale[b] \subseteq RotateDamage(b)

(***************************************************************************)
(* The walk accumulates no more than it has to: for a buffer of the ring,  *)
(* the damage before the rectangle limit is exactly what is out of date,   *)
(* so squashing never smears damage on a buffer that does not need it.     *)
(***************************************************************************)
RotateTight ==
    \A i \in 1 .. Len(buffers) :
        DamageBefore(i) \cap Whole(buffers[i].buffer) \subseteq stale[buffers[i].buffer]

(***************************************************************************)
(* rotate_buffer stops at the first entry of the buffer: no buffer may be  *)
(* listed twice, or its second entry would keep damage for ever.           *)
(***************************************************************************)
EntriesUnique ==
    \A i, j \in 1 .. Len(buffers) :
        buffers[i].buffer = buffers[j].buffer => i = j

(***************************************************************************)
(* wlr_damage_ring_rotate_buffer returns buffer-local damage: the caller   *)
(* never paints outside of the buffer, even after the damage is replaced   *)
(* by its extents and when the ring holds buffers of other sizes.          *)
(***************************************************************************)
DamageWithinBuffer == \A b \in Buffer : RotateDamage(b) \subseteq Whole(b)

-----------------------------------------------------------------------------
(***************************************************************************)
(* What rotate_buffer, buffer_handle_destroy and add_whole maintain, and   *)
(* what makes the walk of the list correct: the damage before an entry is  *)
(* exactly what that entry's buffer lacks.                                 *)
(***************************************************************************)
StaleExact ==
    \A i \in 1 .. Len(buffers) :
        stale[buffers[i].buffer] = DamageBefore(i) \cap Whole(buffers[i].buffer)

StaleWithinBuffer == \A b \in Buffer : stale[b] \subseteq Whole(b)

IInv == TypeOK /\ EntriesUnique /\ StaleExact /\ StaleWithinBuffer
=============================================================================
