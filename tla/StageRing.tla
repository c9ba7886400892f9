------------------------------ MODULE StageRing ------------------------------
(***************************************************************************)
(* The staging buffers of the Vulkan renderer (render/vulkan/renderer.c):   *)
(* ring buffers from which spans are allocated for uploads and vertices.    *)
(* Submissions leave watermarks in them, and a span is free again once the  *)
(* timeline semaphore reached the point of the watermark that covers it.    *)
(***************************************************************************)
EXTENDS Naturals, Sequences, FiniteSets

CONSTANTS MinStage,       \* min_stage_size
          MaxStage,       \* max_stage_size
          EmptyGcs,       \* collections after which an empty buffer is freed (1000)
          SpanLens,       \* sizes that are asked for
          SpanAligns,     \* alignments that are asked for
          MaxPoints,      \* bound: submissions
          MaxSpans,       \* bound: spans handed out
          MaxStageBufs    \* bound: staging buffers

(* bufs: wlr_vk_renderer.stage.buffers; point: timeline_point; done: the    *)
(* timeline semaphore's counter.  Ghosts: asked, the number of spans handed *)
(* out; spans, those not yet read by the device; crossed, that rounding a   *)
(* head up to an alignment carried it over the tail.                        *)
VARIABLE ring

StageBuffer(id, size) ==
  [id |-> id, size |-> size, head |-> 0, tail |-> 0, marks |-> <<>>, empty |-> 0]

RingInit ==
  ring = [bufs |-> <<>>, point |-> 0, done |-> 0, asked |-> 0, spans |-> {}, crossed |-> FALSE]

NoSpace == MaxStage

Rounded(head, align) == IF head % align = 0 THEN head ELSE head + align - (head % align)

(* vulkan_stage_buffer_alloc: the offset of a span, or NoSpace.             *)
AllocAt(buf, len, align) ==
  LET head == Rounded(buf.head, align)
      end == IF head >= buf.tail THEN buf.size ELSE buf.tail
  IN CASE head + len < end -> head
       [] ~(head + len < end) /\ len < buf.tail /\ head >= buf.tail -> 0
       [] OTHER -> NoSpace

(* A span may end where the tail is, so that a full buffer looks empty.     *)
alloc_fills(buf, len, align) ==
  LET head == Rounded(buf.head, align)
      end == IF head >= buf.tail THEN buf.size ELSE buf.tail
  IN CASE head + len <= end -> head
       [] ~(head + len <= end) /\ len <= buf.tail /\ head >= buf.tail -> 0
       [] OTHER -> NoSpace

vulkan_stage_buffer_alloc(buf, len, align) == AllocAt(buf, len, align)

Allocated(r, i, len, align) ==
  LET buf == r.bufs[i]
      off == vulkan_stage_buffer_alloc(buf, len, align)
  IN [r EXCEPT !.bufs[i].head = off + len, !.asked = @ + 1,
               !.crossed = @ \/ (buf.head < buf.tail /\ Rounded(buf.head, align) >= buf.tail),
               !.spans = @ \cup {[id |-> buf.id, off |-> off, len |-> len, point |-> 0]}]

(* The size of a new buffer: twice the largest, and room for two such spans. *)
NewStageSize(r, len) ==
  LET largest == CHOOSE m \in {MinStage \div 2} \cup {r.bufs[i].size : i \in DOMAIN r.bufs} :
                   \A i \in DOMAIN r.bufs : r.bufs[i].size <= m
      doubled == CHOOSE b \in {largest * 2 * 2^k : k \in 0..len} :
                   /\ len * 2 <= b
                   /\ \A k \in 0..len : largest * 2 * 2^k < b => len * 2 > largest * 2 * 2^k
  IN IF doubled > MaxStage THEN MaxStage ELSE doubled

(* A name for a new buffer, which no buffer or span has.                    *)
FreshId ==
  CHOOSE n \in 1..(Len(ring.bufs) + Cardinality(ring.spans) + 1) :
    n \notin {ring.bufs[i].id : i \in DOMAIN ring.bufs} \cup {s.id : s \in ring.spans}

(* vulkan_get_stage_span: the first buffer with room, or a new one.         *)
vulkan_get_stage_span ==
  \E len \in SpanLens, align \in SpanAligns :
    LET fits == {i \in DOMAIN ring.bufs :
                   vulkan_stage_buffer_alloc(ring.bufs[i], len, align) # NoSpace}
        fresh == [ring EXCEPT !.bufs = Append(@, StageBuffer(FreshId, NewStageSize(ring, len)))]
    IN /\ len < MaxStage /\ ring.asked < MaxSpans
       /\ IF fits # {}
            THEN ring' = Allocated(ring, CHOOSE i \in fits : \A j \in fits : i <= j, len, align)
            ELSE /\ Len(ring.bufs) < MaxStageBufs
                 /\ ring' = Allocated(fresh, Len(fresh.bufs), len, align)

(* vulkan_stage_mark_submit at the point of a submission: the spans handed  *)
(* out since the last one are read by it.                                   *)
vulkan_stage_mark_submit ==
  /\ ring.point < MaxPoints
  /\ ring' = [ring EXCEPT
       !.point = @ + 1,
       !.bufs = [i \in DOMAIN @ |->
          IF @[i].head = @[i].tail THEN @[i]
          ELSE [@[i] EXCEPT !.marks = Append(@, [head |-> ring.bufs[i].head,
                                                 point |-> ring.point + 1])]],
       !.spans = {IF s.point = 0 THEN [s EXCEPT !.point = ring.point + 1] ELSE s : s \in @}]

(* A pass that is given up: nothing will read the spans, which stay         *)
(* allocated until the next watermark.                                      *)
DropPass ==
  /\ \E s \in ring.spans : s.point = 0
  /\ ring' = [ring EXCEPT !.spans = {s \in @ : s.point # 0}]

(* The device executes the next submission.                                 *)
RingExecute ==
  /\ ring.done < ring.point
  /\ ring' = [ring EXCEPT !.done = @ + 1, !.spans = {s \in @ : s.point # ring.done + 1}]

(* Reclaims one watermark too many.                                         *)
reclaim_ahead(buf, current) ==
  LET reached == {i \in DOMAIN buf.marks : buf.marks[i].point <= current + 1}
      n == Cardinality(reached)
  IN IF n = 0 THEN buf
     ELSE [buf EXCEPT !.tail = buf.marks[n].head, !.marks = SubSeq(@, n + 1, Len(@))]

(* vulkan_stage_buffer_reclaim: the tail follows the watermarks reached.    *)
vulkan_stage_buffer_reclaim(buf, current) ==
  LET reached == {i \in DOMAIN buf.marks : \A j \in 1..i : buf.marks[j].point <= current}
      n == Cardinality(reached)
  IN IF n = 0 THEN buf
     ELSE [buf EXCEPT !.tail = buf.marks[n].head, !.marks = SubSeq(@, n + 1, Len(@))]

(* stage_buffer_gc: buffers in use are reclaimed, large ones that stayed    *)
(* empty are freed.                                                         *)
Collected(buf, current) ==
  IF buf.head # buf.tail
    THEN vulkan_stage_buffer_reclaim([buf EXCEPT !.empty = 0], current)
    ELSE IF buf.size <= MinStage THEN buf ELSE [buf EXCEPT !.empty = @ + 1]

Worn(buf) == buf.head = buf.tail /\ buf.size > MinStage /\ buf.empty + 1 >= EmptyGcs

stage_buffer_gc ==
  LET kept == SelectSeq(ring.bufs, LAMBDA b : ~Worn(b))
  IN ring' = [ring EXCEPT !.bufs = [i \in DOMAIN kept |-> Collected(kept[i], ring.done)]]

RingNext ==
  \/ vulkan_get_stage_span
  \/ vulkan_stage_mark_submit
  \/ DropPass
  \/ RingExecute
  \/ stage_buffer_gc

RingSpec == RingInit /\ [][RingNext]_ring

-----------------------------------------------------------------------------
Holding(id) == {b \in {ring.bufs[i] : i \in DOMAIN ring.bufs} : b.id = id}

(* "Suballocate a span of size bytes from a staging ring buffer": a span    *)
(* lies in a buffer that exists and shares no byte with another one that    *)
(* the device has yet to read (vulkan_stage_buffer_alloc).                  *)
SpansDisjoint ==
  \A s \in ring.spans :
    /\ \E b \in Holding(s.id) : s.off + s.len <= b.size
    /\ \A t \in ring.spans \ {s} :
         s.id = t.id => s.off + s.len <= t.off \/ t.off + t.len <= s.off

(* As long as no rounding carried a head over its tail, spans are disjoint, *)
(* and whatever is allocated is freed by a watermark: an empty buffer has   *)
(* no spans, and watermarks come in the order of their points.              *)
StagingSound ==
  ring.crossed \/
    /\ SpansDisjoint
    /\ \A i \in DOMAIN ring.bufs :
         LET b == ring.bufs[i]
         IN /\ b.head = b.tail => \A s \in ring.spans : s.id # b.id
            /\ \A j, k \in DOMAIN b.marks : j < k => b.marks[j].point < b.marks[k].point
=============================================================================
