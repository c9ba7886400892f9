--------------------------- MODULE VulkanRenderer ---------------------------
(***************************************************************************)
(* The Vulkan renderer's command buffers, textures and render passes        *)
(* (render/vulkan/{renderer,pass,texture}.c) and the queue that executes    *)
(* them.  A pass is two submissions: uploads and barriers recorded in the   *)
(* stage command buffer, then the draws.  Each gets a point of a timeline   *)
(* semaphore, which tells when a command buffer may be recorded again and   *)
(* when a texture that was destroyed may be freed.                          *)
(***************************************************************************)
EXTENDS Naturals, Sequences, FiniteSets

CONSTANTS VkTexture,
          CbCap,        \* VULKAN_COMMAND_BUFFERS_CAP
          MaxVkPoint    \* bound: points of the timeline

(* point: timeline_point; done: the semaphore's counter; last:              *)
(* stage.last_timeline_point; cbs: command_buffers; stage: stage.cb or 0;   *)
(* pass: the open wlr_vk_render_pass; tex: the textures, last being         *)
(* last_used_cb or 0 and foreign membership of foreign_textures; target:    *)
(* the render buffer; interop: dev->implicit_sync_interop.  Ghosts: queue,  *)
(* what was submitted and has not completed, with the textures it uses;     *)
(* recorded, the textures used by what is being recorded; lost, that a      *)
(* point was given to a submission that failed; stray, textures that were   *)
(* recorded in vain, see GivenUp, or stay on the foreign list after a pass  *)
(* that failed; hung, a wait nothing can end.                              *)
VARIABLE vkq

Cb == 1..CbCap

VkInit ==
  \E interop \in BOOLEAN :
    vkq = [point |-> 0, done |-> 0, last |-> 0, stage |-> 0, queue |-> <<>>,
           cbs |-> [c \in Cb |-> [vk |-> FALSE, rec |-> FALSE, point |-> 0, doomed |-> {}]],
           pass |-> [cb |-> 0, failed |-> FALSE],
           tex |-> [t \in VkTexture |-> [obj |-> "none", dmabuf |-> FALSE, last |-> 0,
                                         owned |-> FALSE, foreign |-> FALSE]],
           target |-> FALSE, recorded |-> [c \in Cb |-> {}], interop |-> interop,
           lost |-> FALSE, stray |-> {}, hung |-> FALSE]

Idle(s) == s.pass.cb = 0

-----------------------------------------------------------------------------
(* The device: submissions execute in order, each once its wait is met.     *)
Executable(s) == s.queue # <<>> /\ Head(s.queue).wait <= s.done

Executed(s) == [s EXCEPT !.done = Head(s.queue).point, !.queue = Tail(@)]

(* Blocks until a point is reached; nobody else submits meanwhile.          *)
Reachable(s, p) ==
  \/ p <= s.done
  \/ \E i \in DOMAIN s.queue :
       /\ s.queue[i].point >= p
       /\ \A j \in 1..i : s.queue[j].wait <= IF j = 1 THEN s.done ELSE s.queue[j - 1].point

Waited(s, p) ==
  IF ~Reachable(s, p) THEN [s EXCEPT !.hung = TRUE]
  ELSE IF p <= s.done THEN s
  ELSE LET n == CHOOSE i \in DOMAIN s.queue :
                  s.queue[i].point >= p /\ \A j \in 1..(i - 1) : s.queue[j].point < p
       IN [s EXCEPT !.done = s.queue[n].point, !.queue = SubSeq(@, n + 1, Len(@))]

-----------------------------------------------------------------------------
(* Command buffers.                                                         *)

(* Frees the texture at once, although a command buffer may use it.         *)
texture_destroy_now(s, t) == [s EXCEPT !.tex[t].obj = "gone"]

(* vulkan_texture_destroy: a texture that a command buffer used waits for   *)
(* that command buffer.                                                     *)
vulkan_texture_destroy(s, t) ==
  IF s.tex[t].last # 0
    THEN [s EXCEPT !.cbs[s.tex[t].last].doomed = @ \cup {t}, !.tex[t].obj = "doomed"]
    ELSE [s EXCEPT !.tex[t].obj = "gone"]

(* Of the command buffers that completed.                                   *)
release_command_buffer_resources(s, completed) ==
  LET doomed == UNION {s.cbs[c].doomed : c \in completed}
  IN [s EXCEPT !.cbs = [c \in Cb |-> IF c \in completed THEN [@[c] EXCEPT !.doomed = {}] ELSE @[c]],
               !.tex = [t \in VkTexture |->
                          IF t \in doomed THEN [@[t] EXCEPT !.last = 0, !.obj = "gone"] ELSE @[t]]]

Completed(s) == {c \in Cb : s.cbs[c].vk /\ ~s.cbs[c].rec /\ s.cbs[c].point <= s.done}

(* The search of get_command_buffer: the first that is idle, before the     *)
(* first that does not exist yet; else that one; else the oldest.           *)
Chosen(s) ==
  LET unused == {c \in Cb : ~s.cbs[c].vk}
      idle == {c \in Completed(s) : \A u \in unused : c < u}
      busy == {c \in Cb : s.cbs[c].vk /\ ~s.cbs[c].rec}
      First(S) == CHOOSE c \in S : \A d \in S : c <= d
  IN CASE idle # {} -> First(idle)
       [] idle = {} /\ unused # {} -> First(unused)
       [] OTHER -> CHOOSE c \in busy : \A d \in busy : s.cbs[c].point <= s.cbs[d].point

(* Takes the oldest command buffer without waiting for it.                  *)
get_command_buffer_nowait(s) ==
  LET r == release_command_buffer_resources(s, Completed(s))
  IN [s |-> [r EXCEPT !.cbs[Chosen(r)].vk = TRUE], cb |-> Chosen(r)]

get_command_buffer(s) ==
  LET r == release_command_buffer_resources(s, Completed(s))
      c == Chosen(r)
  IN [s |-> [(IF r.cbs[c].vk THEN Waited(r, r.cbs[c].point) ELSE r) EXCEPT !.cbs[c].vk = TRUE],
      cb |-> c]

vulkan_acquire_command_buffer(s) ==
  LET g == get_command_buffer(s)
  IN [s |-> [g.s EXCEPT !.cbs[g.cb].rec = TRUE, !.recorded[g.cb] = {}], cb |-> g.cb]

(* vulkan_record_stage_cb: there is one stage command buffer at a time.     *)
vulkan_record_stage_cb(s) ==
  IF s.stage # 0 THEN s
  ELSE LET a == vulkan_acquire_command_buffer(s) IN [a.s EXCEPT !.stage = a.cb]

vulkan_end_command_buffer(s, c) ==
  [s EXCEPT !.point = @ + 1, !.cbs[c].rec = FALSE, !.cbs[c].point = s.point + 1]

(* What was recorded is given up: the textures in it forget what used them  *)
(* before.                                                                  *)
GivenUp(s, c) == [s EXCEPT !.cbs[c].rec = FALSE, !.stray = @ \cup s.recorded[c],
                           !.recorded[c] = {}]

vulkan_reset_command_buffer(s, c) == IF c = 0 THEN s ELSE GivenUp(s, c)

(* vkQueueSubmit of a command buffer that ended.                            *)
Submitted(s, c, wait) ==
  [s EXCEPT !.queue = Append(@, [point |-> s.cbs[c].point, wait |-> wait, cb |-> c,
                                 uses |-> s.recorded[c]]),
            !.recorded[c] = {}]

-----------------------------------------------------------------------------
(* Textures.                                                                *)

(* write_pixels: the copy is recorded in the stage command buffer.          *)
write_pixels(s, t) ==
  LET r == vulkan_record_stage_cb(s)
  IN [r EXCEPT !.tex[t].last = r.stage, !.recorded[r.stage] = @ \cup {t}]

(* vulkan_texture_from_pixels, vulkan_texture_from_dmabuf.  The name of a   *)
(* texture is taken again once nothing refers to it.                        *)
Unreferenced(t) ==
  /\ \A i \in DOMAIN vkq.queue : t \notin vkq.queue[i].uses
  /\ \A c \in Cb : t \notin vkq.recorded[c]
  /\ ~vkq.tex[t].foreign

NewTexture(s, t, dmabuf) ==
  [s EXCEPT !.tex[t] = [obj |-> "live", dmabuf |-> dmabuf, last |-> 0,
                        owned |-> FALSE, foreign |-> FALSE],
            !.stray = @ \ {t}]

vulkan_texture_from_pixels(t) ==
  /\ vkq.tex[t].obj \in {"none", "gone"} /\ Unreferenced(t) /\ Idle(vkq)
  /\ vkq' = write_pixels(NewTexture(vkq, t, FALSE), t)

vulkan_texture_from_dmabuf(t) ==
  /\ vkq.tex[t].obj \in {"none", "gone"} /\ Unreferenced(t) /\ Idle(vkq)
  /\ vkq' = NewTexture(vkq, t, TRUE)

(* vulkan_texture_update_from_buffer; surfaces commit between passes.       *)
vulkan_texture_update_from_buffer(t) ==
  /\ vkq.tex[t].obj = "live" /\ ~vkq.tex[t].dmabuf /\ Idle(vkq)
  /\ vkq' = write_pixels(vkq, t)

(* vulkan_texture_unref, or the destruction of the buffer it was made from. *)
DestroyTexture(t) ==
  /\ vkq.tex[t].obj = "live" /\ Idle(vkq)
  /\ vkq' = vulkan_texture_destroy(vkq, t)

-----------------------------------------------------------------------------
(* Render passes.                                                           *)

(* vulkan_begin_buffer_pass: creates the render buffer when there is none.  *)
vulkan_begin_render_pass ==
  /\ Idle(vkq) /\ vkq.point + 2 <= MaxVkPoint
  /\ LET a == vulkan_acquire_command_buffer([vkq EXCEPT !.target = TRUE])
     IN \/ vkq' = [a.s EXCEPT !.pass = [cb |-> a.cb, failed |-> FALSE]]
        \/ vkq' = vulkan_reset_command_buffer(a.s, a.cb)    \* vkBeginCommandBuffer failed

(* render_pass_add_texture: draws it, or fails once it is on the list of    *)
(* textures to acquire.  Callers draw only what is not clipped away.        *)
Listed(s, t) ==
  IF s.tex[t].dmabuf /\ ~s.tex[t].owned
    THEN [s EXCEPT !.tex[t].owned = TRUE, !.tex[t].foreign = TRUE] ELSE s

render_pass_add_texture(t) ==
  /\ ~Idle(vkq) /\ vkq.tex[t].obj = "live"
  /\ LET s == Listed(vkq, t)
     IN \/ vkq' = [s EXCEPT !.tex[t].last = s.pass.cb, !.recorded[s.pass.cb] = @ \cup {t}]
        \/ vkq' = [s EXCEPT !.pass.failed = TRUE]

(* The error label of render_pass_submit.                                   *)
PassFailed(s, stage) ==
  LET r == vulkan_reset_command_buffer(vulkan_reset_command_buffer(s, stage), s.pass.cb)
  IN [r EXCEPT !.pass = [cb |-> 0, failed |-> FALSE],
               !.stray = @ \cup {t \in VkTexture : s.tex[t].foreign}]

(* The barriers that take textures from their producer and give them back.  *)
Acquired(s, stage) ==
  LET foreign == {t \in VkTexture : s.tex[t].foreign}
  IN [s EXCEPT !.tex = [t \in VkTexture |-> IF t \in foreign
                          THEN [@[t] EXCEPT !.foreign = FALSE, !.owned = FALSE] ELSE @[t]],
               !.recorded[stage] = @ \cup foreign, !.recorded[s.pass.cb] = @ \cup foreign]

(* vulkan_sync_render_pass_release: without implicit synchronisation the    *)
(* caller waits for the frame.                                              *)
vulkan_sync_render_pass_release(s, c) == IF s.interop THEN s ELSE Waited(s, s.cbs[c].point)

render_pass_submit ==
  /\ ~Idle(vkq)
  /\ LET render == vkq.pass.cb
         recorded == vulkan_record_stage_cb(vkq)
         stage == recorded.stage
         taken == [recorded EXCEPT !.stage = 0]
         acquired == Acquired(taken, stage)
         ended1 == vulkan_end_command_buffer(acquired, stage)
         marked == [ended1 EXCEPT !.last = ended1.point]
         ended2 == vulkan_end_command_buffer(marked, render)
         submitted == Submitted(Submitted(ended2, stage, vkq.last), render, 0)
     IN \/ vkq.pass.failed /\ vkq' = PassFailed(vkq, 0)
        \/ /\ ~vkq.pass.failed
           /\ \/ vkq' = PassFailed(vkq, 0)              \* no stage command buffer
              \/ vkq' = PassFailed(taken, stage)        \* no span, or no memory
              \/ vkq' = PassFailed([acquired EXCEPT !.cbs[stage].rec = FALSE], stage)
              \/ vkq' = PassFailed([marked EXCEPT !.lost = TRUE], stage)
              \/ vkq' = PassFailed([ended2 EXCEPT !.lost = TRUE], stage)
              \/ vkq' = vulkan_sync_render_pass_release(
                          [submitted EXCEPT !.pass = [cb |-> 0, failed |-> FALSE]], render)

(* vulkan_submit_stage_wait, as vulkan_read_pixels and colour transforms    *)
(* use it: one submission of what was staged, waited for.  The wait for a   *)
(* sync_file may fail before anything is submitted.                         *)
vulkan_submit_stage_wait ==
  /\ Idle(vkq) /\ vkq.stage # 0 /\ vkq.point < MaxVkPoint
  /\ LET c == vkq.stage
         taken == [vkq EXCEPT !.stage = 0]
         ended == vulkan_end_command_buffer(taken, c)
     IN \/ vkq' = GivenUp(taken, c)                                 \* vkEndCommandBuffer failed
        \/ vkq' = GivenUp([ended EXCEPT !.lost = TRUE], c)          \* nothing submitted
        \/ vkq' = Waited(Submitted(ended, c, 0), ended.point)

(* Does not wait for the frames that render to it.                          *)
destroy_render_buffer_busy ==
  Idle(vkq) /\ vkq.target /\ vkq' = [vkq EXCEPT !.target = FALSE]

(* destroy_render_buffer: waits for the queue to be idle.                   *)
destroy_render_buffer ==
  /\ Idle(vkq) /\ vkq.target
  /\ vkq' = [(IF vkq.queue = <<>> THEN vkq
              ELSE Waited(vkq, vkq.queue[Len(vkq.queue)].point)) EXCEPT !.target = FALSE]

VkExecute == Executable(vkq) /\ vkq' = Executed(vkq)

VkNext ==
  /\ ~vkq.hung
  /\ \/ vulkan_begin_render_pass
     \/ render_pass_submit
     \/ vulkan_submit_stage_wait
     \/ destroy_render_buffer
     \/ VkExecute
     \/ \E t \in VkTexture :
          \/ vulkan_texture_from_pixels(t)
          \/ vulkan_texture_from_dmabuf(t)
          \/ vulkan_texture_update_from_buffer(t)
          \/ render_pass_add_texture(t)
          \/ DestroyTexture(t)

-----------------------------------------------------------------------------
Kept(t) == vkq.tex[t].obj # "gone" \/ t \in vkq.stray

(* What the device reads outlives its use: no texture is freed, no render   *)
(* buffer destroyed and no command buffer recorded again before the         *)
(* submission that uses it completed (get_command_buffer,                   *)
(* vulkan_texture_destroy, destroy_render_buffer).  A call that hangs does  *)
(* not go on to do what it waited for.                                      *)
DeviceReadsLive ==
  \/ vkq.hung
  \/ /\ \A i \in DOMAIN vkq.queue :
          LET q == vkq.queue[i]
          IN /\ \A t \in q.uses : Kept(t)
             /\ ~vkq.cbs[q.cb].rec /\ vkq.cbs[q.cb].point = q.point
     /\ \A c \in Cb : \A t \in vkq.recorded[c] : Kept(t)
     /\ vkq.queue # <<>> => vkq.target \/ \A i \in DOMAIN vkq.queue : vkq.queue[i].uses = {}
     /\ \A t \in VkTexture : vkq.tex[t].foreign => Kept(t)

(* Nothing waits for a point that no submission before it signals, unless a *)
(* submission failed after its point was given away (render_pass_submit).   *)
DeviceProgress ==
  vkq.lost \/
    /\ ~vkq.hung
    /\ \A i \in DOMAIN vkq.queue :
         vkq.queue[i].wait <= IF i = 1 THEN vkq.done ELSE vkq.queue[i - 1].point

DeviceSound == DeviceReadsLive /\ DeviceProgress

-----------------------------------------------------------------------------
(***************************************************************************)
(* What the Vulkan renderer creates when it is first needed and keeps       *)
(* (render/vulkan/{renderer,pass,texture}.c): the framebuffers of a render  *)
(* buffer, one for each way to blend; render setups, pipelines and their    *)
(* layouts; views of a texture and the descriptor sets they take from       *)
(* pools; the lookup table of a colour transform; the image pixels are read *)
(* into.  Any creation may fail half way.                                   *)
(***************************************************************************)
CONSTANTS StartPool,      \* start_descriptor_pool_size
          VkFilter,       \* scale filters: the key of a pipeline layout
          VkTransfer,     \* transfer functions a texture may have
          MaxPools,       \* bound: descriptor pools
          MaxVkSteps      \* bound: calls

(* mut: the target and the texture can be seen as sRGB (using_mutable_srgb);*)
(* out: the framebuffers that exist, by pathway; begun: the pathway whose   *)
(* image view exists; setups, layouts, pipes: what is cached, by key; views: *)
(* the texture's views with their pools; lut: the pool of the lookup        *)
(* table's descriptor set, or 0; pools: descriptor_pools, newest first;     *)
(* last: last_pool_size; read: the key of read_pixels_cache.  Ghosts: pass, *)
(* the pathway of the pass in progress; used, how the last texture was      *)
(* drawn; half, pathways whose setup failed after the image view was made.  *)
VARIABLE vkt

VktState(mut) ==
  [mut |-> mut, buffer |-> FALSE, texture |-> FALSE, begun |-> {}, out |-> {}, half |-> {},
   setups |-> {}, layouts |-> {}, pipes |-> {}, views |-> {}, lut |-> 0, pools |-> <<>>,
   last |-> 0, read |-> "none", pass |-> "none", used |-> <<>>, steps |-> 0]

VktInit == \E mut \in BOOLEAN : vkt = VktState(mut)

Step(s) == vkt.steps < MaxVkSteps /\ vkt' = [s EXCEPT !.steps = vkt.steps + 1]

-----------------------------------------------------------------------------
(* alloc_ds: the newest pool with room that can serve the request, else a   *)
(* new pool twice as large.  Outcomes are the pool taken, 0 on failure, and *)
(* the pools afterwards.                                                    *)
Taken(pools, i) == [pools EXCEPT ![i].free = @ - 1]

alloc_ds(s) ==
  LET room == {i \in DOMAIN s.pools : s.pools[i].free > 0}
      count == IF s.last = 0 THEN StartPool ELSE 2 * s.last
      id == Len(s.pools) + 1
      grown == <<[id |-> id, size |-> count, free |-> count]>> \o s.pools
  IN {[s |-> [s EXCEPT !.pools = Taken(@, i)], pool |-> s.pools[i].id] : i \in room}
     \cup {[s |-> s, pool |-> 0]}
     \cup IF room # {} \/ Len(s.pools) = MaxPools THEN {}
          ELSE {[s |-> [s EXCEPT !.pools = Taken(grown, 1), !.last = count], pool |-> id],
                [s |-> [s EXCEPT !.pools = grown, !.last = count], pool |-> 0]}

vulkan_free_ds(s, ids) ==
  [s EXCEPT !.pools = [i \in DOMAIN @ |->
     [@[i] EXCEPT !.free = @ + (IF s.pools[i].id \in ids THEN 1 ELSE 0)]]]

(* One descriptor set given back for each pool.                             *)
freed_views_once(s) ==
  [vulkan_free_ds(s, {v.pool : v \in s.views}) EXCEPT !.views = {}]

(* The views' descriptor sets, one after the other: several may come from   *)
(* one pool.                                                                *)
FreedViews(s) ==
  [s EXCEPT !.pools = [i \in DOMAIN @ |->
     [@[i] EXCEPT !.free = @ + Cardinality({v \in s.views : v.pool = s.pools[i].id})]],
            !.views = {}]

-----------------------------------------------------------------------------
(* Caches by key; each returns the states it may end in, failures too.      *)

get_or_create_pipeline_layout(s, filter) ==
  {[s EXCEPT !.layouts = @ \cup {filter}]} \cup IF filter \in s.layouts THEN {} ELSE {s}

(* setup_get_or_create_pipeline: the layout stays when the pipeline fails.  *)
setup_get_or_create_pipeline(s, setup, key) ==
  IF <<setup, key>> \in s.pipes THEN {s}
  ELSE UNION {{[t EXCEPT !.pipes = @ \cup {<<setup, key>>}], t} :
              t \in {u \in get_or_create_pipeline_layout(s, key.filter) : key.filter \in u.layouts}}
       \cup {s}

HasPipeline(s, setup, key) == <<setup, key>> \in s.pipes

BaseKeys ==
  {[source |-> "color", filter |-> "bilinear", transform |-> "none"],
   [source |-> "texture", filter |-> "bilinear", transform |-> "identity"],
   [source |-> "texture", filter |-> "bilinear", transform |-> "srgb"]}

(* find_or_create_render_setup: with its three first pipelines, or not.     *)
find_or_create_render_setup(s, key) ==
  IF key \in s.setups THEN {s}
  ELSE {s, [s EXCEPT !.setups = @ \cup {key}, !.layouts = @ \cup {"bilinear"},
                     !.pipes = @ \cup ({key} \X BaseKeys)]}

(* vulkan_setup_one_pass_framebuffer and vulkan_setup_two_pass_framebuffer: *)
(* the image view first, then the setup, then the framebuffer.              *)
SetupFramebuffer(s, way) ==
  {s} \cup
  LET viewed == [s EXCEPT !.begun = @ \cup {way}]
  IN {[r EXCEPT !.half = @ \cup {way}] : r \in find_or_create_render_setup(viewed, way)}
     \cup {[r EXCEPT !.out = @ \cup {way}] :
             r \in {q \in find_or_create_render_setup(viewed, way) : way \in q.setups}}

(* create_render_buffer: the sRGB framebuffer when the format allows it; a  *)
(* failure destroys the render buffer.                                      *)
FirstWay(s) == IF s.mut THEN "srgb" ELSE "two_pass"

DestroyTarget(s) == [s EXCEPT !.buffer = FALSE, !.begun = {}, !.out = {}, !.half = {}]

create_render_buffer(s) ==
  {IF FirstWay(s) \in t.out THEN t ELSE DestroyTarget(t) :
     t \in SetupFramebuffer([s EXCEPT !.buffer = TRUE], FirstWay(s))}

-----------------------------------------------------------------------------
(* Passes.                                                                  *)

(* The pathway for an inverse EOTF, "other" being a transform that is none. *)
WayOf(s, eotf) ==
  CASE eotf = "linear" -> "linear"
    [] eotf = "srgb" /\ "srgb" \in s.out -> "srgb"
    [] OTHER -> "two_pass"

(* vk_color_transform_create: a transform that is no matrix and curve gets  *)
(* a lookup table, whose descriptor set is the last thing to be allocated.  *)
vk_color_transform_create(s) ==
  {s} \cup {[a.s EXCEPT !.lut = a.pool] : a \in alloc_ds(s)}

(* Judges by the framebuffer of another pathway.                            *)
prepared_never(s, way) == IF s.out # {} THEN {[s EXCEPT !.begun = @ \cup {way}]} ELSE {s}

(* vulkan_begin_render_pass: sets up what the pathway lacks, judging by the *)
(* image view.                                                              *)
Prepared(s, way) ==
  IF way = "srgb" \/ way \in s.begun THEN {s} ELSE SetupFramebuffer(s, way)

vulkan_begin_render_pass_on(eotf) ==
  /\ vkt.pass = "none"
  /\ \E s \in IF vkt.buffer THEN {vkt} ELSE create_render_buffer(vkt) :
       LET way == WayOf(s, eotf)
       IN IF ~s.buffer THEN Step(s)
          ELSE \E c \in IF eotf = "other" /\ s.lut = 0 THEN vk_color_transform_create(s) ELSE {s} :
                 IF eotf = "other" /\ c.lut = 0 THEN Step(c)
                 ELSE \E p \in Prepared(c, way) :
                        Step(IF way \in p.begun /\ (way \in p.out \/ p = c)
                               THEN [p EXCEPT !.pass = way] ELSE p)

(* How a texture's pixels become linear: by the view, or by the shader.     *)
srgb_image_view(s, tf) == tf = "srgb" /\ s.mut

(* The shader decodes what the view decoded already.                        *)
transform_twice(s, tf) == IF tf = "linear" THEN "identity" ELSE tf

TextureTransform(s, tf) ==
  IF tf = "linear" \/ srgb_image_view(s, tf) THEN "identity" ELSE tf

(* vulkan_texture_get_or_create_view.                                       *)
vulkan_texture_get_or_create_view(s, filter, srgb) ==
  IF \E v \in s.views : v.filter = filter /\ v.srgb = srgb THEN {s}
  ELSE {[a.s EXCEPT !.views = IF a.pool = 0 THEN @
            ELSE @ \cup {[filter |-> filter, srgb |-> srgb, pool |-> a.pool]}] : a \in alloc_ds(s)}

(* render_pass_add_texture: a pipeline, a view, a draw.                     *)
AddTexture(filter, tf) ==
  /\ vkt.pass # "none"
  /\ LET s == [vkt EXCEPT !.texture = TRUE]
         key == [source |-> "texture", filter |-> filter, transform |-> TextureTransform(s, tf)]
         srgb == srgb_image_view(s, tf)
     IN \E p \in setup_get_or_create_pipeline(s, s.pass, key) :
          IF ~HasPipeline(p, s.pass, key) THEN Step(p)
          ELSE \E v \in vulkan_texture_get_or_create_view(p, filter, srgb) :
                 Step([v EXCEPT !.used = IF \E x \in v.views : x.filter = filter /\ x.srgb = srgb
                                   THEN <<tf, key.transform, srgb>> ELSE @])

EndPass == vkt.pass # "none" /\ vkt' = [vkt EXCEPT !.pass = "none"]

-----------------------------------------------------------------------------
(* Destruction, between passes.                                             *)

DropTexture ==
  /\ vkt.texture /\ vkt.pass = "none"
  /\ vkt' = [FreedViews(vkt) EXCEPT !.texture = FALSE, !.used = <<>>]

vk_color_transform_destroy ==
  /\ vkt.lut # 0 /\ vkt.pass = "none"
  /\ vkt' = [vulkan_free_ds(vkt, {vkt.lut}) EXCEPT !.lut = 0]

handle_render_buffer_destroy ==
  vkt.buffer /\ vkt.pass = "none" /\ vkt' = DestroyTarget(vkt)

(* vulkan_read_pixels: the image is kept while format and size stay.        *)
vulkan_read_pixels(key) ==
  /\ vkt.read # key /\ vkt.pass = "none"
  /\ Step([vkt EXCEPT !.read = key])

VktNext ==
  \/ \E eotf \in {"linear", "srgb", "gamma22", "other"} : vulkan_begin_render_pass_on(eotf)
  \/ \E filter \in VkFilter, tf \in VkTransfer : AddTexture(filter, tf)
  \/ EndPass
  \/ DropTexture
  \/ vk_color_transform_destroy
  \/ handle_render_buffer_destroy
  \/ \E key \in {"small", "large"} : vulkan_read_pixels(key)

-----------------------------------------------------------------------------
(* A pass renders to a framebuffer that exists, with a setup, whatever      *)
(* creation failed before; a pathway whose image view exists but not the    *)
(* rest, which vulkan_begin_render_pass takes for complete, is excused.     *)
PassHasTarget ==
  vkt.pass = "none" \/ vkt.pass \in vkt.half \/
    (vkt.buffer /\ vkt.pass \in vkt.out /\ vkt.pass \in vkt.setups)

(* Descriptor sets are given back to the pool they came from: what a pool   *)
(* lacks is what views and the lookup table hold (alloc_ds,                 *)
(* vulkan_free_ds).                                                         *)
PoolsCounted ==
  \A i \in DOMAIN vkt.pools :
    LET p == vkt.pools[i]
    IN p.free + Cardinality({v \in vkt.views : v.pool = p.id})
              + (IF vkt.lut = p.id THEN 1 ELSE 0) = p.size

(* A texture is made linear exactly once, by the view or by the shader      *)
(* (render_pass_add_texture).                                               *)
DecodedOnce ==
  vkt.used = <<>> \/
    LET tf == vkt.used[1]
    IN tf = "linear" \/ ((vkt.used[2] = tf) # vkt.used[3])

TargetsSound == PassHasTarget /\ PoolsCounted /\ DecodedOnce
=============================================================================
