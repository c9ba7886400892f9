# wlroots in TLA+

wlroots is a library of Wayland compositor building blocks. It is one
thread around an event loop; what is hard about it is not parallelism but
re-entrancy and time: clients send requests in any order, the kernel, GPUs,
clients and parent display servers answer late, signals call listeners from the
middle of handlers, and every object may be destroyed while others still point
to it. This directory models the parts of the library in which that matters.

```
 clients        other clients              X11 clients
   |  requests    |  taskbars, capture,       |
   v              v  clipboard managers       v
 wl_surface     Windows                     Xwm XwaylandServer
 SurfaceCommit  Capture DataDevice            |
 SurfaceExtensions ExplicitSync               |
   |                                          |
   v                                          v
 roles: XdgSurface Popups LayerShell SessionLock Subsurface
   |                                                     input: Seat Tablet Keyboards
   v                                                     TextInput PointerConstraints
 Scene --- damage: DamageRing                            IdleNotify Cursor
   |                                                          ^
   v                                                          |
 StageRing VulkanRenderer ---> Swapchain ---> OutputLayout OutputManager
                                               |              |
                                               v              |
                              DrmOutput CrtcMatch DrmLease / NestedWayland X11Backend
                                     |  ^ page-flip events       |  ^ events of the host
                                     v  |                        v  |
                                    kernel                 another display server
```

## 1. Inventory

| component (source) | state | operations | what is hard | properties that make it correct |
|---|---|---|---|---|
| surface commits (`types/wlr_compositor.c`) | pending, cached queue and current state, locks by sequence number, mapped, uploaded buffer | wl_surface requests, commit, lock, unlock, map, unmap, reject, frame done | commits that wait for fences or parents, listeners that lock and unlock inside the signals of a commit, states that are deltas | commits are shown whole, in order, once, eventually; locks are counted; no frame callback is lost |
| states attached to surfaces (`wlr_surface_synced`, hint protocols, presentation) | an array of extension states in every surface state, feedback objects | attach, detach, commit, cache, presented, discarded | an object that goes shifts the slots of all others in every state | slots stay with their objects, feedback is answered once |
| explicit sync (`types/wlr_linux_drm_syncobj_v1.c`, `render/drm_syncobj*.c`) | points per state, waiters, release mergers | set points, commit, signal, consume, destroy | GPU, client and compositor finish in any order | shown after acquire, released after the last reader |
| subcompositor (`types/wlr_subcompositor.c`) | parent, sync flag, the locked commit, order among siblings | get_subsurface, set_sync, set_desync, place_above, commit of any surface of the tree, destruction | one commit cascades through the tree, mode changes while commits wait | mapped with the parent, no cycles, locks have owners, contents and order change with the parent |
| xdg-shell (`types/xdg_shell`) | role, handshake flags, configures, popups, grab stack | role creation and destruction, configures, ack, commit, grab, reposition, unconstrain | two parties with messages crossing, resets, nested grabs | mapped only after the handshake, acknowledged state is what was sent, no wish lost, popups owned and placed in the area |
| layer-shell, session lock | double-buffered fields, handshake; locks, lock surfaces | ack, commit, lock, unlock, destroy | messages crossing, destruction in any order | one pair of serial and size is in force; a lock surface belongs to one lock and output |
| lists and links of windows (foreign toplevels, workspaces, xdg-foreign, activation) | handles per client, batched requests, imports, tokens | updates, binds, requests, exports, imports, tokens | objects of other clients that disappear | clients know the present state; parents and tokens are taken back |
| scene graph (`types/scene`) | tree of nodes, visibility, damage per output, caches | node changes, surface commits, output changes, render | every change has to invalidate exactly what it touches | out-of-date cells are damaged, visible regions are right, surfaces know their outputs |
| damage ring, buffers and swapchain | differences per buffer; lock counts, slots | rotate, add; lock, unlock, drop, acquire, reconfigure | buffers reused and released in any order, failures | redraw what is out of date and nothing else; counts equal references, no use after free, no leak |
| Vulkan renderer (`render/vulkan`) | staging rings, command buffers, timeline points, textures, render buffers, pools | upload, pass, submit, read, destroy | the device is done long after the call returned; lazy creation fails half way | what the device uses is alive, memory handed out once, waits end |
| DRM backend and output core (`backend/drm`, `types/output/output.c`) | CRTC of each connector, page-flips, queued and current framebuffer, frame_pending, idle frame, leases | commit, test, device commit, page-flip event, schedule_frame, hotplug, session switch, lease, revoke | the kernel answers later, to commits that were superseded, of connectors that are gone; ioctls fail | scan-out buffers are held, events never meet freed memory, no output waits for ever, CRTCs and leases are exclusive |
| nested backends (`backend/wayland`, `backend/x11`) | host buffers, callbacks, windows, input devices | commit, configure, release, present, enter, leave, touch | a host that answers late or takes things away | locks match what the host uses, commits are answered once, input is what the host has |
| cursor, layout, output management, capture | images per output, positions, heads and serials, capture locks | set, move, add, remove, apply, test, capture | outputs come and go under each of them | agree with the outputs there are |
| seat, data device, tablets, text input, keyboards, constraints, idle | focus, grabs, buttons, touch points, serials, sources, offers, drags, key counts, timers | enter, leave, notify, grabs, selection, drag, drop, group changes | grabs that end each other, objects destroyed in any order, messages crossing | no reference outlives its object; enter and leave, press and release are paired |
| Xwayland (`xwayland`) | windows, association with surfaces, focus, transfers, server process | X events, surface events, property transfers, start, exit | two connections without common order, a process that dies | windows paired with their surfaces, transfers complete, processes cleaned up |

The components meet as follows. A commit of a surface calls the role's
`client_commit` and `commit` handlers and emits signals; sub-surfaces and
explicit sync lock and unlock cached states from these. The buffer of a commit is
locked by the state that carries it. The scene turns commits into damage, the
compositor paints into a buffer of the output's swapchain, asks the damage ring
what to redraw, and commits the buffer to the output; the backend locks it until
the kernel or the host is done with it and sends the frame event that lets the
compositor paint again. Input goes the other way, from devices through cursor
and seat to the focused client. Where one module needs another component it uses
what that component promises, stated in the module's head comment.

What can go wrong and a test would hardly reach is listed, line by line, under
`hazards` in `PROJECT.json`.

## 2. Modules

Every module translates functions of the source, under the source's names where
TLA+ allows it; `map` in `PROJECT.json` gives the lines of
the definitions; those of a helper are named with the function it is a part of. One
action is one handler, run to completion, unless the module says where it is
cut. A component's state is one record; a function is an operator from record to
record, or to a set of records where it may fail. *Ghost* fields, named in the
comment at the state, record what clients, the host or the device were told, or
that one of the accidents of section 5 happened. Definitions named like the
original with a suffix, or by what they forget, are plausible mistakes used to
check that the properties notice them; nothing else refers to them.

### Surfaces and windows

**SurfaceCommit** (`types/wlr_compositor.c`). `pending`, `cached` and `current`
are the three kinds of `wlr_surface_state`, records with the mask `committed`.
Fields are kept by kind: the buffer, one that persists (`scale`), one that each
commit resets (`damage`), and the frame callbacks, which accumulate. Handlers
emit signals, so they are cut there: `handling` is the time of the client_commit
signal, `emitting` the time of the commit signal; a holder may lock and unlock
in between, a client request may not come in. **DoubleBuffered** is the abstract
promise: a client's descriptions are appended to a log and shown one after the
other; SurfaceCommit is checked to implement it with `shown <- current.seq`
(`InOrder`), by TLC with fairness and by proof for safety.

**Subsurface** (`types/wlr_subcompositor.c` and what it drives of
`wlr_compositor.c`): the whole tree is one record, since one commit may apply
states of any descendant; the operators are mutually recursive as the functions
are. **Scene** follows the order of siblings through cached commits
(`subsurface_tree.c`, part `stack`) and the areas panels reserve
(`layer_shell_v1.c`, part `arrange`).

**XdgSurface**, **Popups**, **LayerShell**, **SessionLock**: handshakes, with
the surface below reduced to a queue of commits. `size` stands for all fields of
a configure. A protocol error ends the client (`dead`), a failed assertion ends
the compositor (`failed`). Popups also holds the positioner, a pure algorithm
checked over every choice of rules.

**SurfaceExtensions**: the array of synced states with five kinds of objects,
and presentation feedback against output commits. **ExplicitSync**: timelines,
points, waiters, mergers and the consumers of a buffer (a scene or a render
pass of the compositor's own). **Windows**: what clients know of
other clients' windows, lists of them and links between them.

**Xwm**, **XwaylandServer**: X11 windows and their pairing with
surfaces, focus and stacking, with the sequence numbers that order requests and
events; transfers in both directions with INCR, ownership,
drags; the process. The two connections are queues without common order.

### Pictures

**Scene** (`types/scene/wlr_scene.c`, `surface.c`). Two outputs side by side on
a line of cells; nodes are rectangles and buffers in a tree. `stale` and
`unpainted` are the cells of which the screen, or the output's buffer, lags behind
the scene. `scene_node_update`, visibility, bounding-box caches, opaque regions,
damage, direct scan-out and output membership follow the code.

**DamageRing** (`types/wlr_damage_ring.c`). A region is a set of cells;
`NRects` counts the rectangles pixman would use, so that the replacement of a
region by its extents happens where the code does it. `stale` is history: what
is out of date in each buffer.

**Swapchain** (`types/buffer/buffer.c`, `render/swapchain.c`,
`types/output/{render,swapchain,state}.c`, `backend/drm/fb.c`). References are
the pointers that own a lock; `Local` is the local variable of a call, `lost`
counts locks that no pointer owns any more.

**StageRing**, **VulkanRenderer** (`render/vulkan`). The ring of staging memory
is modelled byte by byte; the renderer as a queue of submissions with timeline
points, and as the objects created when first needed, each creation of which
may fail.

### Outputs

**DrmOutput** (`backend/drm`, `types/output/output.c`). `dev` holds the
backend's and the kernel's view: `hw` is on screen, `inflight` latches at the
next vertical blank, `events` are unread. `Legacy` selects the interface: the
atomic one takes all or nothing, the legacy one fails half way. CRTC allocation
is specified by what the search returns (`BestMatches`); **CrtcMatch** models the
search and shows that it returns that. A page-flip record is freed with its last
event; an address in `Flip` may be reused.

**DrmLease**: connectors offered, requested, leased and returned, with the
scans of the backend. **NestedWayland** (its outputs and its seats), **X11Backend**: the
host is a queue of events it sends and a set of things it still uses.
**Cursor**, **OutputLayout** (with xdg-output and the swapchain manager),
**OutputManager** (with power and gamma), **Capture** (three protocols).

### Input

**Seat**: focus, enter and leave, grabs, buttons, touch points, scroll frames,
and the ring of serials, whose width is a constant. **DataDevice**: drags, and the
selections with clipboard managers. **Tablet**, **TextInput**, **Keyboards**,
**PointerConstraints**, **IdleNotify** as named.

### MC modules

Components that share no state which their properties need are explored side
by side in one run: the variable `part` is chosen in the initial state and says
which component moves; a component that rests holds no state (or its initial
one). The state graph of such a run is the disjoint union of the components'
graphs, so nothing is lost and nothing is multiplied. A conjunction such as
`OutputsServed` names the property of each part. `MCShells`, `MCBuffers`,
`MCFrames`, `MCOutputs`, `MCDisplays` and `MCInput` are of this kind.

## 3. Runs

| run | parts | shows |
|---|---|---|
| `shells` | xdg, popup, place, layer, lock, ext, xwayland, lists, links | `MappedConfigured`, `WishesSent`, `AckMonotonic`; `RolesOwned`, `RequestsAnswered`, `LayerChangesFlagged`; `WindowsManaged`, `ExchangeSound`; `WindowsShared` |
| `buffers` | tree, swapchain, ring, queue, targets, sync | `TreeKept`, `LocksOwned`, `SyncedWithParent`; `LocksCounted`, `NoUseAfterFree`, `SlotsExclusive`, `BuffersFreed`; `RendererSound` |
| `frames` | surface, output (legacy) | `QueueHeld`, `ShowsCommit`, `FramesKept`, `InOrder`, `CommitsApplied`; `ScheduledFrameKept`, `FrameArrives` |
| `outputs` | ring, match, scene, stack, arrange | `RotateSound`, `RotateTight`; `IsBest`; `PictureKept`, `SceneAgrees` |
| `displays` | device (atomic), nested, nestedseat, x11, cursor, layout, manager, capture, leases | `ScanoutHeld`, `FrameOwed`, `FlipsOrdered`, `CrtcKept`; `NestedSound`; `OutputsServed` |
| `input` | seat, serials, dnd, sel, tablet, text, keyboards, constraints, idle | `ReferencesLive`, `ClientsInformed`; `SerialsRecognised`; `DevicesFollowed`; `TextAgreed` |
| `xdg_asserts` | XdgSurface | *violated*: an assertion of `xdg_surface_role_commit` fails |
| `subsurface_nested` | Subsurface | *violated*: a desynchronized sub-surface below a synchronized one is not released with its parent |
| `drm_crtcs` | DrmOutput | *violated*: a device commit may build a request for a connector without CRTC |
| `swapchain_leak` | Swapchain | *violated*: a refused render pass keeps its buffer locked |
| `stage_ring` | StageRing | *violated*: rounding up the head of a wrapped ring hands out bytes twice |
| `keyboard_modifiers` | Keyboards | *violated*: a group that a keyboard with Shift held joins has the key and not the modifier |

Each passing run takes one to three minutes. Every property of a passing run has mutants of the mapped
definitions that violate it, several where it is a conjunction over parts.

**Bounds** (the `.cfg` files; `Max...` constants bound the behaviours, others the
instance).

- *SurfaceCommit*: three commits put one state in front of, one at and one
  behind any place of the queue; two holders can lock the same state, different
  ones, or one from inside the other's signal.
- *Subsurface*: three surfaces give every shape of tree with a grandchild and
  both ways to build a cycle; two commits of each, four in all.
- *XdgSurface, LayerShell, SessionLock*: three or two serials let a stale, a
  superseded and an acknowledged configure meet; two sizes. One lock with two
  surfaces and outputs, up to two commits waiting, of one surface
  (`LockEarly`) also before it has the role; several locks are left to the proof.
  *Popups*: two popups, nested or siblings. The positioner: every anchor, gravity and adjustment on
  both axes, popups smaller and larger than the area, anchors outside of it.
- *SurfaceExtensions*: two objects attached, one cached state. *ExplicitSync*:
  two commits, two reading jobs, so that an older buffer is still read while
  the next is shown.
- *Xwayland*: two windows, serials of surfaces up to four; sequence numbers modulo 8
  (`XSeqMod`, 65536 in the code) and bursts of 3 and 5 other requests
  (`XBursts`), within and beyond half a range; transfers of
  up to five units in chunks of two (one over a boundary); three starts of the
  server. *Windows*: two toplevels, two groups, one workspace; for the links
  three toplevels (the shortest loop that is not a pair), two imports, two tokens.
- *DamageRing*: a ring of three entries has a first, a middle and a last one; a
  limit of one rectangle applies to the smallest region that is not one.
  *CrtcMatch*: all instances of three connectors and CRTCs. *Scene*: four cells,
  four operations on nodes of length one and two; three
  siblings, two cached commits, seven operations; all combinations of zones and
  margins of up to two panels.
- *Swapchain*: four buffers for three slots, so one outlives its swapchain.
  *StageRing*: rings of 4 and 8 bytes, spans of 1 to 3 bytes with alignment 1
  and 2: wrap, exact fit and growth all happen. *VulkanRenderer*: three command
  buffers, six points; pools of one set, so growth happens at once; four calls.
- *DrmOutput*: three buffers are one on screen, one in flight and one being
  painted; two or three page-flips let an old and a new one be outstanding, and a
  freed address be reused. *DrmLease*: two connectors and requests, each
  unplugged once.
- *NestedWayland*: one buffer, two host buffers, three commits and configures,
  two unread events; two seats, two outputs, two touch ids and room for
  three points, six events. *X11Backend*: three presents, three unread events.
- *Cursor*, *OutputLayout*, *OutputManager*, *Capture*: two outputs, or one with two
  cells and two sessions; three outputs in the layout, of which xdg-output shows two
  (`LaySeen`); two changes of the environment; two serials.
- *Seat*: one kind of device at a time (a pointer with buttons or with a wheel,
  a keyboard, a touch screen), one object per client and kind, two
  clients and surfaces, two buttons, two sources of scrolling. The serial ring:
  serials modulo 12, two ranges, eleven serials, from every start. *DataDevice*:
  two clients of different protocol versions, two sources; both data-control
  protocols. *Tablet*: two clients, room for one button, pads with two groups.
  *TextInput*: two surfaces, three serials, two messages each way. *Keyboards*:
  two devices and a virtual one, one change of modifiers. *PointerConstraints*:
  two constraints, four requests of the client; *IdleNotify*: two notifications
  and seats, five events.

Deadlock is not checked in the combined runs: their models stop where the bound
on commits, serials or events is reached, the client was disconnected or an
assertion failed. `swapchain_leak` and `stage_ring` check it.

Symmetry is used for buffers of the damage ring, modes and interchangeable
surfaces, and in no run with a liveness property.

**What the properties do not claim.** `MappedConfigured` is restricted to
histories without waiting commits: a commit queued before a reset is applied
after it, which `xdg_asserts` shows to be a real problem. `ScheduledFrameKept`
gives up the promise when a commit with a buffer fails, because
`output_prepare_commit` cancels the idle frame before the backend is asked.
`ScanoutHeld` and `FlipsOrdered` are checked for the atomic interface with a
kernel that does not refuse to turn a CRTC off: on the legacy interface a modeset
that shows the buffer, followed by a page-flip that fails, leaves a buffer on
screen that nobody holds. `LeasesSound` and `PointerConstrained` hold until the
code reads freed memory (`wild`); so does what is said of drags, once a source
was used for two of them. `ClientsInformed` does not count an assertion of the scroll
axis that fails because the end of the frame before was missed. Other ghosts that
excuse a case (`late`, `stray`,
`kept`, `lost`, `orphan`, `unfenced`, `odd`, `missed`, `over`, `reset`, `torn`,
`lapsed`, `culled`, `grown`, `unwanted`, `dangles`, `stale`) each stand
for one entry of section 5 and are explained at the state they belong to. An
excuse covers the one object or event it names; without it TLC finds the property
violated.

**Fairness.** Only `frames` has liveness. In SurfaceCommit, handlers return and
whoever locked a state unlocks it, as `wlr_surface_lock_pending` demands of its
caller. In DrmOutput the hardware reaches vertical blanks, and the event loop
reads the device's file and runs idle callbacks. Nobody is obliged to commit, to
render or to plug anything in. In the other parts "eventually" is
stated as what is owed: a timer is armed, an event is queued, a waiter exists
(`FrameOwed`, `HostReleasesAll`, `FramesComplete`, `IdleTold`, `AcquireAwaited`).

### Disagreements found

1. `create_xdg_surface` checks the current state for a buffer, not the commits
   that still wait; such a commit reaches the role handler before a role was
   chosen, or acts as the initial commit (`xdg_asserts`).
2. `subsurface_handle_parent_commit` releases a cached commit when the
   sub-surface's own flag is set, while commits are cached when any ancestor is
   synchronized (`subsurface_nested`).
3. `realloc_crtcs` may take the CRTC that the same device commit allocated for
   another output a moment ago (`drm_crtcs`).
4. `wlr_output_begin_render_pass` does not unlock its buffer when the renderer
   refuses the pass (`swapchain_leak`).
5. `vulkan_stage_buffer_alloc` rounds the head up before it compares it with the
   tail; in a ring that has wrapped around the head may pass the tail
   (`stage_ring`).
6. `refresh_state` of a keyboard group adds the held keys of a keyboard that
   joins without telling the xkb state, so the group's modifiers disagree with
   its keys (`keyboard_modifiers`).

## 4. Proofs

TLC decides small instances; the theorems hold for all values of the constants
that satisfy the named assumptions (`SizeAssumption`, `SwapchainAssumption`,
`ConstantsAssumption` of XdgSurface and of SurfaceCommit, `SerialAssumption`,
`DrmAssumption`, `LayerAssumption`, `LockAssumption`, `PopAssumption`, `PositionerAssumption`,
`SyncedAssumption`, `TextAssumption`, `ListsAssumption`, `LinksAssumption`,
`XSelectionAssumption`).

**DamageRing_proofs**: `Soundness`, `Tightness`, `Uniqueness`, `BufferLocal`,
`TypeCorrect`. `RotateSound` alone is not inductive: after a rotation one has to
know what *every* entry lacks. The invariant `IInv` adds `StaleExact`: the
damage met by the walk from the head to an entry is exactly what is out of date
in that entry's buffer; and `EntriesUnique`, without which the walk would stop
at the wrong entry. The lemmas compute that walk (`Lacks`) after an entry was
moved to the front, inserted or removed: squashing an entry's damage into its
neighbour preserves it for everybody behind. Then one lemma per action.

**Swapchain_proofs**: `Counting`, `MemorySafety`, `Exclusion`, `NoLeak`,
`SingleDrop`, `TypeCorrect`. The properties depend on one another: that the last
unlock frees nothing in use needs the count, that a slot is free again needs
that no buffer is in two slots, and so on; `IInv` is their conjunction, as a
predicate `Good` on records plus the fact that calls return with no lock in a
local variable. Because each function of the code is an operator on records,
one lemma per function shows that it preserves `Good` (`UnlockGood`,
`SetRefGood`, `TransferGood`, `DestroyGood`, ...) and the actions follow by
composition. `Counting` uses the cardinality theorems for finite sets.

**SurfaceCommit_proofs**: `LocksHoldTheQueue`, `DeltasAddUp`,
`CallbacksAreKept`, `Refinement`, `TypeCorrect`. `IInv` adds `Numbered` (the
sequence numbers of current, queue and pending are consecutive, and which of them
current is while its signal is emitted), without which the lock count of a state
could move to its neighbour, and `Pends`, `Waiting` and `Shows`: a state is the
difference between two descriptions of the client, so that what is shown is the
sum of the differences applied. The step of the refinement is then that
`current.seq` grows by one, or stays.

**Shells_proofs** is about every handshake between a shell and a client, for any
number of surfaces, serials and waiting commits. `RolesAreOwned` and
`RequestsAreAnswered` are theorems of the composed specification `ShellsSpec`; they
rest on one theorem and one invariant per component:

- *xdg surfaces* (`MappedIsConfigured`, `WishesAreSent`, `AcksAreMonotonic`,
  `TypeCorrect`). That acknowledged serials never go back needs their order along
  the whole way (`Serials`: sent, to be acknowledged, pending; `Ordered`: pending,
  the commits that wait, current). That a mapped surface is configured needs
  `Drained`, which ties `waited` to the queue, and `Handshake`: nothing is
  scheduled, sent or acknowledged for a toplevel before its initial commit.
- *layer surfaces* (`LayerSurfacesAgree`, `LayerFlagsComplete`). Every state on the
  way, not only the current one, has the size sent under its serial
  (`LayerSizesAgree`) and passed the protocol's checks (`LayerRules`). That a change
  is flagged needs `LayerChain`: each state of the queue flags what differs from the
  state before it, which a reset and a new object must not break (`LayerGone`).
- *session locks* (`LockedScreensCovered`): `LockSound` follows a configure from sent
  over acknowledged and committed to shown, past any number of commits that wait, some
  of them older than the role; of those it says that they have no serial.
- *popups* (`PopupsStand`), with no assumption on how often a popup grabs: the
  operators destroy the popups below a surface at once; `Below` is the least set closed under children, so that what survives
  stands on something that survives.
- *the positioner* (`PopupsPlaced`), for integers of every size: the lemmas follow
  the code's order, flip, then slide, then resize, one axis at a time; an axis that is
  left alone keeps what the step before gave it.
- *attached states* (`SyncedStatesSound`). `AlignedStates`: in pending, current and
  every cached state, slots and objects are in bijection, so that the shift after a
  removal moves the same objects everywhere. `FeedbackHeld`: the holders of feedback
  are pairwise disjoint and hold exactly what waits.

**Sharing_proofs**: `WindowsAreShared` and `ExchangeIsSound`, theorems of `ShellsSpec`
like the two above. The first follows from `WindowListsAreSound` and
`WindowLinksAreSound`, for any number of toplevels, groups, workspaces, imports, tokens
and queued requests; the second joins the invariants of the five parts of Xwm and
XwaylandServer below, for data and chunks of any size and queues of any length.

- *Lists* (`WlInv`). `TaskbarTold` is strengthened by what a destruction relies on:
  a toplevel that is gone has no parent, and only the protocol that has parents
  sets one. `WorkspacesTold` becomes four predicates on the parts of the record
  (`GroupsSound`, `SpacesSound`, `ReqsSound`, and done is scheduled for what is
  fresh), so that a function of the code is shown to keep the ones whose arguments
  it changes, and a function that calls another passes through states in which only
  some hold: a workspace that changes its group is `Outside` between leaving the one
  and entering the other. `clear_requests_by` is proved to leave no request that
  names what is destroyed (`Unnamed`), for a queue of any length.
- *Links* (`LkInv`). That parents form no loop is stated without recursion: for each
  toplevel there is a set of toplevels closed under parents that has its parent and
  not the toplevel itself (`Chain`). A new parent joins its own set; when a parent
  is unmapped its children move to its parent, and their sets lose it. `Ancestors`,
  the least closed set the code's walk visits, then misses the toplevel. An import
  that is dead has no children. For tokens, `TokenSound` also covers those that are
  still open: what is wrong with one can still be seen when it is committed.
- *Transfers to X11* (`OutGood`). `Conserved` counts each byte once, at the client, in
  the pipe, read, in the property or received. That the last byte arrives needs to
  know why nothing moves: `Chunked` ties `property_set` to the property or its
  deletion in flight, the event source to a pipe that is open and not waiting for a
  flush, and says that a flush with the pipe open has data to send, without which an
  empty property would end the transfer early.
- *Transfers from X11* (`InGood`). `Stage` lists the places a transfer can be in, one
  of them that a write failed and it was destroyed (`lost`);
  a reply that is being written is never overwritten because the property is deleted,
  and so the next chunk asked for, only when it is written.
- *The owner* (`OwnGood`), the one with two queues. Predicates on positions say what a
  queue will come to: `Ends`, who is named last; `Announces`, that it is a client;
  `Leaves`, that the last news is a client's departure; `Followed`, that after each
  claim comes a drop, or the reverse. They make `NotOurs`, `Theirs` and `Ours`, the
  obligations for each owner the seat can have; with empty queues these are the
  property. The lemmas compute each predicate after an append and after a read.
- *Drags* (`DragGood`): what was told, the focus and what the drag is over are the
  same window, and one that may still finish is the one dropped on. *The process*
  (`ServerGood`): while it starts there is a client and the ready pipe and nobody
  listens on the sockets, and whichever of them goes first takes the rest along, so
  that the next start finds what it expects (`Startable`).

**Input_proofs**: `SerialsAreRecognised`, `IdleIsTold`, `TextIsAgreed`. The ring of serials is
proved for every width of the counter, every size of the ring and every start
value, with less than one turn of the counter drawn (`MaxSerials < SerialWidth`).
The invariant `Kept` measures ages, distances back from the counter modulo its width:
`Recent`, no serial sent is a turn old, also when serial 0 is skipped; `Sorted`,
the ranges are disjoint intervals of ages, newest first; `Remembers`, what lies in
a range was sent, and what was sent lies in one or is older than all of a full
ring. Drawing adds one, or two past zero, to every age; a range that is extended or
started has age 0; the range a full ring drops was its oldest. For the search, the
first hit is the least, and it exists because a set of naturals has a least member
(from the well-foundedness of `<`, since induction itself is out of reach).
`IdleTold` is inductive as it stands, given the types: it already ties each
timer to who rests and who inhibits.

For `TextIsAgreed` the queues between the application, the text input and the input
method have any length. What a queue will do is stated without recursion, as the
existence of a *way*: states, one per request in flight, that lead from the text
input's state to the one the application described (`Reaches`), and counts, one per
event, that lead from what the method has seen to the serial the compositor has
reached (`Tells`). Sending appends a state to a way, handling drops its first; with
an empty queue both ends coincide, which is the property. `Answers` and `Composed`
then say of each message in flight that it is older than the last commit or
describes it.

**DrmOutput_proofs**: `ScreenBuffersHeld`, `PendingFramesOwed`,
`FlipsStayOrdered`, `ScheduledFramesKept`, `CrtcsKept`, `DrmTyped`, for any number
of connectors, CRTCs, buffers and page-flips. None of the properties is inductive.
`DrmInv` has two parts. `Good` is about the device's record: a page-flip lists
exactly the CRTCs that owe its event, each once (`Owing`, `Single`, `Once`), and
exactly the connectors that wait for it (`Listed`, `Waits`); a connector waits for
the event of its own CRTC and of the newest frame there (`Moved`, `Newest`), so that
the event which moves queued_fb to current_fb is that of the frame on screen
(`Plane`); a CRTC that no connector drives shows nothing (`Clean`), so that another
connector may take it. `Meets` is what an output expects: one that awaits a frame is
in the page-flip its connector waits for, on its CRTC, and one that waits for none
has nothing queued, without which a page-flip could replace a frame not yet shown. A
paused session has no outputs, and a frame event is due to enabled outputs only.

The blocking commits, the disabling of connectors and their destruction all have the
shape `Blocking` (connectors move to a new page-flip or to none, some lose their
CRTC, the others' state is untouched); one set of lemmas shows that it keeps `Good`
and `Meets`, and each function of the code is an instance. `Flipping`, `Reassigned`
and `Reading` do the same for page-flips, CRTC allocation and events. The allocation
for a device commit is a recursive function over the connectors; that each of its
values keeps the invariant follows from the least connector that would not.

These theorems have the hypothesis `Atomic`: the atomic interface, and a kernel that
does not refuse to turn a CRTC off. Both are needed. With the legacy interface a
commit that fails half-way frees a page-flip whose event is on its way, and after a
refused disabling a connector keeps a CRTC that is then given to another (section 5).
`ScheduledFramesKept` has no such hypothesis. Its invariant `DueInv` asks only that
outputs without a connected screen are in their initial state; the lemmas named
`...Labelled` show that no commit, allocation or event, on either interface, complete
or half-way, connects or disconnects anything.

Type correctness of these modules is proved and not model-checked. Only
model-checked are:

- liveness (`CommitsApplied`, `FrameArrives`), which the prover does not handle;
- `TreeKept`, `LocksOwned`, `SyncedWithParent`, `IsBest`, `PictureKept`,
  `SceneAgrees`, `NestedSound`: their modules (Subsurface, CrtcMatch, Scene,
  NestedWayland) walk trees and lists with recursive operators, as the code does;
- `WindowsManaged`, `OutputsServed`, `DevicesFollowed`: Xwm, OutputManager,
  OutputLayout and Keyboards iterate over sets with folds whose steps depend on one
  another; a fold is a recursion over data, about which nothing can be proved here;
- `RendererSound`, `ReferencesLive`, `ClientsInformed`: within reach of the method
  used for Windows and Xwm, and not done.

## 5. What the models met besides

Behaviour of the code that the modules reproduce, that no run is devoted to and
that a reader of the properties should know. Most are marked by a ghost field.

- *Compositor.* `wlr_surface_lock_pending` from a late listener names the next
  state (`:942`); the error path of `wlr_surface_synced_init` reads the
  implementation before it was stored (`:1490`).
- *Popups.* Repositioning before the initial commit schedules a configure on an
  uninitialized surface; a seat destroyed with a popup grab destroys the grab
  twice; a grab replaced by a drag is lost; a refused grab leaves an empty one.
  `xdg_popup_handle_grab` does not ask whether the popup has a grab already: a
  second one inserts a link that is in the list, and the list of grabbing popups
  is corrupt from then on (`wlr_xdg_popup.c:307`, ghost `torn`); `PopupsOwned`
  says nothing of a grab after that.
- *Layer and lock surfaces.* Commits cached across a reset reach the role
  unconfigured. A lock surface is refused for a buffer that is current, not for
  one that waits (`wlr_session_lock_v1.c:262`): the commit is then applied to the
  role and maps a surface that never acknowledged a configure, with any size, or,
  when it has no buffer, fails an assertion (`aborted`).
- *Extensions.* Feedback of a superseded page-flip waits for ever; a tearing
  object that became inert is dereferenced; fractional scale forgets the scale
  it was told before an object exists.
- *Explicit sync.* Destroying the surface's object discards the points of
  commits that still wait and signals the release point of the buffer on screen,
  although the header says it is signalled when "a new buffer has been
  committed"; a fence that cannot be exported releases the buffer early.
- *Xwayland.* A window that clears override-redirect between MapNotify and its
  first buffer is never stacked; `handle_client_destroy` of the server returns
  early; XdndLeave may follow XdndDrop; an owner that dies in the middle of a
  transfer leaves the requestor waiting. FocusIn events are judged by 16 bits of
  the sequence number of all requests: one that comes half a range of requests
  after the last change of focus is taken for an old one (`xwm.c:2042`, ghost
  `lapsed`). A window whose hints refuse input is only offered the focus, so
  what is focused depends on the client (`granted`). A write to the pipe of a
  Wayland client that fails destroys the transfer, also when the pipe is only
  full: it is non-blocking and `EAGAIN` is not told from other errors
  (`selection/incoming.c:110`, ghost `lost`), so the client gets a part of the data
  and the end of the file.
- *Windows of others.* A parent without a handle is never announced later; an
  output bound twice is entered twice; a child that was reset keeps its import
  record; a token whose seat or surface is gone before commit is not checked.
- *Scene.* Cells that `wlr_scene.c:1571` and `:1987` leave undamaged are
  excused; a scene output destroyed alone leaves surfaces entered. When an opaque
  buffer is replaced by a translucent one of the same size, the new opaque region
  is set while the old buffer still counts as opaque, and the buffer is then
  replaced without an update of the visibility (`wlr_scene.c:966-1020`): what is
  below stays hidden until something else updates it (ghosts `late`, `culled`).
- *Vulkan.* A submission that fails after its point was recorded makes later
  ones wait for ever; a pass given up makes textures forget earlier uses;
  `foreign_textures` keeps a texture destroyed after a failed pass; a framebuffer
  half set up is taken for complete.
- *DRM.* `dealloc_crtc` carries on when disabling fails; `crtc->lease` is
  written and never read, so a leased CRTC may be given to another output; a
  request keeps pointers to connectors that were withdrawn; a failed grant sends
  finished twice; lease events of an inactive session are dropped.
- *Nested.* A release on its way when the buffer is committed again unlocks it
  early; host seats that appear after start get no tablet seat;
  `pointer_handle_leave` does not clear the cursor's owner; the X11 backend names the
  serial before `commit_seq` is incremented, unlike `wlr_output.h:317`. A commit
  that enables the output before the host confirmed its unmapping waits for a
  configure that cannot come (`wayland/output.c:765`, ghost `hang`), and a close
  that arrives in that wait destroys the output under its own commit (`freed`);
  `HostProtocol` says that the first is the only wait without an end. In the X11
  backend a commit without a buffer takes away the wish for a frame although an
  exposed area waits to be repainted (`x11/output.c:436`, `output.c:788`, ghost
  `unwanted`).
- *Cursor, layout, management, capture.* A NULL buffer does not hide the cursor,
  against `wlr_cursor.h`; a removed output leaves the cursor surface entered; an
  inert mode gives a custom mode of size zero; a second session's wish for
  cursors is ignored; an exported frame ends silently with its output. An output
  without a size has, in floating point, no distance to anything and is returned
  as the nearest in its direction (`wlr_output_layout.c:449-477`): `PlacesFound`
  lets it be. Screencopy clips the damage of a commit to the size the output had
  before it, so that a capture with damage misses what a larger mode adds
  (`wlr_screencopy_v1.c:51`, ghost `grown`); a commit without a buffer clears
  `needs_frame`, also that of a capture that waits (`output.c:788`, ghost `unwanted`).
- *Seat and data device.* A scroll frame that ends without focus leaves
  `sent_axis_source` set, and the assertion in `wlr_seat_pointer_send_axis` may
  fail in the next frame (`asserts = "stale"`, where the behaviour ends); keyboards
  created late never get enter, and a leave all the same; lifting the finger of a
  source-less touch drag reads the source. Taking a capability away sends leave once
  per client visited until the focused one's objects are inert
  (`wlr_seat.c:401-411`, `:421-430`), so that one enter may get several leaves
  (`odd = "again"`). The focus client of a touch point has no destroy listener and
  dangles when the client goes before the surface (`wlr_seat_touch.c:303`,
  ghost `dangles`). Nothing stops a client from starting a drag with the source of
  a drag that was dropped and not finished: replacing the seat's source then
  destroys the source of the new drag, and with it the drag that is being started
  (`wlr_drag.c:531`, ghost `wild`, where the behaviour ends).
- *Tablet, text, keyboards.* A tool that arrives with its tip down is never
  reported down; the implicit grab keeps a bare pointer to the surface it began on,
  or moved to, and focuses it when the tip is lifted, freed or not
  (`wlr_tablet_v2_tool.c:739-743`, ghost `stale`); the mode of a pad is not recorded
  when the client destroyed the object of the group (`wlr_tablet_v2_pad.c:541`);
  rings past the last group's count outlive the pad; an enabled
  text input stays enabled over leave; a grab requested twice creates no object;
  keys beyond 32 are lost; releasing Shift on one keyboard of a group drops it
  for all.
- *Constraints, idle.* A one-shot constraint deactivated from set_region is
  freed under the loop that commits the surface; the notifier is freed at the
  end of the display while notifications remain.

## 6. Not modelled

Allocation failures, except where the code goes on after one. Pixels, formats,
modifiers and colour. Transforms, scales and most geometry in two dimensions.
In the DRM backend: cursor and overlay planes, gamma, multiple GPUs, property
blobs. The OpenGL and pixman renderers, which draw synchronously; allocators and
the import of client buffers; libinput and session, which translate events and
open devices; small protocols that forward one value; `xdg_foreign_v1`, a copy of
v2; themes and utilities. Each with its reason in `PROJECT.json`. The kernel,
the Vulkan device, X and Wayland servers and the protocol libraries are modelled
from how the code uses them.

## 7. Plan

The modules above are the ones the plan named; what is left:

1. **Proofs**: `ClientsInformed`, `ReferencesLive` and `RendererSound`, along the
   lines of Windows and Xwm; that an assignment
   CrtcMatch calls best is one of `BestMatches` of DrmOutput, once its search is
   a function; `SpansDisjoint` of a StageRing whose head is compared before it is
   rounded.
2. **Composition**: SurfaceCommit below XdgSurface, Swapchain below DrmOutput
   with `Held` as its references, replacing what these modules now assume.
3. **Larger**: cursor and overlay planes in DrmOutput, fractional scale and
   viewports in SurfaceExtensions, the OpenGL renderer's shared context.
