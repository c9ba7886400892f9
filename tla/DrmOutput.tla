----------------------------- MODULE DrmOutput -----------------------------
(***************************************************************************)
(* The DRM backend's commits and page-flips (backend/drm) together with    *)
(* the frame scheduling of the wlr_output it drives (types/output).        *)
(*                                                                         *)
(* One thread runs the compositor: each action is a whole handler.  What   *)
(* runs beside it is the kernel: it latches a queued frame at the next     *)
(* vertical blank and puts an event, read later, on the device's file.     *)
(*                                                                         *)
(* A commit is a chain of calls that read what the previous one wrote, so  *)
(* the backend's state is one record, dev, and each function of the code   *)
(* is an operator from a record to the set of records it may leave.        *)
(***************************************************************************)
EXTENDS Integers, Sequences, FiniteSets

CONSTANTS
    NumConn,       \* connectors, numbered in the order of drm->connectors
    Crtc,          \* the device's CRTCs
    Possible,      \* [1..NumConn -> SUBSET Crtc], possible_crtcs
    Buffer,        \* buffers the compositor renders into
    Flip,          \* addresses of struct wlr_drm_page_flip
    None,
    Scheduling,    \* bound: connectors whose output may schedule frames
    Pluggable,     \* bound: connectors whose screen may come and go
    Legacy,        \* TRUE: drm->iface is legacy_iface, FALSE: atomic_iface
    DisableFails   \* TRUE: the kernel may refuse to turn a CRTC off (unplug)

Conn == 1 .. NumConn

ASSUME DrmAssumption ==
    /\ NumConn \in Nat \ {0}
    /\ Possible \in [Conn -> SUBSET Crtc]
    /\ None \notin Conn \cup Crtc \cup Buffer \cup Flip
    /\ Scheduling \subseteq Conn /\ Pluggable \subseteq Conn
    /\ {Legacy, DisableFails} \subseteq BOOLEAN

VARIABLES
    dev,       \* the backend's and the kernel's state, see DrmInit
    output,    \* [Conn -> the wlr_output embedded in the connector]
    plugged,   \* connectors with a screen attached (kernel)
    session,   \* session->active
    due        \* history: connectors that were promised a frame event

DrmVars == <<dev, output, plugged, session, due>>

NoOutput == [enabled |-> FALSE, frame_pending |-> FALSE,
             idle_frame |-> FALSE, fresh |-> TRUE]

Connected(d, c) == d.status[c] = "connected"

-----------------------------------------------------------------------------
(***************************************************************************)
(* The kernel, as the backend uses it.                                     *)
(***************************************************************************)

(* The frames in flight on the CRTCs ks reach the screen and their events   *)
(* become readable.                                                         *)
Latch(d, ks) ==
    LET late == {k \in ks : d.inflight[k] # <<>>}
    IN  [d EXCEPT
           !.hw = [k \in Crtc |-> IF k \in late THEN d.inflight[k][1] ELSE @[k]],
           !.events = [k \in Crtc |-> IF k \in late THEN Append(@[k], d.inflight[k][2]) ELSE @[k]],
           !.inflight = [k \in Crtc |-> IF k \in late THEN <<>> ELSE @[k]]]

Driven(d, conns) == {d.crtc[c] : c \in conns}

(* What a request, [connectors -> [active, fb]], asks for CRTC k. *)
FbFor(d, req, k) == req[CHOOSE c \in DOMAIN req : d.crtc[c] = k].fb

(* A blocking commit waits for the frames in flight, then shows its own. *)
Show(d, req, conns) ==
    LET ks == Driven(d, conns)
    IN  [Latch(d, ks) EXCEPT
           !.hw = [k \in Crtc |-> IF k \in ks THEN FbFor(d, req, k) ELSE @[k]]]

Queue(d, req, conns, f) ==
    LET ks == Driven(d, conns)
    IN  [d EXCEPT !.inflight = [k \in Crtc |-> IF k \in ks THEN <<FbFor(d, req, k), f>> ELSE @[k]]]

Signal(d, ks, f) ==
    [d EXCEPT !.events = [k \in Crtc |-> IF k \in ks THEN Append(@[k], f) ELSE @[k]]]

-----------------------------------------------------------------------------
(***************************************************************************)
(* Page-flips.  A struct wlr_drm_page_flip lists the connectors of one     *)
(* commit whose events are still to come; an empty list is a freed struct. *)
(***************************************************************************)
FreeFlips(d) == {f \in Flip : d.flips[f] = {}}

(* Slip: the page-flip does not say whom it is for. *)
flip_create_anonymous(d, f, conns) ==
    [d EXCEPT !.flips[f] = {[conn |-> None, crtc |-> d.crtc[c]] : c \in conns}]

drm_page_flip_create(d, f, conns) ==
    [d EXCEPT !.flips[f] = {[conn |-> c, crtc |-> d.crtc[c]] : c \in conns}]

drm_page_flip_destroy(d, f) == [d EXCEPT !.flips[f] = {}]

Entries(d, f, k) == {e \in d.flips[f] : e.crtc = k}

drm_page_flip_pop(d, f, k) == [d EXCEPT !.flips[f] = @ \ Entries(d, f, k)]

(* Slip: the connectors stay in the page-flips they waited for. *)
set_pending_page_flip_keep(d, conns, f) ==
    [d EXCEPT !.flip = [c \in Conn |-> IF c \in conns THEN f ELSE @[c]]]

(* Connectors that wait for a new page-flip forget the old ones. *)
drm_connector_set_pending_page_flip(d, conns, f) ==
    LET forget(g, e) == IF e.conn \in conns /\ d.flip[e.conn] = g
                          THEN [e EXCEPT !.conn = None] ELSE e
    IN  [d EXCEPT !.flips = [g \in Flip |-> {forget(g, e) : e \in @[g]}],
                  !.flip = [c \in Conn |-> IF c \in conns THEN f ELSE @[c]]]

(* Slip: queued_fb is replaced by the committed buffer only on a modeset. *)
apply_commit_no_queue(d, req, f) ==
    LET off == {c \in DOMAIN req : ~req[c].active}
    IN  [drm_connector_set_pending_page_flip(d, DOMAIN req, f) EXCEPT
           !.queued = [k \in Crtc |-> IF k \in Driven(d, off) THEN None ELSE @[k]],
           !.current = [k \in Crtc |-> IF k \in Driven(d, off) THEN None ELSE @[k]],
           !.crtc = [c \in Conn |-> IF c \in off THEN None ELSE @[c]]]

(* What a successful commit leaves in its connectors and their CRTCs: those *)
(* turned off lose theirs, and on the legacy interface get no event.        *)
drm_connector_apply_commit(d, req, f) ==
    LET off == {c \in DOMAIN req : ~req[c].active}
        d1  == [drm_connector_set_pending_page_flip(d, DOMAIN req, f) EXCEPT
                  !.queued = [k \in Crtc |-> IF k \in Driven(d, DOMAIN req) THEN FbFor(d, req, k) ELSE @[k]],
                  !.current = [k \in Crtc |-> IF k \in Driven(d, off) THEN None ELSE @[k]],
                  !.crtc = [c \in Conn |-> IF c \in off THEN None ELSE @[c]]]
    IN  IF Legacy /\ f # None
          THEN [d1 EXCEPT !.flips[f] = {e \in @ : e.crtc \notin Driven(d, off)},
                          !.flip = [c \in Conn |-> IF c \in off THEN None ELSE @[c]]]
          ELSE d1

-----------------------------------------------------------------------------
(***************************************************************************)
(* One device commit.  req says for each of its connectors whether it      *)
(* stays active and which framebuffer its primary plane gets.              *)
(***************************************************************************)

(* atomic_device_commit: the kernel takes all of the request or nothing. *)
AtomicShow(d, req, nonblock, f) ==
    IF nonblock THEN Queue(d, req, DOMAIN req, f)
    ELSE Signal(Show(d, req, DOMAIN req), Driven(d, DOMAIN req), f)

(***************************************************************************)
(* legacy_crtc_commit for one connector after the other: a modeset shows   *)
(* the buffer at once, a page-flip is queued on top of it.  Each call may  *)
(* fail, and the previous ones stay.                                       *)
(***************************************************************************)
LegacyShow(d, req, modeset, f) ==
    LET flipped(conns) == {c \in conns : req[c].active}
        before(c) == {x \in DOMAIN req : x < c}
        possible(conns) == modeset \/ \A c \in flipped(conns) : d.inflight[d.crtc[c]] = <<>>
        after(set, conns) == Queue(IF modeset THEN Show(d, req, set) ELSE d, req, flipped(conns), f)
        reached == {c \in DOMAIN req : possible(before(c))}
    IN  {[ok |-> FALSE, d |-> after(before(c), before(c))] : c \in reached} \cup
        {[ok |-> FALSE, d |-> after(before(c) \cup {c}, before(c))] : c \in flipped(reached)} \cup
        {[ok |-> TRUE, d |-> after(conns, conns)] : conns \in {x \in {DOMAIN req} : possible(x)}}

(* drm->iface->commit *)
Commits(d, req, modeset, nonblock, f) ==
    IF Legacy THEN LegacyShow(d, req, modeset, f)
    ELSE {[ok |-> FALSE, d |-> d]} \cup
         (IF nonblock /\ \E c \in DOMAIN req : d.inflight[d.crtc[c]] # <<>> THEN {}
          ELSE {[ok |-> TRUE, d |-> AtomicShow(d, req, nonblock, f)]})

(* A commit that asks for an event. *)
drm_commit(d, req, modeset, nonblock) ==
    UNION {
      {IF r.ok THEN [ok |-> TRUE, d |-> drm_connector_apply_commit(r.d, req, f)]
       ELSE [ok |-> FALSE, d |-> drm_page_flip_destroy(r.d, f)] :
         r \in Commits(drm_page_flip_create(d, f, DOMAIN req), req, modeset, nonblock, f)}
      : f \in FreeFlips(d)}

Failed(d) == {[ok |-> FALSE, d |-> d]}

(* drm_connector_state_init: without a new buffer the plane keeps its own. *)
PrimaryFb(d, k, fb) ==
    IF fb # None THEN fb
    ELSE IF d.queued[k] # None THEN d.queued[k] ELSE d.current[k]

(* Connectors turned off, without an event, by a commit for each of them. *)
TurnedOff(d, conns) ==
    LET req == [c \in conns |-> [active |-> FALSE, fb |-> None]]
    IN  drm_connector_apply_commit(Show(d, req, conns), req, None)

(* drm_connector_commit_state with enabled FALSE. *)
TurnOff(d, c, active_session) ==
    IF ~active_session THEN Failed(d)
    ELSE IF d.crtc[c] = None THEN {[ok |-> TRUE, d |-> d]}
    ELSE {[ok |-> TRUE, d |-> TurnedOff(d, {c})]} \cup (IF DisableFails THEN Failed(d) ELSE {})

dealloc_crtc_none(d, conns, active_session) == {d}   \* slip: no CRTC is released

(* dealloc_crtc, for each of conns, ignores a failure to turn the CRTC off. *)
dealloc_crtc(d, conns, active_session) ==
    LET lit == {c \in conns : d.crtc[c] # None}
    IN  {TurnedOff(d, off) : off \in IF ~active_session THEN {{}}
                                     ELSE IF DisableFails THEN SUBSET lit ELSE {lit}}

-----------------------------------------------------------------------------
(***************************************************************************)
(* CRTC allocation.  match_connectors_with_crtcs searches all assignments  *)
(* of CRTCs to connectors for one that serves the most connectors and,     *)
(* among these, changes the fewest CRTCs (CrtcMatch models the search).    *)
(***************************************************************************)
Orig(d, k) == IF \E c \in Conn : d.crtc[c] = k
                THEN CHOOSE c \in Conn : d.crtc[c] = k /\ \A x \in Conn : d.crtc[x] = k => x <= c
                ELSE None

Wants(d, c, want) == Connected(d, c) /\ (c = want \/ output[c].enabled)

Matches(d, want) ==
    {m \in [Crtc -> Conn \cup {None}] :
        /\ \A k \in Crtc : m[k] \in {None, Orig(d, k)} \/ (Wants(d, m[k], want) /\ k \in Possible[m[k]])
        /\ \A j, k \in Crtc : m[j] = m[k] /\ m[j] # None => j = k}

Score(d, want, m) ==
    Cardinality({k \in Crtc : m[k] # None /\ Wants(d, m[k], want) /\ Possible[m[k]] # {}})

Replaced(d, m) == Cardinality({k \in Crtc : Orig(d, k) # None /\ m[k] # Orig(d, k)})

BestMatches(d, want) ==
    {m \in Matches(d, want) : \A n \in Matches(d, want) :
        \/ Score(d, want, m) > Score(d, want, n)
        \/ Score(d, want, m) = Score(d, want, n) /\ Replaced(d, m) <= Replaced(d, n)}

MatchOf(m, c) == IF \E k \in Crtc : m[k] = c THEN CHOOSE k \in Crtc : m[k] = c ELSE None

(* Connectors that m leaves out release their CRTC, others without one take *)
(* what it gives them.                                                      *)
TakeCrtcs(d, m) ==
    {[e EXCEPT !.crtc = [c \in Conn |->
        IF d.crtc[c] = None /\ MatchOf(m, c) # None THEN MatchOf(m, c) ELSE @[c]]]
     : e \in dealloc_crtc(d, {c \in Conn : MatchOf(m, c) = None}, session)}

(* Slip: the assignment found is applied to enabled outputs too. *)
realloc_crtcs_move(d, want) ==
    {[d EXCEPT !.crtc = [c \in Conn |-> MatchOf(m, c)]] : m \in BestMatches(d, want)}

(* An enabled output keeps its CRTC, or nothing changes. *)
realloc_crtcs(d, want) ==
    UNION {IF \E c \in Conn : /\ Connected(d, c) /\ output[c].enabled
                              /\ MatchOf(m, c) # d.crtc[c]
             THEN {d} ELSE TakeCrtcs(d, m)
           : m \in BestMatches(d, want)}

drm_connector_alloc_crtc(d, c) ==
    IF d.crtc[c] = None THEN realloc_crtcs(d, c) ELSE {d}

-----------------------------------------------------------------------------
(***************************************************************************)
(* drm_connector_commit_state for an output that is to be active: fb is    *)
(* the new buffer or None, modeset is allow_reconfiguration.               *)
(***************************************************************************)
drm_connector_commit_state(d, c, fb, modeset) ==
    IF ~session THEN Failed(d)
    ELSE UNION {LET k == e.crtc[c]
                    nonblock == ~modeset /\ fb # None
                IN  IF k = None THEN Failed(e)
                    ELSE IF PrimaryFb(e, k, fb) = None THEN Failed(e)
                    ELSE IF nonblock /\ e.flip[c] # None THEN Failed(e)
                    ELSE drm_commit(e, [x \in {c} |-> [active |-> TRUE, fb |-> PrimaryFb(e, k, fb)]],
                                    modeset, nonblock)
                : e \in drm_connector_alloc_crtc(d, c)}

(* A buffer no framebuffer holds: what wlr_swapchain_acquire can hand out. *)
Held(d) == {d.queued[k] : k \in Crtc} \cup {d.current[k] : k \in Crtc}
Unused == Buffer \ Held(dev)

(* output_apply_commit: a commit of an enabled output awaits a frame event. *)
output_apply_commit(c, enabled) ==
    IF enabled THEN [output[c] EXCEPT !.enabled = TRUE, !.frame_pending = TRUE, !.fresh = FALSE]
               ELSE [output[c] EXCEPT !.enabled = FALSE, !.fresh = FALSE]

(* Slip: any commit cancels the idle frame. *)
Prepared_always(o, fb) == [o EXCEPT !.idle_frame = FALSE]

(* output_prepare_commit: a new buffer cancels the idle frame. *)
Prepared(o, fb) == IF fb # None THEN [o EXCEPT !.idle_frame = FALSE] ELSE o

(* A commit with a buffer that fails has cancelled the idle frames all the
   same: these events are not due any more. *)
Forgone(conns) == {c \in due : c \in conns => output[c].frame_pending}

(***************************************************************************)
(* wlr_output_commit_state.  An output that is turned on or changes mode   *)
(* gets an empty buffer when it has none (output_ensure_buffer), and a     *)
(* disabled output is refused everything but being turned on.  A new       *)
(* output is modeset before anything is flipped on it, which is what       *)
(* handle_session_active disconnects the connectors for.                   *)
(***************************************************************************)
CommitOn(c, fb, modeset) ==
    /\ Connected(dev, c)
    /\ output[c].enabled \/ modeset
    /\ output[c].fresh => modeset
    /\ modeset => fb # None
    /\ \E r \in drm_connector_commit_state(dev, c, fb, modeset) :
         /\ dev' = r.d
         /\ output' = [output EXCEPT ![c] =
              Prepared(IF r.ok THEN output_apply_commit(c, TRUE) ELSE output[c], fb)]
         /\ due' = IF r.ok \/ fb = None THEN due ELSE Forgone({c})
    /\ UNCHANGED <<plugged, session>>

CommitOff(c) ==
    /\ Connected(dev, c) /\ output[c].enabled
    /\ \E r \in TurnOff(dev, c, session) :
         /\ dev' = r.d
         /\ output' = IF r.ok THEN [output EXCEPT ![c] = output_apply_commit(c, FALSE)]
                              ELSE output
         /\ due' = IF r.ok THEN due \ {c} ELSE due
    /\ UNCHANGED <<plugged, session>>

(* wlr_output_test_state: nothing but the CRTC allocation has an effect. *)
TestOn(c) ==
    /\ Connected(dev, c) /\ session
    /\ dev.crtc[c] = None
    /\ \E d \in drm_connector_alloc_crtc(dev, c) : dev' = d
    /\ UNCHANGED <<output, plugged, session, due>>

(***************************************************************************)
(* commit_drm_device: on is a function from connectors to their new        *)
(* buffers, off the connectors to turn off.  Outputs that are and stay     *)
(* disabled are left out; the commit always asks for an event.  The CRTCs  *)
(* are allocated for one connector after the other; a request built for a  *)
(* connector without one dereferences NULL (atomic_connector_add).         *)
(***************************************************************************)
AllocAll(d, conns) ==
    LET upto[n \in 0 .. NumConn] ==
          IF n = 0 THEN {[ok |-> TRUE, d |-> d]}
          ELSE UNION {IF r.ok /\ n \in conns
                        THEN {[ok |-> e.crtc[n] # None, d |-> e] : e \in drm_connector_alloc_crtc(r.d, n)}
                        ELSE {r} : r \in upto[n - 1]}
    IN  upto[NumConn]

commit_drm_device(on, off) ==
    LET conns == DOMAIN on \cup off
        req == [c \in conns |-> IF c \in off THEN [active |-> FALSE, fb |-> None]
                                ELSE [active |-> TRUE, fb |-> on[c]]]
    IN  UNION {IF ~r.ok THEN {r}
               ELSE IF \E c \in conns : r.d.crtc[c] = None
                 THEN Failed([r.d EXCEPT !.nocrtc = TRUE])
               ELSE drm_commit(r.d, req, TRUE, FALSE)
               : r \in AllocAll(dev, DOMAIN on)}

(* wlr_backend_commit over several outputs, a modeset of each. *)
CommitDevice(on, off) ==
    /\ session
    /\ \A c \in DOMAIN on \cup off : Connected(dev, c)
    /\ \A c \in off : output[c].enabled
    /\ \E r \in commit_drm_device(on, off) :
         /\ dev' = r.d
         /\ output' = [c \in Conn |->
              IF c \in DOMAIN on
                THEN Prepared(IF r.ok THEN output_apply_commit(c, TRUE) ELSE output[c], on[c])
              ELSE IF c \in off /\ r.ok THEN output_apply_commit(c, FALSE)
              ELSE output[c]]
         /\ due' = IF r.ok THEN due \ off ELSE Forgone(DOMAIN on)
    /\ UNCHANGED <<plugged, session>>

-----------------------------------------------------------------------------
(* Slip: frame_pending is not cleared. *)
SendFrame_pending(c) == UNCHANGED output /\ due' = due \ {c}

(* wlr_output_send_frame *)
SendFrame(c) ==
    /\ output' = [output EXCEPT ![c].frame_pending = FALSE]
    /\ due' = IF output[c].enabled THEN due \ {c} ELSE due

(* The kernel reaches a vertical blank. *)
VBlank(k) ==
    /\ dev.inflight[k] # <<>>
    /\ dev' = Latch(dev, {k})
    /\ UNCHANGED <<output, plugged, session, due>>

(* While another session owns the device it shows buffers of its own. *)
OtherSession(k) ==
    /\ ~session /\ dev.hw[k] # None /\ dev.inflight[k] = <<>>
    /\ dev' = [dev EXCEPT !.hw[k] = None]
    /\ UNCHANGED <<output, plugged, session, due>>

(* The queued framebuffer is now the one on screen. *)
Flipped(d, k) ==
    IF d.queued[k] = None THEN d
    ELSE [d EXCEPT !.current[k] = d.queued[k], !.queued[k] = None]

(* handle_page_flip for the oldest unread event of CRTC k. *)
handle_page_flip(k) ==
    /\ dev.events[k] # <<>>
    /\ LET f     == Head(dev.events[k])
           conns == {e.conn : e \in Entries(dev, f, k)} \ {None}
           d1    == [drm_page_flip_pop(dev, f, k) EXCEPT
                       !.events[k] = Tail(@),
                       !.flip = [c \in Conn |-> IF c \in conns THEN None ELSE @[c]]]
           shown == {c \in conns : Connected(dev, c) /\ dev.crtc[c] # None}
       IN  IF shown = {} THEN dev' = d1 /\ UNCHANGED <<output, due>>
           ELSE \E c \in shown :
                  /\ dev' = Flipped(d1, d1.crtc[c])
                  /\ IF session THEN SendFrame(c) ELSE UNCHANGED <<output, due>>
    /\ UNCHANGED <<plugged, session>>

(* wlr_output_schedule_frame; needs_frame, which only tells the compositor
   that it may want to render, is left out. *)
ScheduleFrame(c) ==
    /\ Connected(dev, c)
    /\ output' = [output EXCEPT ![c].idle_frame = @ \/ ~output[c].frame_pending]
    /\ due' = IF output[c].enabled THEN due \cup {c} ELSE due
    /\ UNCHANGED <<dev, plugged, session>>

(* schedule_frame_handle_idle_timer *)
IdleFrame(c) ==
    /\ output[c].idle_frame
    /\ LET idle == [output EXCEPT ![c].idle_frame = FALSE]
       IN  IF output[c].frame_pending THEN output' = idle /\ due' = due
           ELSE output' = idle /\ due' = IF output[c].enabled THEN due \ {c} ELSE due
    /\ UNCHANGED <<dev, plugged, session>>

-----------------------------------------------------------------------------
(* drm_connector_destroy_output for each of conns: their CRTCs may stay     *)
(* allocated.                                                               *)
DestroyOutputs(d, conns, active_session) ==
    {[drm_connector_set_pending_page_flip(e, conns, None) EXCEPT
        !.status = [c \in Conn |-> IF c \in conns THEN "disconnected" ELSE @[c]]]
     : e \in dealloc_crtc(d, conns, active_session)}

(* handle_session_active, the session being paused. *)
SessionPause ==
    /\ session
    /\ session' = FALSE
    /\ \E d \in DestroyOutputs(dev, {c \in Conn : Connected(dev, c)}, FALSE) : dev' = d
    /\ output' = [c \in Conn |-> NoOutput]
    /\ due' = {}
    /\ UNCHANGED plugged

(***************************************************************************)
(* scan_drm_connectors: a connector whose link went bad, or that lost its  *)
(* screen, loses its output; one with a screen and no output gets one.     *)
(* The new output is enabled when the connector still has a CRTC.          *)
(***************************************************************************)
Scan(active_session, bad) ==
    LET gone == {c \in Conn : Connected(dev, c) /\ (c \in bad \/ c \notin plugged)}
    IN  \E d \in DestroyOutputs(dev, gone, active_session) :
          LET new == {c \in plugged : ~Connected(d, c)}
          IN  /\ dev' = [d EXCEPT !.status =
                           [c \in Conn |-> IF c \in new THEN "connected" ELSE @[c]]]
              /\ output' = [c \in Conn |->
                   IF c \in new THEN [NoOutput EXCEPT !.enabled = d.crtc[c] # None]
                   ELSE IF c \in gone THEN NoOutput ELSE output[c]]
              /\ due' = due \ gone

SessionResume ==
    /\ ~session
    /\ session' = TRUE
    /\ Scan(TRUE, {})
    /\ UNCHANGED plugged

(* A screen is plugged or unplugged; the backend hears of it later. *)
Hotplug(c) ==
    /\ \/ c \in plugged /\ plugged' = plugged \ {c}
       \/ c \notin plugged /\ plugged' = plugged \cup {c}
    /\ UNCHANGED <<dev, output, session, due>>

(* handle_dev_change: some connector changed, or lost its link. *)
HandleDevChange(bad) ==
    /\ session
    /\ \/ bad # {}
       \/ \E c \in Conn : Connected(dev, c) # (c \in plugged)
    /\ Scan(TRUE, bad)
    /\ UNCHANGED <<plugged, session>>

-----------------------------------------------------------------------------
DrmInit ==
    /\ dev = [status |-> [c \in Conn |-> "connected"],
              crtc |-> [c \in Conn |-> None],         \* conn->crtc
              flip |-> [c \in Conn |-> None],         \* pending_page_flip
              flips |-> [f \in Flip |-> {}],          \* their connectors and CRTCs
              queued |-> [k \in Crtc |-> None],       \* primary->queued_fb
              current |-> [k \in Crtc |-> None],      \* primary->current_fb
              hw |-> [k \in Crtc |-> None],           \* kernel: on screen
              inflight |-> [k \in Crtc |-> <<>>],     \* kernel: for the next vblank
              events |-> [k \in Crtc |-> <<>>],       \* kernel: unread events
              nocrtc |-> FALSE]                       \* crashed: conn->crtc is NULL
    /\ output = [c \in Conn |-> NoOutput]
    /\ plugged = Conn
    /\ session = TRUE
    /\ due = {}

Step ==
    \/ \E c \in Conn, fb \in Unused, modeset \in BOOLEAN : CommitOn(c, fb, modeset)
    \/ \E c \in Conn : CommitOn(c, None, FALSE)
    \/ \E c \in Conn : CommitOff(c)
    \/ \E c \in Conn : TestOn(c)
    \/ \E off \in SUBSET Conn : \E conns \in SUBSET (Conn \ off) :
         /\ Cardinality(conns \cup off) > 1
         /\ \E on \in [conns -> Unused] :
              /\ \A c, e \in conns : on[c] = on[e] => c = e
              /\ CommitDevice(on, off)
    \/ \E k \in Crtc : VBlank(k) \/ OtherSession(k) \/ handle_page_flip(k)
    \/ \E c \in Scheduling : ScheduleFrame(c) \/ IdleFrame(c)
    \/ \E c \in Pluggable : Hotplug(c)
    \/ SessionPause
    \/ SessionResume
    \/ \E bad \in SUBSET {c \in Conn : Connected(dev, c)} : HandleDevChange(bad)

DrmNext == ~dev.nocrtc /\ Step

(***************************************************************************)
(* The hardware reaches its vertical blanks and the event loop reads the   *)
(* device's file and runs idle callbacks; nobody has to commit anything.   *)
(***************************************************************************)
DrmFairness ==
    /\ \A k \in Crtc : WF_DrmVars(VBlank(k)) /\ WF_DrmVars(handle_page_flip(k))
    /\ \A c \in Scheduling : WF_DrmVars(IdleFrame(c))

DrmSpec == DrmInit /\ [][DrmNext]_DrmVars /\ DrmFairness

-----------------------------------------------------------------------------
(***************************************************************************)
(* The buffer on screen and the one about to be are held by queued_fb or   *)
(* current_fb, so wlr_swapchain_acquire never hands them out to be         *)
(* rendered into (drm_connector_apply_commit, handle_page_flip).           *)
(***************************************************************************)
ScanoutHeld ==
    \A k \in Crtc : /\ dev.hw[k] \in Held(dev) \cup {None}
                    /\ dev.inflight[k] # <<>> => dev.inflight[k][1] \in Held(dev)

Owed(k) == {dev.events[k][i] : i \in 1 .. Len(dev.events[k])} \cup
           (IF dev.inflight[k] = <<>> THEN {} ELSE {dev.inflight[k][2]})

(***************************************************************************)
(* Each event the kernel still owes carries a pointer to a page-flip that  *)
(* is alive and lists the event's CRTC (drm_page_flip_destroy, _pop): a    *)
(* modeset, a disconnection or a failed commit in between frees nothing    *)
(* an event will dereference.  And a page-flip lists only connectors that  *)
(* wait for it, so an event never completes a frame for a connector that   *)
(* has moved on (drm_connector_set_pending_page_flip).                     *)
(***************************************************************************)
FlipsAgree ==
    /\ \A k \in Crtc : \A f \in Owed(k) : Entries(dev, f, k) # {}
    /\ \A f \in Flip : \A e \in dev.flips[f] : e.conn # None => dev.flip[e.conn] = f

(***************************************************************************)
(* An output that awaits a frame event will get one: its connector waits   *)
(* for a page-flip whose event the kernel owes on the connector's CRTC.    *)
(* Otherwise frame_pending would stay set and the output freeze            *)
(* (output_apply_commit against drm_commit).                               *)
(***************************************************************************)
FrameOwed ==
    \A c \in Conn :
        Connected(dev, c) /\ output[c].enabled /\ output[c].frame_pending =>
            /\ dev.flip[c] # None
            /\ dev.crtc[c] # None
            /\ dev.flip[c] \in Owed(dev.crtc[c])

(* Two connectors never drive the same CRTC (realloc_crtcs). *)
CrtcExclusive ==
    \A c, e \in Conn : dev.crtc[c] = dev.crtc[e] /\ dev.crtc[c] # None => c = e

(* Scan-out and page-flips of the device stay in step: a connector waits    *)
(* for events that will come and no CRTC serves two.                        *)
FlipsOrdered == FlipsAgree /\ CrtcExclusive

(***************************************************************************)
(* realloc_crtcs refuses to take the CRTC of an enabled output, whatever   *)
(* another output asks for: an output loses its CRTC only by being turned  *)
(* off or destroyed.                                                       *)
(***************************************************************************)
CrtcKept ==
    [][\A c \in Conn :
         Connected(dev, c) /\ output[c].enabled /\ Connected(dev', c) /\ output'[c].enabled
           => dev'.crtc[c] = dev.crtc[c]]_DrmVars

(***************************************************************************)
(* A page-flip an output waits for completes, with its frame event, unless *)
(* the output goes away or a newer commit replaces the page-flip           *)
(* (handle_page_flip): no event is lost to a modeset, a disconnection or a *)
(* session switch in between.                                              *)
(***************************************************************************)
Awaits(c, f) == output[c].enabled /\ output[c].frame_pending /\ dev.flip[c] = f

FrameArrives == \A c \in Conn, f \in Flip : Awaits(c, f) ~> ~Awaits(c, f)

(***************************************************************************)
(* wlr_output.h: wlr_output_schedule_frame "schedules a `frame` event".    *)
(* Until it has arrived, an idle callback or a page-flip is there to       *)
(* deliver it, whatever is committed, refused or switched in between; only *)
(* a commit with a buffer that fails loses it, for output_prepare_commit   *)
(* removes the callback before the backend is asked.                       *)
(***************************************************************************)
ScheduledFrameKept ==
    \A c \in due : output[c].idle_frame \/ output[c].frame_pending

(***************************************************************************)
(* drm.c:703, "The CRTC must be set up before this function is called":    *)
(* the connectors of a device commit have their CRTCs when the request is  *)
(* built.  realloc_crtcs wants a CRTC for the outputs that are enabled and *)
(* the one being allocated, and none for those allocated just before it.   *)
(***************************************************************************)
CrtcsSetUp == ~dev.nocrtc

(* Connectors as the runs have them: the first may use every CRTC, the      *)
(* others share one.                                                        *)
OneShared == [c \in Conn |-> IF c = 1 THEN Crtc ELSE {CHOOSE k \in Crtc : TRUE}]
=============================================================================
