----------------------------- MODULE XdgSurface -----------------------------
(***************************************************************************)
(* The configure handshake of an xdg_surface with the xdg_toplevel role    *)
(* (types/xdg_shell/wlr_xdg_surface.c, wlr_xdg_toplevel.c).  A client      *)
(* commits once without a buffer (the initial commit); the compositor then *)
(* schedules configures, which an idle callback sends; the client          *)
(* acknowledges one and may attach a buffer; the commit with the buffer    *)
(* maps the surface, and a commit with a NULL buffer unmaps it and starts  *)
(* the handshake again.                                                    *)
(*                                                                         *)
(* The wl_surface below it is reduced to what the role sees of it: each    *)
(* commit is applied at once or, if its acquire fence has not signalled    *)
(* (wp_linux_drm_syncobj_v1 locks it) or others wait before it, queued.    *)
(* `size` stands for all the fields of a toplevel configure; 0 is the size *)
(* of a zeroed one.                                                        *)
(***************************************************************************)
EXTENDS Naturals, Sequences

CONSTANTS Sizes,      \* sizes the compositor asks for
          MaxSerial,  \* bound: configures scheduled
          MaxQueue    \* bound: commits that wait

ASSUME ConstantsAssumption ==
    /\ Sizes \subseteq Nat
    /\ MaxSerial \in Nat /\ MaxQueue \in Nat

VARIABLES xdg,          \* the wl_surface has an xdg_surface
          role,         \* wlr_xdg_surface.role
          toplevel,     \* the toplevel, with its role_resource, exists
          configured, initialized, initialCommit,
          idle,         \* configure_idle is queued
          serial,       \* scheduled_serial, the last one drawn
          scheduled,    \* toplevel.scheduled.width, height
          configures,   \* configure_list
          mapped,       \* wlr_surface.mapped
          pending,      \* what the next commit carries
          queue,        \* wlr_surface.cached
          draining,     \* wlr_surface_unlock_cached is applying the queue
          current,      \* what was applied last
          dead,         \* a protocol error was posted: the client is gone
          failed,       \* assertions that did not hold
          \* History: the last wish since the last reset, if any, all
          \* configures the client was sent, and whether a commit waited.
          wanted, sent, waited

surfaceVars == <<mapped, pending, queue, draining, current, waited>>
handshakeVars == <<configured, initialized, initialCommit, idle, configures, wanted>>
vars == <<xdg, role, toplevel, configured, initialized, initialCommit, idle, serial,
          scheduled, configures, mapped, pending, queue, draining, current, dead, failed,
          wanted, sent, waited>>

AnySize == Sizes \cup {0}
Configures == [serial : 1..MaxSerial, size : AnySize]

\* A commit: what it attaches, whether the surface has a buffer then, and the
\* synced states of the xdg_surface and of the toplevel.
Commits == [attach : {"nothing", "buffer", "null"}, hasbuf : BOOLEAN, serial : 0..MaxSerial, size : AnySize]
Queued == [state : Commits, locked : BOOLEAN]

NewCommit == [attach |-> "nothing", hasbuf |-> FALSE, serial |-> 0, size |-> 0]

Init ==
    /\ xdg = FALSE /\ role = "none" /\ toplevel = FALSE
    /\ configured = FALSE /\ initialized = FALSE /\ initialCommit = FALSE
    /\ idle = FALSE /\ serial = 0 /\ scheduled = 0 /\ configures = <<>>
    /\ mapped = FALSE /\ pending = NewCommit /\ queue = <<>> /\ draining = FALSE
    /\ current = NewCommit
    /\ dead = FALSE /\ failed = {} /\ wanted = {} /\ sent = {}
    /\ waited = FALSE

Running == ~dead /\ failed = {}
Dispatching == Running /\ ~draining

Error == dead' = TRUE /\ UNCHANGED <<xdg, role, toplevel, handshakeVars, serial, scheduled,
                                     surfaceVars, failed, sent>>

-----------------------------------------------------------------------------
(* Role objects.                                                            *)

\* reset_xdg_surface (without its popups).
Reset ==
    /\ configured' = FALSE
    /\ initialized' = FALSE
    /\ configures' = <<>>
    /\ idle' = FALSE
    /\ wanted' = {}

\* wlr_surface_synced_init zeroes the state of a new synced object everywhere.
ZeroedSerial(c) == [c EXCEPT !.serial = 0]
ZeroedSize(c) == [c EXCEPT !.size = 0]
InQueue(Op(_)) == [i \in 1..Len(queue) |-> [queue[i] EXCEPT !.state = Op(@)]]

\* create_xdg_surface.
GetXdgSurface ==
    /\ Dispatching /\ ~xdg
    /\ IF current.hasbuf
       THEN Error
       ELSE /\ xdg' = TRUE /\ role' = "none" /\ toplevel' = FALSE
            /\ Reset /\ initialCommit' = FALSE
            /\ scheduled' = 0
            /\ pending' = ZeroedSerial(pending)
            /\ current' = ZeroedSerial(current)
            /\ queue' = InQueue(ZeroedSerial)
            /\ UNCHANGED <<serial, mapped, draining, dead, failed, sent, waited>>

\* create_xdg_toplevel, with set_xdg_surface_role and
\* set_xdg_surface_role_object.
GetToplevel ==
    /\ Dispatching /\ xdg
    /\ IF toplevel
       THEN Error
       ELSE /\ role' = "toplevel" /\ toplevel' = TRUE
            /\ scheduled' = 0
            /\ pending' = ZeroedSize(pending)
            /\ current' = ZeroedSize(current)
            /\ queue' = InQueue(ZeroedSize)
            /\ UNCHANGED <<xdg, handshakeVars, serial, mapped, draining, dead, failed, sent, waited>>

\* xdg_surface_handle_role_resource_destroy: destroy_xdg_toplevel, then reset.
DestroyToplevel ==
    /\ Dispatching /\ toplevel
    /\ toplevel' = FALSE
    /\ mapped' = FALSE
    /\ Reset
    /\ UNCHANGED <<xdg, role, initialCommit, serial, scheduled, pending, queue, draining,
                   current, dead, failed, sent, waited>>

\* xdg_surface_handle_destroy, and destroy_xdg_surface from the resource.
DestroyXdgSurface ==
    /\ Dispatching /\ xdg
    /\ IF toplevel
       THEN Error
       ELSE /\ xdg' = FALSE
            /\ mapped' = FALSE
            /\ Reset
            /\ UNCHANGED <<role, toplevel, initialCommit, serial, scheduled, pending, queue,
                           draining, current, dead, failed, sent, waited>>

-----------------------------------------------------------------------------
(* Configures.                                                              *)

\* wlr_xdg_surface_schedule_configure, which asserts that the surface is
\* initialized.
ScheduleConfigure ==
    /\ ~idle => serial < MaxSerial
    /\ serial' = IF idle THEN serial ELSE serial + 1
    /\ idle' = TRUE

\* The configure is made when it is scheduled: a later wish waits for the next.
SetSize_capture(s) ==
    /\ Running
    /\ toplevel /\ initialized
    /\ scheduled' = IF idle THEN scheduled ELSE s
    /\ wanted' = {s}
    /\ ScheduleConfigure
    /\ UNCHANGED <<xdg, role, toplevel, configured, initialized, initialCommit, configures,
                   surfaceVars, dead, failed, sent>>

\* wlr_xdg_toplevel_set_size (and its likes), by a compositor that minds that
\* assertion: not before the initial commit.
SetSize(s) ==
    /\ Running
    /\ toplevel /\ initialized
    /\ scheduled' = s
    /\ wanted' = {s}
    /\ ScheduleConfigure
    /\ UNCHANGED <<xdg, role, toplevel, configured, initialized, initialCommit, configures,
                   surfaceVars, dead, failed, sent>>

\* surface_send_configure, from the event loop.
SendConfigure ==
    /\ Dispatching /\ idle
    /\ idle' = FALSE
    /\ LET configure == [serial |-> serial, size |-> scheduled] IN
       /\ configures' = Append(configures, configure)
       /\ sent' = sent \cup {configure}
    /\ UNCHANGED <<xdg, role, toplevel, configured, initialized, initialCommit, serial,
                   scheduled, surfaceVars, dead, failed, wanted>>

\* The acknowledged configure goes, the ones before it stay.
Acked_keepolder(i) == [j \in 1..(Len(configures) - 1) |->
                          IF j < i THEN configures[j] ELSE configures[j + 1]]

\* The configures that are left once the i-th is acknowledged.
Acked(i) == SubSeq(configures, i + 1, Len(configures))

\* handle_xdg_toplevel_ack_configure.
AckedSize(i) == configures[i].size

\* xdg_surface_handle_ack_configure.
AckConfigure(n) ==
    /\ Dispatching /\ xdg
    /\ IF role = "none" \/ \A i \in 1..Len(configures) : configures[i].serial # n
       THEN Error
       ELSE \E i \in {j \in 1..Len(configures) : configures[j].serial = n} :
            /\ configures' = Acked(i)
            /\ configured' = TRUE
            /\ pending' = [pending EXCEPT !.serial = n,
                              !.size = IF toplevel THEN AckedSize(i) ELSE @]
            /\ UNCHANGED <<xdg, role, toplevel, initialized, initialCommit, idle, serial,
                           scheduled, mapped, queue, draining, current, dead, failed,
                           wanted, sent, waited>>

-----------------------------------------------------------------------------
(* Commits.                                                                 *)

\* wl_surface.attach, of a buffer or of NULL.
Attach(buffer) ==
    /\ Dispatching
    /\ pending' = [pending EXCEPT !.attach = IF buffer THEN "buffer" ELSE "null",
                                  !.hasbuf = buffer]
    /\ UNCHANGED <<xdg, role, toplevel, handshakeVars, serial, scheduled, mapped, queue,
                   draining, current, dead, failed, sent, waited>>

\* xdg_surface_role_commit once `c` became the current state; `unmapped` is
\* unmap_commit and `stillMapped` what surface_commit_state left of mapped.
RoleCommit(c, unmapped, stillMapped) ==
    /\ IF unmapped
       THEN /\ Reset
            /\ initialCommit' = FALSE
            /\ failed' = IF initialCommit THEN {"initial_commit"} ELSE {}
       ELSE /\ initialCommit' = ~initialized
            /\ initialized' = TRUE
            /\ failed' = IF role = "none" THEN {"role"} ELSE {}
            /\ UNCHANGED <<configured, configures, idle, wanted>>
    /\ mapped' = (stillMapped \/ (toplevel /\ c.hasbuf))

\* surface_commit_state: the role hears of it only while its object exists.
Apply(c) ==
    LET unmaps == c.attach = "null" /\ mapped
        still  == mapped /\ c.attach # "null"
    IN  /\ current' = c
        /\ IF xdg THEN RoleCommit(c, unmaps, still)
                  ELSE mapped' = still /\ UNCHANGED <<handshakeVars, failed>>

\* A buffer is accepted before the client acknowledged a configure.
Refused_anybuffer == xdg /\ ~toplevel

\* xdg_surface_role_client_commit.
Refused == xdg /\ ((pending.hasbuf /\ ~configured) \/ ~toplevel)

\* surface_handle_commit; `fenced` says that the buffer comes with an acquire
\* fence that has not signalled.
Commit(fenced) ==
    /\ Dispatching
    /\ fenced => pending.attach = "buffer"
    /\ IF Refused
       THEN Error
       ELSE /\ pending' = [pending EXCEPT !.attach = "nothing"]
            /\ IF fenced \/ queue # <<>>
               THEN /\ Len(queue) < MaxQueue
                    /\ queue' = Append(queue, [state |-> pending, locked |-> fenced])
                    /\ waited' = TRUE
                    /\ UNCHANGED <<handshakeVars, mapped, current, failed>>
               ELSE Apply(pending) /\ UNCHANGED <<queue, waited>>
            /\ UNCHANGED <<xdg, role, toplevel, serial, scheduled, draining, dead, sent>>

\* A fence signals: wlr_surface_unlock_cached.
FenceSignalled(i) ==
    /\ Dispatching
    /\ i \in 1..Len(queue) /\ queue[i].locked
    /\ queue' = [queue EXCEPT ![i].locked = FALSE]
    /\ draining' = (i = 1)
    /\ UNCHANGED <<xdg, role, toplevel, handshakeVars, serial, scheduled, mapped, pending,
                   current, dead, failed, sent, waited>>

\* One turn of its loop.  The commit signal in between lets the compositor act.
ApplyCached ==
    /\ Running /\ draining
    /\ Apply(queue[1].state)
    /\ queue' = Tail(queue)
    /\ draining' = (Len(queue) > 1 /\ ~queue[2].locked)
    /\ UNCHANGED <<xdg, role, toplevel, serial, scheduled, pending, dead, sent, waited>>

Next ==
    \/ GetXdgSurface \/ GetToplevel \/ DestroyToplevel \/ DestroyXdgSurface
    \/ \E s \in Sizes : SetSize(s)
    \/ SendConfigure
    \/ \E n \in 1..MaxSerial : AckConfigure(n)
    \/ \E buffer \in BOOLEAN : Attach(buffer)
    \/ \E fenced \in BOOLEAN : Commit(fenced)
    \/ \E i \in 1..MaxQueue : FenceSignalled(i)
    \/ ApplyCached

Spec == Init /\ [][Next]_vars

-----------------------------------------------------------------------------
TypeOK ==
    /\ xdg \in BOOLEAN /\ role \in {"none", "toplevel"} /\ toplevel \in BOOLEAN
    /\ configured \in BOOLEAN /\ initialized \in BOOLEAN /\ initialCommit \in BOOLEAN
    /\ idle \in BOOLEAN /\ serial \in 0..MaxSerial /\ scheduled \in AnySize
    /\ configures \in Seq(Configures)
    /\ mapped \in BOOLEAN /\ pending \in Commits /\ current \in Commits
    /\ queue \in Seq(Queued) /\ draining \in BOOLEAN
    /\ dead \in BOOLEAN /\ failed \subseteq {"initial_commit", "role"}
    /\ wanted \subseteq Sizes /\ sent \subseteq Configures /\ waited \in BOOLEAN

\* As long as no commit waits for a fence: a mapped surface went through the
\* handshake (its toplevel exists, it made an initial commit and acknowledged a
\* configure since the last reset), and the state the compositor reads from
\* toplevel.current is the one the acknowledged configure carried, across
\* resets and re-created toplevels.  The assertions of xdg_surface_role_commit
\* hold: when a commit unmaps the surface the previous one was not its initial
\* one, and no commit reaches the role before the client chose one.  (A commit
\* that waits outlives the reset, so that it may map the surface again.)
MappedConfigured ==
    ~waited =>
        /\ failed = {}
        /\ mapped => /\ toplevel /\ initialized /\ configured
                     /\ [serial |-> current.serial, size |-> current.size] \in sent

\* Configures are granted in the order they were sent: what is applied never
\* goes back to an older serial, however long commits waited.
AckMonotonic == [][xdg /\ xdg' => current'.serial >= current.serial]_vars

\* No wish of the compositor is lost: once nothing is scheduled, the last
\* configure sent is what it asked for last.
WishesSent ==
    ~idle => \A size \in wanted :
        \E c \in sent : c.size = size /\ \A d \in sent : d.serial <= c.serial

\* assert(!surface->initial_commit) and assert(0 && "not reached") in
\* xdg_surface_role_commit, with commits that wait for fences too.
NoAssertionFails == failed = {}
=============================================================================
