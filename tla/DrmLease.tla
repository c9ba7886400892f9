------------------------------ MODULE DrmLease ------------------------------
(***************************************************************************)
(* Leasing the connectors of one DRM device to clients                      *)
(* (types/wlr_drm_lease_v1.c, and the leases of backend/drm/drm.c).  An     *)
(* output that is offered has a lease connector; granting a request         *)
(* destroys the outputs it names, and the end of the lease scans the        *)
(* connectors, which brings them back.  Outputs are numbered: <<c, g>> is   *)
(* the g-th output of connector c, and also the lease connector of it.      *)
(***************************************************************************)
EXTENDS Naturals, Sequences, FiniteSets, SequencesExt

CONSTANTS LsConn,      \* connectors, numbered in the order of the backend's list
          LsCrtc,      \* CRTCs
          LsRequest,   \* requests of clients; lease r is the one request r asked for
          MaxLsPlugs   \* bound: changes of what is plugged in

VARIABLE dl

(* A connector of the backend; 0 is no output, CRTC or lease. *)
NewConnector == [here |-> TRUE, out |-> 0, n |-> 0, crtc |-> 0, lease |-> 0]
NewRequest == [st |-> "none", conns |-> <<>>, invalid |-> FALSE, failed |-> FALSE]
NewLease == [st |-> "none", res |-> FALSE, finished |-> 0, crtcs |-> {}]

LsState ==
  [device |-> TRUE,                                 \* the wlr_drm_lease_device_v1
   kernel |-> [c \in LsConn |-> "disconnected"],    \* what a scan finds
   uevents |-> FALSE, lessees |-> {}, plugs |-> 0,
   conn |-> [c \in LsConn |-> NewConnector],
   offered |-> {},                                  \* lease connectors
   bound |-> FALSE, active |-> {}, known |-> {},    \* of the client: not withdrawn, ever announced
   req |-> [r \in LsRequest |-> NewRequest],
   lease |-> [r \in LsRequest |-> NewLease],
   wild |-> FALSE]                                  \* freed memory was read

Output(s, c) == <<c, s.conn[c].out>>

---------------------------------------------------------------------------
(* Offers. *)

drm_lease_connector_v1_send_to_client(s, o) ==
  IF s.bound THEN [s EXCEPT !.active = @ \cup {o}, !.known = @ \cup {o}] ELSE s

(* Requests that name the connector keep their pointer to it. *)
drm_lease_connector_v1_destroy(s, o) == [s EXCEPT !.offered = @ \ {o}, !.active = @ \ {o}]

wlr_drm_lease_v1_manager_offer_output ==
  \E c \in LsConn :
    /\ dl.device /\ dl.conn[c].out # 0 /\ Output(dl, c) \notin dl.offered
    /\ dl' = drm_lease_connector_v1_send_to_client(
               [dl EXCEPT !.offered = @ \cup {Output(dl, c)}], Output(dl, c))

wlr_drm_lease_v1_manager_withdraw_output ==
  \E o \in dl.offered : dl' = drm_lease_connector_v1_destroy(dl, o)

lease_device_bind ==
  /\ dl.device /\ ~dl.bound
  /\ LET s == [dl EXCEPT !.bound = TRUE]
     IN dl' = FoldLeft(drm_lease_connector_v1_send_to_client, s, SetToSeq(dl.offered))

---------------------------------------------------------------------------
(* The connectors of the backend. *)

(* The output goes, and with it its lease connector; its CRTC is disabled   *)
(* and given back.                                                          *)
disconnect_drm_connector(s, c) ==
  IF s.conn[c].out = 0 THEN s
  ELSE [drm_lease_connector_v1_destroy(s, Output(s, c)) EXCEPT
          !.conn[c].out = 0, !.conn[c].crtc = 0]

connect_drm_connector(s, c) == [s EXCEPT !.conn[c].out = s.conn[c].n + 1, !.conn[c].n = @ + 1]

scan_leased(s, c) ==
  IF s.kernel[c] = "connected" /\ s.conn[c].out = 0 THEN connect_drm_connector(s, c)
  ELSE IF s.kernel[c] = "disconnected" THEN disconnect_drm_connector(s, c) ELSE s

scan_drm_connector(s, c) ==
  CASE s.conn[c].lease # 0 -> s
    [] s.conn[c].lease = 0 /\ s.kernel[c] = "gone" ->
         [disconnect_drm_connector(s, c) EXCEPT !.conn[c].here = FALSE]
    [] s.conn[c].lease = 0 /\ s.kernel[c] = "connected" /\ s.conn[c].out = 0 -> connect_drm_connector(s, c)
    [] s.conn[c].lease = 0 /\ s.kernel[c] = "disconnected" -> disconnect_drm_connector(s, c)
    [] OTHER -> s

scan_drm_connectors(s) == FoldLeft(scan_drm_connector, s, SetToSortSeq(LsConn, <))

PlugChanges ==
  \E c \in LsConn, k \in {"connected", "disconnected", "gone"} :
    /\ dl.device /\ dl.plugs < MaxLsPlugs /\ dl.kernel[c] # k /\ dl.kernel[c] # "gone"
    /\ dl' = [dl EXCEPT !.kernel[c] = k, !.uevents = TRUE, !.plugs = @ + 1]

ScanHotplug ==
  /\ dl.uevents /\ dl.device
  /\ dl' = scan_drm_connectors([dl EXCEPT !.uevents = FALSE])

(* What realloc_crtcs looks at: it does not ask whether a CRTC is leased. *)
FreeCrtcs(s) == LsCrtc \ {s.conn[c].crtc : c \in LsConn}

lease_alloc_crtc(s, c) ==
  IF s.conn[c].crtc # 0 \/ FreeCrtcs(s) = {} THEN s
  ELSE [s EXCEPT !.conn[c].crtc = CHOOSE k \in FreeCrtcs(s) : \A l \in FreeCrtcs(s) : k <= l]

---------------------------------------------------------------------------
(* Leases. *)

lease_handle_destroy(s, r) == [s EXCEPT !.lease[r].st = "over", !.lease[r].finished = @ + 1]

lease_destroy_unscanned(s, r) ==
  LET t == lease_handle_destroy(s, r)
  IN [t EXCEPT !.conn = [c \in LsConn |-> IF @[c].lease = r THEN [@[c] EXCEPT !.lease = 0] ELSE @[c]],
               !.lease[r].crtcs = {}]

drm_lease_destroy(s, r) ==
  LET t == lease_handle_destroy(s, r)
  IN scan_drm_connectors(
       [t EXCEPT !.conn = [c \in LsConn |-> IF @[c].lease = r THEN [@[c] EXCEPT !.lease = 0] ELSE @[c]],
                 !.lease[r].crtcs = {}])

(* The lessee loses its rights even if it did not ask. *)
wlr_drm_lease_terminate(s, r) == drm_lease_destroy([s EXCEPT !.lessees = @ \ {r}], r)

(* The lessee closes its file descriptor. *)
LesseeGone ==
  \E r \in dl.lessees : dl.device /\ dl' = [dl EXCEPT !.lessees = @ \ {r}]

(* The loop over the connectors ends leases, each of which scans the        *)
(* connectors and may free the one the loop is at.                          *)
scan_drm_leases ==
  /\ dl.device /\ ~dl.wild
  /\ \E r \in LsRequest : dl.lease[r].st = "granted" /\ r \notin dl.lessees
  /\ LET visit(s, c) ==
           LET r == s.conn[c].lease
               t == drm_lease_destroy(s, r)
           IN IF s.wild \/ r = 0 \/ r \in s.lessees THEN s
              ELSE [t EXCEPT !.wild = ~t.conn[c].here]
     IN dl' = FoldLeft(visit, dl, SetToSortSeq(LsConn, <))

(* The CRTCs of the connectors are found one by one; those found before one *)
(* fails stay with their connectors.  ok: the kernel grants the lease.      *)
wlr_drm_create_lease(s, r, ok) ==
  LET cs == [i \in 1..Len(s.req[r].conns) |-> s.req[r].conns[i][1]]
      alloc(q, c) == IF q.ok THEN LET t == lease_alloc_crtc(q.s, c)
                                  IN [s |-> t, ok |-> t.conn[c].crtc # 0]
                     ELSE q
      a == FoldLeft(alloc, [s |-> s, ok |-> TRUE], cs)
      give(t, c) == disconnect_drm_connector(
                      [t EXCEPT !.conn[c].lease = r, !.lease[r].crtcs = @ \cup {t.conn[c].crtc}], c)
  IN IF ~(a.ok /\ ok) THEN [s |-> a.s, ok |-> FALSE]
     ELSE [s |-> FoldLeft(give, [a.s EXCEPT !.lessees = @ \cup {r}], cs), ok |-> TRUE]

(* Every lease connector the request names is read. *)
wlr_drm_lease_request_v1_grant(s, r, ok) ==
  LET made == wlr_drm_create_lease(s, r, ok)
  IN CASE \E i \in 1..Len(s.req[r].conns) : s.req[r].conns[i] \notin s.offered -> [s EXCEPT !.wild = TRUE]
       [] ~\E i \in 1..Len(s.req[r].conns) : s.req[r].conns[i] \notin s.offered ->
            IF made.ok THEN [made.s EXCEPT !.lease[r].st = "granted"]
            ELSE [made.s EXCEPT !.lease[r].finished = @ + 1, !.req[r].failed = TRUE]

wlr_drm_lease_request_v1_reject(s, r) ==
  [s EXCEPT !.req[r].invalid = TRUE, !.lease[r].finished = @ + 1]

wlr_drm_lease_v1_revoke ==
  \E r \in LsRequest :
    dl.device /\ dl.lease[r].st = "granted" /\ dl' = wlr_drm_lease_terminate(dl, r)

drm_lease_v1_handle_resource_destroy ==
  \E r \in LsRequest :
    /\ dl.lease[r].res
    /\ LET s == [dl EXCEPT !.lease[r].res = FALSE]
       IN dl' = IF s.lease[r].st = "granted" THEN wlr_drm_lease_terminate(s, r) ELSE s

---------------------------------------------------------------------------
(* Requests of clients. *)

drm_lease_device_v1_handle_create_lease_request ==
  \E r \in LsRequest :
    /\ dl.bound /\ dl.req[r].st = "none"
    /\ dl' = [dl EXCEPT !.req[r].st = IF dl.device THEN "live" ELSE "inert"]

(* A withdrawn connector makes the request invalid. *)
drm_lease_request_v1_handle_request_connector(s, r, o) ==
  IF o \notin s.active THEN [s EXCEPT !.req[r].invalid = TRUE]
  ELSE [s EXCEPT !.req[r].conns = Append(@, o)]

RequestConnector ==
  \E r \in LsRequest, o \in dl.known :
    /\ dl.req[r].st = "live" /\ ~Contains(dl.req[r].conns, o)
    /\ dl' = drm_lease_request_v1_handle_request_connector(dl, r, o)

drm_lease_request_v1_destroy(s, r) == [s EXCEPT !.req[r].st = "gone", !.req[r].conns = <<>>]

submit_unanswered(s, r, act, ok) ==
  drm_lease_request_v1_destroy(
    CASE act = "grant" -> wlr_drm_lease_request_v1_grant(s, r, ok)
      [] act = "reject" -> wlr_drm_lease_request_v1_reject(s, r)
      [] act = "nothing" -> s, r)

(* The compositor's listener grants, rejects or does nothing; what it left  *)
(* open is rejected, also when granting failed and said so already.         *)
Answered(s, r, act, ok) ==
  LET t == CASE act = "grant" -> wlr_drm_lease_request_v1_grant(s, r, ok)
             [] act = "reject" -> wlr_drm_lease_request_v1_reject(s, r)
             [] act = "nothing" -> s
      u == IF ~t.wild /\ ~t.req[r].invalid /\ t.lease[r].st # "granted"
           THEN wlr_drm_lease_request_v1_reject(t, r) ELSE t
  IN drm_lease_request_v1_destroy(u, r)

(* An invalid request keeps its resource, which the client has given up. *)
drm_lease_request_v1_handle_submit ==
  \E r \in LsRequest :
    /\ dl.lease[r].st = "none" /\ ~dl.lease[r].res /\ dl.req[r].st # "none"
    /\ LET s == [dl EXCEPT !.lease[r].res = TRUE]
       IN \/ /\ s.req[r].st \in {"inert", "gone"} \/ s.req[r].invalid
             /\ s.lease[r].finished = 0
             /\ dl' = [s EXCEPT !.lease[r].finished = @ + 1, !.req[r].st = "submitted"]
          \/ /\ s.req[r].st = "live" /\ ~s.req[r].invalid /\ s.req[r].conns # <<>>
             /\ \E act \in {"grant", "reject", "nothing"}, ok \in BOOLEAN :
                  dl' = [Answered(s, r, act, ok) EXCEPT !.req[r].st = "submitted"]

(* The device goes with its backend: it is taken from clients, requests are *)
(* forgotten, leases end, and then the connectors go.                       *)
drm_lease_device_v1_destroy ==
  /\ dl.device
  /\ LET s1 == [dl EXCEPT !.req = [r \in LsRequest |-> IF @[r].st = "live"
                                     THEN [@[r] EXCEPT !.st = "gone", !.conns = <<>>] ELSE @[r]],
                          !.bound = FALSE]
         s2 == FoldLeft(wlr_drm_lease_terminate, s1,
                        SetToSortSeq({r \in LsRequest : dl.lease[r].st = "granted"}, <))
         s3 == FoldLeft(drm_lease_connector_v1_destroy, s2, SetToSeq(s2.offered))
     IN dl' = [FoldLeft(disconnect_drm_connector, s3, SetToSeq(LsConn)) EXCEPT !.device = FALSE]

LsInit == dl = scan_drm_connectors([LsState EXCEPT !.kernel = [c \in LsConn |-> "connected"]])

LsNext ==
  /\ ~dl.wild
  /\ \/ wlr_drm_lease_v1_manager_offer_output \/ wlr_drm_lease_v1_manager_withdraw_output
     \/ lease_device_bind \/ PlugChanges \/ ScanHotplug \/ LesseeGone
     \/ scan_drm_leases \/ wlr_drm_lease_v1_revoke \/ drm_lease_v1_handle_resource_destroy
     \/ drm_lease_device_v1_handle_create_lease_request \/ RequestConnector
     \/ drm_lease_request_v1_handle_submit \/ drm_lease_device_v1_destroy

---------------------------------------------------------------------------
(* A connector is leased exactly while a lease that was granted holds it,   *)
(* and then the compositor has no output on it; a lease that is over or was *)
(* refused is finished once, twice if granting it failed.                   *)
LeaseExclusive ==
  /\ \A c \in LsConn :
       LET r == dl.conn[c].lease
       IN r # 0 => dl.lease[r].st = "granted" /\ dl.conn[c].out = 0 /\ dl.conn[c].crtc = 0
  /\ \A r \in LsRequest :
       /\ dl.lease[r].st = "granted" => \E c \in LsConn : dl.conn[c].lease = r
       /\ dl.lease[r].finished =
            CASE dl.lease[r].st = "granted" \/ dl.req[r].st # "submitted" -> 0
              [] OTHER -> IF dl.req[r].failed THEN 2 ELSE 1
       /\ r \in dl.lessees => dl.lease[r].st = "granted"

(* Once a change was scanned, exactly the connectors that are plugged in    *)
(* and not leased have outputs; after a lease they come back.               *)
OutputsReturn ==
  dl.device /\ ~dl.uevents =>
    \A c \in LsConn : dl.conn[c].lease = 0 => (dl.conn[c].out # 0 <=> dl.kernel[c] = "connected")

(* What the client may ask for is what is on offer, and that is outputs     *)
(* that exist.                                                              *)
OffersKnown ==
  /\ \A o \in dl.offered : dl.conn[o[1]].out = o[2]
  /\ dl.bound => dl.active = dl.offered

LeasesSound == ~dl.wild => LeaseExclusive /\ OutputsReturn /\ OffersKnown
=============================================================================
