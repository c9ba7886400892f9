------------------------------ MODULE Windows -------------------------------
(***************************************************************************)
(* What taskbars are told: the handles of toplevels of                      *)
(* types/wlr_foreign_toplevel_management_v1.c and                           *)
(* types/wlr_ext_foreign_toplevel_list_v1.c, and the workspaces and groups  *)
(* of types/wlr_ext_workspace_v1.c, for one client.  Titles and states are  *)
(* one of two values.                                                       *)
(***************************************************************************)
EXTENDS Integers, Sequences

CONSTANTS WlTop,          \* toplevels
          WlGroup,        \* workspace groups
          WlSpace,        \* workspaces
          MaxWlRequests   \* bound: requests of a client before its commit

ASSUME ListsAssumption == "none" \notin WlTop /\ "none" \notin WlGroup /\ "none" \notin WlSpace

(* slice: a bound, the protocol that moves; mgr: the client's manager       *)
(* object ("none", "bound", "stopped"); seen: the client bound the output;  *)
(* idle: toplevels whose done is scheduled; sched: the workspace manager's  *)
(* idle_source.                                                             *)
(* top: of a toplevel on, title, state, on the output (out), parent; hnd:   *)
(* the client's handle of it: on, what it was told, more told since done.   *)
(* grp, spc: groups and workspaces; ghnd, shnd: the client's handles, what  *)
(* it was told (of a workspace also the groups it entered); fresh: it was   *)
(* told something since done.  reqs: requests before the commit.            *)
VARIABLE wls

NoTop == [on |-> FALSE, title |-> 0, state |-> 0, out |-> FALSE, parent |-> "none"]
NoHandle == [on |-> FALSE, title |-> 0, state |-> 0, out |-> FALSE, parent |-> "none",
             more |-> FALSE]
NoGroup == [on |-> FALSE, out |-> FALSE]
NoSpace == [on |-> FALSE, group |-> "none", state |-> 0]
NoSpaceHandle == [on |-> FALSE, groups |-> {}, state |-> 0]

WlState(slice) ==
  [slice |-> slice, mgr |-> "none", seen |-> FALSE, idle |-> {}, sched |-> FALSE,
   top |-> [t \in WlTop |-> NoTop], hnd |-> [t \in WlTop |-> NoHandle],
   grp |-> [g \in WlGroup |-> NoGroup], ghnd |-> [g \in WlGroup |-> NoGroup],
   spc |-> [w \in WlSpace |-> NoSpace], shnd |-> [w \in WlSpace |-> NoSpaceHandle],
   reqs |-> <<>>, fresh |-> FALSE]

WlInit == wls \in {WlState("toplevels"), WlState("list"), WlState("workspaces")}

Tops == wls.slice = "toplevels"
List == wls.slice = "list"
Spaces == wls.slice = "workspaces"

LiveTops(s) == {t \in WlTop : s.top[t].on}
LiveGroups(s) == {g \in WlGroup : s.grp[g].on}
LiveSpaces(s) == {w \in WlSpace : s.spc[w].on}

(* Where the code loops over objects, an operator takes the set of them.    *)

-----------------------------------------------------------------------------
(* Toplevel handles.                                                        *)

(* toplevel_update_idle_source                                              *)
toplevel_update_idle_source(s, ts) == [s EXCEPT !.idle = @ \cup ts]

(* A handle h that an event turns into g, if it exists.                     *)
Told(h, g) == IF h.on THEN [g EXCEPT !.more = TRUE] ELSE h

(* toplevel_resource_send_parent: the parent's handle, if the client has    *)
(* one.                                                                     *)
toplevel_resource_send_parent(s, h, p) ==
  IF p = "none" \/ s.hnd[p].on THEN Told(h, [h EXCEPT !.parent = p]) ELSE h

(* wlr_foreign_toplevel_handle_v1_set_parent, of ts, which have another.    *)
wlr_foreign_toplevel_handle_v1_set_parent(s, ts, p) ==
  toplevel_update_idle_source(
    [s EXCEPT !.top = [t \in WlTop |-> IF t \in ts THEN [@[t] EXCEPT !.parent = p] ELSE @[t]],
              !.hnd = [t \in WlTop |-> IF t \in ts THEN toplevel_resource_send_parent(s, @[t], p)
                                       ELSE @[t]]], ts)

(* toplevel_send_details_to_toplevel_resource, with done, to a client with  *)
(* handles of known.                                                        *)
toplevel_send_details(s, t, known) ==
  LET x == s.top[t] IN
  [on |-> TRUE, title |-> x.title, state |-> x.state, out |-> x.out /\ s.seen,
   parent |-> IF x.parent \in known THEN x.parent ELSE "none", more |-> FALSE]

SendAll(s, known) ==
  [s EXCEPT !.mgr = "bound",
            !.hnd = [t \in WlTop |-> IF s.top[t].on THEN toplevel_send_details(s, t, known) ELSE @[t]]]

(* create_toplevel_resource_for_resource                                    *)
create_toplevel_resource(s, t) == [s EXCEPT !.hnd[t] = [NoHandle EXCEPT !.on = TRUE]]

(* wlr_foreign_toplevel_handle_v1_create                                    *)
wlr_foreign_toplevel_handle_v1_create(t) ==
  /\ Tops /\ ~wls.top[t].on /\ ~wls.hnd[t].on
  /\ LET s == [wls EXCEPT !.top[t] = [NoTop EXCEPT !.on = TRUE]]
     IN wls' = IF s.mgr = "bound" THEN create_toplevel_resource(s, t) ELSE s

(* Tells each toplevel before the handles of the others exist.              *)
bind_one_loop ==
  /\ Tops /\ wls.mgr # "bound" /\ \A t \in WlTop : ~wls.hnd[t].on
  /\ wls' = SendAll(wls, {})

(* foreign_toplevel_manager_bind: first all the handles, then their         *)
(* details.                                                                 *)
foreign_toplevel_manager_bind ==
  /\ Tops /\ wls.mgr # "bound" /\ \A t \in WlTop : ~wls.hnd[t].on
  /\ wls' = SendAll(wls, LiveTops(wls))

(* foreign_toplevel_manager_handle_stop: the handles stay.                  *)
foreign_toplevel_manager_handle_stop ==
  Tops /\ wls.mgr = "bound" /\ wls' = [wls EXCEPT !.mgr = "stopped"]

foreign_toplevel_resource_destroy(t) ==
  /\ (Tops \/ List) /\ wls.hnd[t].on
  /\ wls' = [wls EXCEPT !.hnd[t] = NoHandle]

(* wlr_foreign_toplevel_handle_v1_set_title, _set_app_id                    *)
wlr_foreign_toplevel_handle_v1_set_title(t) ==
  /\ Tops /\ wls.top[t].on
  /\ LET v == 1 - wls.top[t].title IN
     wls' = toplevel_update_idle_source(
              [wls EXCEPT !.top[t].title = v, !.hnd[t] = Told(@, [@ EXCEPT !.title = v])], {t})

(* set_state, toplevel_send_state: a change is told.                        *)
set_state(t, v) ==
  /\ Tops /\ wls.top[t].on /\ v # wls.top[t].state
  /\ wls' = toplevel_update_idle_source(
              [wls EXCEPT !.top[t].state = v, !.hnd[t] = Told(@, [@ EXCEPT !.state = v])], {t})

(* toplevel_send_output, to a client that bound the output.                 *)
toplevel_send_output(s, ts, enter) ==
  toplevel_update_idle_source(
    [s EXCEPT !.hnd = [t \in WlTop |-> IF t \in ts /\ s.seen THEN Told(@[t], [@[t] EXCEPT !.out = enter])
                                       ELSE @[t]]], ts)

(* wlr_foreign_toplevel_handle_v1_output_enter, _output_leave               *)
ToplevelOutput(t, enter) ==
  /\ Tops /\ wls.top[t].on /\ wls.top[t].out # enter
  /\ wls' = toplevel_send_output([wls EXCEPT !.top[t].out = enter], {t}, enter)

SetParent(t, p) ==
  /\ Tops /\ wls.top[t].on /\ p # t /\ p \in LiveTops(wls) \cup {"none"}
  /\ wls.top[t].parent # p
  /\ wls' = wlr_foreign_toplevel_handle_v1_set_parent(wls, {t}, p)

(* Leaves the children of a toplevel that goes.                             *)
destroy_orphans(t) ==
  /\ Tops /\ wls.top[t].on
  /\ wls' = [wls EXCEPT !.top[t] = NoTop, !.hnd[t] = NoHandle, !.idle = @ \ {t}]

(* wlr_foreign_toplevel_handle_v1_destroy: the handles become inert, the    *)
(* children lose their parent.                                              *)
wlr_foreign_toplevel_handle_v1_destroy(t) ==
  /\ Tops /\ wls.top[t].on
  /\ LET s == [wls EXCEPT !.top[t] = NoTop, !.hnd[t] = NoHandle, !.idle = @ \ {t}]
     IN wls' = wlr_foreign_toplevel_handle_v1_set_parent(
                 s, {u \in LiveTops(s) : s.top[u].parent = t}, "none")

(* toplevel_idle_send_done                                                  *)
toplevel_idle_send_done(t) ==
  /\ t \in wls.idle
  /\ wls' = [wls EXCEPT !.idle = @ \ {t}, !.hnd[t].more = FALSE]

-----------------------------------------------------------------------------
(* The ext list: everything is told with its done.                          *)

(* wlr_ext_foreign_toplevel_handle_v1_create, _update_state, _destroy       *)
wlr_ext_foreign_toplevel_handle_v1_create(t) ==
  /\ List /\ ~wls.top[t].on /\ ~wls.hnd[t].on
  /\ LET s == [wls EXCEPT !.top[t] = [NoTop EXCEPT !.on = TRUE]]
     IN wls' = IF s.mgr = "bound" THEN create_toplevel_resource(s, t) ELSE s

wlr_ext_foreign_toplevel_handle_v1_update_state(t) ==
  /\ List /\ wls.top[t].on
  /\ wls' = [wls EXCEPT !.top[t].title = 1 - @,
                        !.hnd[t].title = IF wls.hnd[t].on THEN 1 - @ ELSE @]

wlr_ext_foreign_toplevel_handle_v1_destroy(t) ==
  List /\ wls.top[t].on /\ wls' = [wls EXCEPT !.top[t] = NoTop, !.hnd[t] = NoHandle]

foreign_toplevel_list_bind ==
  /\ List /\ wls.mgr # "bound" /\ \A t \in WlTop : ~wls.hnd[t].on
  /\ wls' = SendAll(wls, LiveTops(wls))

foreign_toplevel_list_handle_stop ==
  List /\ wls.mgr = "bound" /\ wls' = [wls EXCEPT !.mgr = "stopped"]

-----------------------------------------------------------------------------
(* Workspaces.                                                              *)

(* manager_schedule_done, if there was something to say.                    *)
manager_schedule_done(s, any) == [s EXCEPT !.sched = @ \/ any]

Heard(s, any) == [s EXCEPT !.fresh = @ \/ (any /\ s.mgr = "bound")]

(* workspace_send_group: to a client with handles of both.                  *)
workspace_send_group(s, ws, g, enter) ==
  LET told == {w \in ws : s.shnd[w].on /\ s.ghnd[g].on}
      u == [s EXCEPT !.shnd = [w \in WlSpace |->
              IF w \in told THEN [s.shnd[w] EXCEPT !.groups = IF enter THEN @ \cup {g} ELSE @ \ {g}]
              ELSE s.shnd[w]]]
  IN manager_schedule_done(Heard(u, told # {}), ws # {})

(* group_send_output                                                        *)
group_send_output(s, gs, enter) ==
  LET told == {g \in gs : s.ghnd[g].on /\ s.seen}
      u == [s EXCEPT !.ghnd = [g \in WlGroup |-> IF g \in told THEN [@[g] EXCEPT !.out = enter] ELSE @[g]]]
  IN manager_schedule_done(Heard(u, told # {}), gs # {})

(* create_group_resource, group_send_details                                *)
create_group_resource(s, gs) ==
  LET u == [s EXCEPT !.ghnd = [g \in WlGroup |->
              IF g \in gs THEN [on |-> TRUE, out |-> s.grp[g].out /\ s.seen] ELSE @[g]]]
  IN manager_schedule_done(Heard(u, gs # {}), gs # {})

(* create_workspace_resource, workspace_send_details; groups: those of the  *)
(* client that are told of it.                                              *)
create_workspace_resource(s, ws, groups) ==
  LET u == [s EXCEPT !.shnd = [w \in WlSpace |->
              IF w \in ws
              THEN [on |-> TRUE, groups |-> {s.spc[w].group} \cap groups, state |-> s.spc[w].state]
              ELSE @[w]]]
  IN manager_schedule_done(Heard(u, ws # {}), ws # {})

(* manager_bind: groups before the workspaces that are in them.             *)
manager_bind ==
  /\ Spaces /\ wls.mgr = "none"
  /\ LET g1 == create_group_resource([wls EXCEPT !.mgr = "bound"], LiveGroups(wls))
         all == create_workspace_resource(g1, LiveSpaces(wls), LiveGroups(wls))
     IN wls' = [all EXCEPT !.fresh = FALSE]

(* manager_handle_stop, destroy_manager_resource: the client's handles      *)
(* become inert.                                                            *)
destroy_manager_resource ==
  /\ Spaces /\ wls.mgr = "bound"
  /\ wls' = [wls EXCEPT !.mgr = "none", !.reqs = <<>>, !.fresh = FALSE,
                        !.ghnd = [g \in WlGroup |-> NoGroup],
                        !.shnd = [w \in WlSpace |-> NoSpaceHandle]]

(* group_handle_resource_destroy, workspace_resource_destroy                *)
destroy_group_resource(g) ==
  /\ wls.ghnd[g].on
  /\ wls' = [wls EXCEPT !.ghnd[g] = NoGroup,
                        !.shnd = [w \in WlSpace |-> [wls.shnd[w] EXCEPT !.groups = @ \ {g}]]]

destroy_workspace_resource(w) ==
  wls.shnd[w].on /\ wls' = [wls EXCEPT !.shnd[w] = NoSpaceHandle]

(* workspace_handle_activate, _deactivate, _remove, _assign,                *)
(* group_handle_create_workspace: kept until the commit.                    *)
Request(w, g) ==
  /\ Spaces /\ wls.mgr = "bound" /\ Len(wls.reqs) < MaxWlRequests
  /\ w \in {v \in WlSpace : wls.shnd[v].on} \cup {"none"}
  /\ g \in {v \in WlGroup : wls.ghnd[v].on} \cup {"none"}
  /\ <<w, g>> # <<"none", "none">>
  /\ wls' = [wls EXCEPT !.reqs = Append(@, [w |-> w, g |-> g])]

(* manager_handle_commit                                                    *)
manager_handle_commit == wls.reqs # <<>> /\ wls' = [wls EXCEPT !.reqs = <<>>]

(* Clears what the requests name first.                                     *)
clear_requests_first(s, w, g) ==
  [s EXCEPT !.reqs = [i \in DOMAIN @ |->
     IF @[i].w = "none" THEN [@[i] EXCEPT !.g = IF @ = g THEN "none" ELSE @]
     ELSE [@[i] EXCEPT !.w = IF @ = w THEN "none" ELSE @]]]

(* clear_requests_by                                                        *)
clear_requests_by(s, w, g) ==
  [s EXCEPT !.reqs = [i \in DOMAIN @ |-> [w |-> IF @[i].w = w THEN "none" ELSE @[i].w,
                                          g |-> IF @[i].g = g THEN "none" ELSE @[i].g]]]

(* wlr_ext_workspace_group_handle_v1_create                                 *)
wlr_ext_workspace_group_handle_v1_create(g) ==
  /\ Spaces /\ ~wls.grp[g].on
  /\ LET s == [wls EXCEPT !.grp[g] = [on |-> TRUE, out |-> FALSE]]
     IN wls' = manager_schedule_done(IF s.mgr = "bound" THEN create_group_resource(s, {g}) ELSE s, TRUE)

(* Forgets that workspaces were in the group.                               *)
group_destroy_entered(g) ==
  /\ wls.grp[g].on
  /\ LET s == [clear_requests_by(wls, "nobody", g) EXCEPT !.grp[g] = NoGroup, !.ghnd[g] = NoGroup]
     IN wls' = manager_schedule_done(s, TRUE)

(* wlr_ext_workspace_group_handle_v1_destroy: its workspaces leave it, the  *)
(* handles become inert, requests forget it.                                *)
wlr_ext_workspace_group_handle_v1_destroy(g) ==
  /\ wls.grp[g].on
  /\ LET ws == {w \in WlSpace : wls.spc[w].group = g}
         left == [workspace_send_group(wls, ws, g, FALSE) EXCEPT !.spc = [w \in WlSpace |->
                    IF w \in ws THEN [@[w] EXCEPT !.group = "none"] ELSE @[w]]]
         gone == [Heard(left, left.ghnd[g].on) EXCEPT !.ghnd[g] = NoGroup]
     IN wls' = manager_schedule_done([clear_requests_by(gone, "nobody", g)
                                        EXCEPT !.grp[g] = NoGroup], TRUE)

(* wlr_ext_workspace_group_handle_v1_output_enter, _output_leave            *)
GroupOutput(g, enter) ==
  /\ wls.grp[g].on /\ wls.grp[g].out # enter
  /\ wls' = group_send_output([wls EXCEPT !.grp[g].out = enter], {g}, enter)

(* wlr_ext_workspace_handle_v1_create                                       *)
wlr_ext_workspace_handle_v1_create(w) ==
  /\ Spaces /\ ~wls.spc[w].on
  /\ LET s == [wls EXCEPT !.spc[w] = [NoSpace EXCEPT !.on = TRUE]]
     IN wls' = manager_schedule_done(
                 IF s.mgr = "bound" THEN create_workspace_resource(s, {w}, {}) ELSE s, TRUE)

(* wlr_ext_workspace_handle_v1_destroy                                      *)
wlr_ext_workspace_handle_v1_destroy(w) ==
  /\ wls.spc[w].on
  /\ LET gone == [Heard(wls, wls.shnd[w].on) EXCEPT !.shnd[w] = NoSpaceHandle]
     IN wls' = manager_schedule_done([clear_requests_by(gone, w, "nobody")
                                        EXCEPT !.spc[w] = NoSpace], TRUE)

(* Enters the new group and stays in the old one.                           *)
set_group_unleft(w, g) ==
  /\ wls.spc[w].on /\ wls.spc[w].group # g /\ g \in LiveGroups(wls) \cup {"none"}
  /\ LET s == [wls EXCEPT !.spc[w].group = g]
     IN wls' = IF g = "none" THEN s ELSE workspace_send_group(s, {w}, g, TRUE)

(* wlr_ext_workspace_handle_v1_set_group                                    *)
wlr_ext_workspace_handle_v1_set_group(w, g) ==
  /\ wls.spc[w].on /\ wls.spc[w].group # g /\ g \in LiveGroups(wls) \cup {"none"}
  /\ LET old == wls.spc[w].group
         left == IF old = "none" THEN wls ELSE workspace_send_group(wls, {w}, old, FALSE)
         s == [left EXCEPT !.spc[w].group = g]
     IN wls' = IF g = "none" THEN s ELSE workspace_send_group(s, {w}, g, TRUE)

(* workspace_set_state, _set_name, _set_coordinates: a change is told.      *)
workspace_set_state(w, v) ==
  /\ wls.spc[w].on /\ wls.spc[w].state # v
  /\ LET s == [wls EXCEPT !.spc[w].state = v, !.shnd[w].state = IF wls.shnd[w].on THEN v ELSE @]
     IN wls' = manager_schedule_done(Heard(s, s.shnd[w].on), TRUE)

(* workspace_handle_idle                                                              *)
workspace_handle_idle == wls.sched /\ wls' = [wls EXCEPT !.sched = FALSE, !.fresh = FALSE]

-----------------------------------------------------------------------------
(* The output.                                                              *)

(* Tells only the client's first handle.                                    *)
output_bind_silent(s) == [s EXCEPT !.seen = TRUE]

(* toplevel_handle_output_bind, handle_output_bind: a client that binds the *)
(* output later is told what is on it.                                      *)
toplevel_handle_output_bind(s) ==
  LET b == toplevel_send_output([s EXCEPT !.seen = TRUE], {t \in WlTop : s.top[t].out}, TRUE)
  IN group_send_output(b, {g \in WlGroup : s.grp[g].out}, TRUE)

OutputBind == ~wls.seen /\ ~List /\ wls' = toplevel_handle_output_bind(wls)

(* toplevel_handle_output_destroy, handle_output_destroy                    *)
OutputGone ==
  /\ \E t \in WlTop, g \in WlGroup : wls.top[t].out \/ wls.grp[g].out
  /\ LET ts == {t \in WlTop : wls.top[t].out}
         gs == {g \in WlGroup : wls.grp[g].out}
         left == [wls EXCEPT !.top = [t \in WlTop |-> [@[t] EXCEPT !.out = FALSE]],
                             !.grp = [g \in WlGroup |-> [@[g] EXCEPT !.out = FALSE]]]
     IN wls' = [group_send_output(toplevel_send_output(left, ts, FALSE), gs, FALSE) EXCEPT !.seen = FALSE]

WlNext ==
  \/ foreign_toplevel_manager_bind \/ foreign_toplevel_manager_handle_stop
  \/ foreign_toplevel_list_bind \/ foreign_toplevel_list_handle_stop
  \/ manager_bind \/ destroy_manager_resource \/ manager_handle_commit \/ workspace_handle_idle
  \/ OutputBind \/ OutputGone
  \/ \E t \in WlTop :
       \/ wlr_foreign_toplevel_handle_v1_create(t) \/ wlr_foreign_toplevel_handle_v1_destroy(t)
       \/ foreign_toplevel_resource_destroy(t) \/ wlr_foreign_toplevel_handle_v1_set_title(t)
       \/ toplevel_idle_send_done(t)
       \/ \E v \in {0, 1} : set_state(t, v)
       \/ \E b \in BOOLEAN : ToplevelOutput(t, b)
       \/ \E p \in WlTop \cup {"none"} : SetParent(t, p)
       \/ wlr_ext_foreign_toplevel_handle_v1_create(t)
       \/ wlr_ext_foreign_toplevel_handle_v1_update_state(t)
       \/ wlr_ext_foreign_toplevel_handle_v1_destroy(t)
  \/ \E g \in WlGroup :
       \/ destroy_group_resource(g) \/ wlr_ext_workspace_group_handle_v1_create(g)
       \/ wlr_ext_workspace_group_handle_v1_destroy(g)
       \/ \E b \in BOOLEAN : GroupOutput(g, b)
  \/ \E w \in WlSpace :
       \/ destroy_workspace_resource(w) \/ wlr_ext_workspace_handle_v1_create(w)
       \/ wlr_ext_workspace_handle_v1_destroy(w)
       \/ \E g \in WlGroup \cup {"none"} : wlr_ext_workspace_handle_v1_set_group(w, g)
       \/ \E v \in {0, 1} : workspace_set_state(w, v)
  \/ \E w \in WlSpace \cup {"none"}, g \in WlGroup \cup {"none"} : Request(w, g)

WlSpec == WlInit /\ [][WlNext]_wls

-----------------------------------------------------------------------------
(* A taskbar with a handle of a toplevel knows its title, state, outputs    *)
(* and parent, whatever the order in which handles were made and destroyed; *)
(* the exception is a parent the client has no handle of.                   *)
TaskbarTold ==
  \A t \in WlTop :
    /\ wls.hnd[t].on => wls.top[t].on
    /\ wls.top[t].parent # "none" => wls.top[wls.top[t].parent].on
    /\ wls.hnd[t].on =>
         /\ wls.hnd[t].title = wls.top[t].title
         /\ wls.hnd[t].state = wls.top[t].state
         /\ wls.hnd[t].out = (wls.top[t].out /\ wls.seen)
         /\ wls.hnd[t].parent # wls.top[t].parent =>
              wls.top[t].parent # "none" /\ ~wls.hnd[wls.top[t].parent].on
         /\ wls.hnd[t].more => t \in wls.idle

(* A client knows which workspaces are in the groups it has handles of, and *)
(* its requests name only what exists when they are committed.              *)
WorkspacesTold ==
  /\ \A g \in WlGroup : wls.ghnd[g].on =>
       wls.grp[g].on /\ wls.ghnd[g].out = (wls.grp[g].out /\ wls.seen)
  /\ \A w \in WlSpace :
       /\ wls.spc[w].group # "none" => wls.grp[wls.spc[w].group].on
       /\ wls.shnd[w].on =>
            /\ wls.spc[w].on /\ wls.shnd[w].state = wls.spc[w].state
            /\ wls.shnd[w].groups = {g \in {wls.spc[w].group} \ {"none"} : wls.ghnd[g].on}
  /\ \A i \in DOMAIN wls.reqs :
       /\ wls.reqs[i].w # "none" => wls.spc[wls.reqs[i].w].on
       /\ wls.reqs[i].g # "none" => wls.grp[wls.reqs[i].g].on
  /\ wls.fresh => wls.sched

WindowListsSound == TaskbarTold /\ WorkspacesTold

-----------------------------------------------------------------------------
(***************************************************************************)
(* Relations between windows of different clients: toplevels exported and   *)
(* imported as parents (types/wlr_xdg_foreign_v1.c, _v2.c, with the         *)
(* registry they share) and activation tokens                               *)
(* (types/wlr_xdg_activation_v1.c).                                         *)
(***************************************************************************)
CONSTANTS LkTop,          \* toplevels
          LkImport,       \* imported objects
          LkToken         \* activation tokens

ASSUME LinksAssumption == "none" \notin LkTop

(* slice: a bound, what moves.                                              *)
(* top: toplevels: on, mapped, parent; exp: toplevel the handle stands for, *)
(* "none" without; imp: of each imported object live and its children.      *)
(* Ghosts: reset: toplevels that were reset while a record of them stayed;  *)
(* blamed: a loop was reported to the client of the exported toplevel;      *)
(* ignored: a request to be the parent was dropped; kept: an import went    *)
(* and its child kept the parent.                                           *)
(* tok: tokens: st ("none", "open", "issued"), bound: it has its client's   *)
(* object, seat, serial (right or wrong), surface ("none", "focused",       *)
(* "other"), timer, done: its name was sent; bad: ghost, it was asked for   *)
(* with a wrong serial or a surface without focus; used: ghost, times       *)
(* it was used to activate a window.                                        *)
(* Ghosts lost: a token that was given out went without use or time-out;    *)
(* unchecked: a seat or surface went before it was checked.                 *)
VARIABLE lnk

NoLkTop == [on |-> FALSE, mapped |-> FALSE, parent |-> "none"]
NoImport == [live |-> FALSE, kids |-> {}]
NoToken == [st |-> "none", bound |-> FALSE, seat |-> FALSE, serial |-> TRUE, surface |-> "none",
            timer |-> FALSE, done |-> FALSE, bad |-> FALSE, used |-> 0]

LkState(slice) ==
  [slice |-> slice, top |-> [t \in LkTop |-> NoLkTop], exp |-> "none",
   imp |-> [i \in LkImport |-> NoImport], reset |-> {}, blamed |-> FALSE, ignored |-> FALSE, kept |-> FALSE,
   tok |-> [k \in LkToken |-> NoToken], unchecked |-> FALSE, lost |-> FALSE]

LkInit == lnk \in {LkState("foreign"), LkState("activation")}

Foreign == lnk.slice = "foreign"
Activation == lnk.slice = "activation"

-----------------------------------------------------------------------------
(* Parents.                                                                 *)

(* The chain of parents of p, p included: what every set holds that has p   *)
(* and the parents of its members.                                          *)
Ancestors(s, p) ==
  {u \in LkTop :
     \A S \in SUBSET LkTop :
       (p # "none" => p \in S) /\ (\A q \in S : s.top[q].parent \in S \cup {"none"}) => u \in S}

(* Leaves the record when the toplevel gets another parent.                 *)
handle_child_stays(s, ts) == s

(* handle_child_xdg_toplevel_set_parent, handle_child_xdg_toplevel_destroy: *)
(* the records of toplevels go.                                             *)
handle_child_xdg_toplevel_set_parent(s, ts) ==
  [s EXCEPT !.imp = [i \in LkImport |-> [s.imp[i] EXCEPT !.kids = @ \ ts]], !.reset = @ \ ts]

Loop(s, t, p) == t \in Ancestors(s, p)

(* wlr_xdg_toplevel_set_parent of each of ts, without a loop: only a mapped *)
(* toplevel is a parent.                                                    *)
wlr_xdg_toplevel_set_parent(s, ts, p) ==
  LET q == IF p # "none" /\ s.top[p].mapped THEN p ELSE "none"
  IN handle_child_xdg_toplevel_set_parent(
       [s EXCEPT !.top = [t \in LkTop |-> IF t \in ts THEN [@[t] EXCEPT !.parent = q] ELSE @[t]]], ts)

Kids(s, t) == {u \in LkTop : s.top[u].parent = t}

(* handle_parent_unmap: children go to the parent's parent.                 *)
handle_parent_unmap(s, t) == wlr_xdg_toplevel_set_parent(s, Kids(s, t), s.top[t].parent)

(* reset_xdg_toplevel forgets the parent without a signal.                  *)
reset_xdg_toplevel(s, t) ==
  [s EXCEPT !.top[t].parent = "none",
            !.reset = IF \E i \in LkImport : t \in s.imp[i].kids THEN @ \cup {t} ELSE @]

UnmapToplevel(s, t) ==
  IF s.top[t].mapped THEN handle_parent_unmap([s EXCEPT !.top[t].mapped = FALSE], t) ELSE s

Map(t) ==
  /\ Foreign /\ ~lnk.top[t].mapped
  /\ lnk' = [lnk EXCEPT !.top[t].on = TRUE, !.top[t].mapped = lnk.top[t].on]

(* A commit without a buffer unmaps and resets.                             *)
Unmap(t) == lnk.top[t].mapped /\ lnk' = reset_xdg_toplevel(UnmapToplevel(lnk, t), t)

(* xdg_toplevel_handle_set_parent                                           *)
xdg_toplevel_handle_set_parent(t, p) ==
  /\ lnk.top[t].on /\ p \in {u \in LkTop : lnk.top[u].on} \cup {"none"} /\ ~Loop(lnk, t, p)
  /\ lnk.top[t].parent # p
  /\ lnk' = wlr_xdg_toplevel_set_parent(lnk, {t}, p)

(* Forgets the imports and leaves the parents they gave.                    *)
destroy_imported_parented(s, is) ==
  [s EXCEPT !.imp = [i \in LkImport |-> IF i \in is THEN NoImport ELSE @[i]]]

(* destroy_imported, of each of is: its children lose their parent.         *)
destroy_imported(s, is) ==
  [wlr_xdg_toplevel_set_parent(s, UNION {s.imp[i].kids : i \in is}, "none")
     EXCEPT !.imp = [i \in LkImport |-> IF i \in is THEN NoImport ELSE @[i]]]

(* destroy_exported, wlr_xdg_foreign_exported_finish: the imports go first. *)
destroy_exported(s) == [destroy_imported(s, {i \in LkImport : s.imp[i].live}) EXCEPT !.exp = "none"]

(* Ghost: a child of an import that went still has its parent.              *)
Kept(s, u) ==
  [u EXCEPT !.kept = @ \/ \E i \in LkImport : /\ s.imp[i].live /\ ~u.imp[i].live
                                             /\ \E t \in s.imp[i].kids : u.top[t].parent # "none"]

(* xdg_exporter_handle_export, wlr_xdg_foreign_exported_init                *)
xdg_exporter_handle_export(t) ==
  /\ Foreign /\ lnk.exp = "none" /\ lnk.top[t].on
  /\ lnk' = [lnk EXCEPT !.exp = t]

xdg_exported_handle_resource_destroy ==
  lnk.exp # "none" /\ lnk' = Kept(lnk, destroy_exported(lnk))

(* xdg_importer_handle_import: a handle that stands for nothing makes an    *)
(* inert object.                                                            *)
xdg_importer_handle_import(i) ==
  /\ Foreign /\ lnk.exp # "none" /\ ~lnk.imp[i].live
  /\ lnk' = [lnk EXCEPT !.imp[i].live = TRUE]

xdg_imported_handle_resource_destroy(i) ==
  lnk.imp[i].live /\ lnk' = Kept(lnk, destroy_imported(lnk, {i}))

(* xdg_imported_handle_set_parent_of                                        *)
xdg_imported_handle_set_parent_of(i, t) ==
  /\ lnk.imp[i].live /\ lnk.top[t].on
  /\ lnk' = IF ~lnk.top[lnk.exp].mapped THEN wlr_xdg_toplevel_set_parent(lnk, {t}, "none")
            ELSE IF t \in lnk.imp[i].kids
            THEN [lnk EXCEPT !.ignored = @ \/ lnk.top[t].parent # lnk.exp]
            ELSE IF Loop(lnk, t, lnk.exp) THEN [lnk EXCEPT !.blamed = TRUE]
            ELSE [wlr_xdg_toplevel_set_parent(lnk, {t}, lnk.exp)
                    EXCEPT !.imp[i].kids = @ \cup {t}]

(* destroy_xdg_toplevel, then the destroy signal of the xdg_surface         *)
(* (handle_xdg_toplevel_destroy).                                           *)
ToplevelDestroy(t) ==
  /\ lnk.top[t].on
  /\ LET gone == handle_child_xdg_toplevel_set_parent(reset_xdg_toplevel(UnmapToplevel(lnk, t), t), {t})
         s == [gone EXCEPT !.top[t] = NoLkTop]
     IN lnk' = IF s.exp = t THEN destroy_exported(s) ELSE s

-----------------------------------------------------------------------------
(* Activation tokens.                                                       *)

(* wlr_xdg_activation_token_v1_destroy                                      *)
wlr_xdg_activation_token_v1_destroy(s, k) == [s EXCEPT !.tok[k] = NoToken]

(* activation_handle_get_activation_token                                   *)
activation_handle_get_activation_token(k) ==
  /\ Activation /\ lnk.tok[k] = NoToken
  /\ lnk' = [lnk EXCEPT !.tok[k].st = "open", !.tok[k].bound = TRUE]

(* token_handle_set_serial                                                  *)
token_handle_set_serial(k, good) ==
  /\ lnk.tok[k].st = "open" /\ lnk.tok[k].bound
  /\ lnk' = [lnk EXCEPT !.tok[k].seat = TRUE, !.tok[k].serial = good,
                        !.tok[k].bad = ~good \/ lnk.tok[k].surface = "other"]

(* token_handle_set_surface                                                 *)
token_handle_set_surface(k, f) ==
  /\ lnk.tok[k].st = "open" /\ lnk.tok[k].bound
  /\ lnk' = [lnk EXCEPT !.tok[k].surface = f,
                        !.tok[k].bad = lnk.tok[k].seat /\ (~lnk.tok[k].serial \/ f = "other")]

(* token_handle_seat_destroy, token_handle_surface_destroy                  *)
token_handle_seat_destroy ==
  /\ Activation /\ \E k \in LkToken : lnk.tok[k].seat
  /\ lnk' = [lnk EXCEPT !.tok = [k \in LkToken |-> [@[k] EXCEPT !.seat = FALSE, !.serial = TRUE]]]

token_handle_surface_destroy(f) ==
  /\ Activation /\ f # "none" /\ \E k \in LkToken : lnk.tok[k].surface = f
  /\ lnk' = [lnk EXCEPT !.tok = [k \in LkToken |->
               [lnk.tok[k] EXCEPT !.surface = IF @ = f THEN "none" ELSE @]]]

(* Another surface gets the focus.                                          *)
FocusMoves ==
  /\ Activation /\ \E k \in LkToken : lnk.tok[k].st = "open" /\ lnk.tok[k].surface # "none"
  /\ LET other(f) == IF f = "focused" THEN "other" ELSE IF f = "other" THEN "focused" ELSE f
     IN lnk' = [lnk EXCEPT !.tok = [k \in LkToken |->
                  LET q == [lnk.tok[k] EXCEPT !.surface = other(@)]
                  IN IF q.st = "open" THEN [q EXCEPT !.bad = q.seat /\ (~q.serial \/ q.surface = "other")]
                     ELSE q]]

(* The client's object keeps the token after the commit.                    *)
commit_bound(k) ==
  /\ lnk.tok[k].st = "open" /\ lnk.tok[k].bound
  /\ LET q == lnk.tok[k]
         refused == q.seat /\ (~q.serial \/ q.surface = "other")
     IN lnk' = IF refused THEN wlr_xdg_activation_token_v1_destroy(lnk, k)
               ELSE [lnk EXCEPT !.tok[k].st = "issued", !.tok[k].timer = TRUE, !.tok[k].done = TRUE]

(* Issues a token whose surface has no focus.                               *)
commit_unfocused(k) ==
  /\ lnk.tok[k].st = "open" /\ lnk.tok[k].bound
  /\ LET q == lnk.tok[k]
     IN lnk' = IF q.seat /\ ~q.serial THEN wlr_xdg_activation_token_v1_destroy(lnk, k)
               ELSE [lnk EXCEPT !.tok[k] = [q EXCEPT !.st = "issued", !.bound = FALSE, !.timer = TRUE,
                                                     !.done = TRUE]]

(* token_handle_commit, token_init: the client is told a name in any case;  *)
(* the token of a client that showed no right serial or focus is unknown.   *)
token_handle_commit(k) ==
  /\ lnk.tok[k].st = "open" /\ lnk.tok[k].bound
  /\ LET q == lnk.tok[k]
         refused == q.seat /\ (~q.serial \/ q.surface = "other")
     IN lnk' = IF refused THEN wlr_xdg_activation_token_v1_destroy(lnk, k)
               ELSE [lnk EXCEPT !.tok[k] = [q EXCEPT !.st = "issued", !.bound = FALSE, !.timer = TRUE,
                                                     !.done = TRUE],
                                !.unchecked = @ \/ q.bad]

(* token_handle_resource_destroy                                            *)
token_handle_resource_destroy(k) ==
  /\ lnk.tok[k].bound
  /\ lnk' = [wlr_xdg_activation_token_v1_destroy(lnk, k)
               EXCEPT !.lost = @ \/ lnk.tok[k].st = "issued"]

(* token_handle_timeout                                                     *)
token_handle_timeout(k) ==
  lnk.tok[k].timer /\ lnk' = wlr_xdg_activation_token_v1_destroy(lnk, k)

(* wlr_xdg_activation_token_v1_create, _add_token: a token of the           *)
(* compositor's own, added ones without a timer.                            *)
wlr_xdg_activation_v1_add_token(k, timer) ==
  /\ Activation /\ lnk.tok[k] = NoToken
  /\ lnk' = [lnk EXCEPT !.tok[k].st = "issued", !.tok[k].timer = timer]

(* Uses a token and keeps it.                                               *)
activate_keeps(k) ==
  /\ lnk.tok[k].st = "issued" /\ lnk.tok[k].used < 2
  /\ lnk' = [lnk EXCEPT !.tok[k].used = @ + 1]

(* activation_handle_activate: the first use is the last.                   *)
activation_handle_activate(k) ==
  /\ lnk.tok[k].st = "issued" /\ lnk.tok[k].used < 2
  /\ lnk' = wlr_xdg_activation_token_v1_destroy(lnk, k)

LkNext ==
  \/ xdg_exported_handle_resource_destroy \/ token_handle_seat_destroy \/ FocusMoves
  \/ \E t \in LkTop :
       \/ Map(t) \/ Unmap(t) \/ ToplevelDestroy(t) \/ xdg_exporter_handle_export(t)
       \/ \E p \in LkTop \cup {"none"} : xdg_toplevel_handle_set_parent(t, p)
       \/ \E i \in LkImport : xdg_imported_handle_set_parent_of(i, t)
  \/ \E i \in LkImport : \/ xdg_importer_handle_import(i)
                         \/ xdg_imported_handle_resource_destroy(i)
  \/ \E k \in LkToken :
       \/ activation_handle_get_activation_token(k) \/ token_handle_commit(k)
       \/ token_handle_resource_destroy(k) \/ token_handle_timeout(k)
       \/ activation_handle_activate(k)
       \/ \E b \in BOOLEAN : token_handle_set_serial(k, b) \/ wlr_xdg_activation_v1_add_token(k, b)
       \/ \E f \in {"focused", "other"} : token_handle_set_surface(k, f)
  \/ \E f \in {"focused", "other"} : token_handle_surface_destroy(f)

LkSpec == LkInit /\ [][LkNext]_lnk

-----------------------------------------------------------------------------
(* An import records exactly the toplevels it is the parent of, so that     *)
(* destroying it or the exported toplevel takes back those parents and no   *)
(* other; a toplevel reset since then is the exception.  Parents are mapped *)
(* and make no loop.                                                        *)
ParentsRecorded ==
  /\ ~lnk.kept
  /\ \A i \in LkImport :
       /\ lnk.imp[i].live => lnk.exp # "none"
       /\ \A t \in lnk.imp[i].kids : t \in lnk.reset \/ lnk.top[t].parent = lnk.exp
       /\ \A j \in LkImport \ {i} : lnk.imp[i].kids \cap lnk.imp[j].kids \subseteq lnk.reset
  /\ \A t \in LkTop : /\ lnk.top[t].parent # "none" => lnk.top[lnk.top[t].parent].mapped
                      /\ t \notin Ancestors(lnk, lnk.top[t].parent)

(* A token that was given out is used once or times out, whatever becomes   *)
(* of the object it was asked with, and a client that shows a serial or a   *)
(* surface gets one only while they are right (one whose seat or surface is *)
(* gone is not checked).                                                    *)
TokensSound ==
  /\ ~lnk.lost
  /\ \A k \in LkToken : /\ lnk.tok[k].used = 0
                        /\ lnk.tok[k].st = "issued" /\ lnk.tok[k].bad =>
                             ~lnk.tok[k].seat \/ lnk.tok[k].surface = "none"
                        /\ lnk.tok[k].st = "issued" => ~lnk.tok[k].bound
                        /\ lnk.tok[k].done => lnk.tok[k].timer

WindowLinksSound == ParentsRecorded /\ TokensSound
=============================================================================
