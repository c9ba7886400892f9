--------------------------- MODULE Sharing_proofs ---------------------------
(***************************************************************************)
(* Proofs about what clients share: what they learn of each other's windows *)
(* (Windows: the lists of toplevels and workspaces, then parents and        *)
(* activation tokens), and what X11 and Wayland clients exchange (Xwm,      *)
(* XwaylandServer: transfers either way, the owner of the selection, drags, *)
(* and the process itself).  What follows for the shells side by side       *)
(* (MCShells) is at the end of each.  For any number of toplevels, groups,  *)
(* workspaces, exported surfaces, tokens and windows, and data and chunks   *)
(* of any size.                                                             *)
(***************************************************************************)
EXTENDS MCShells, SequenceTheorems, TLAPS

-----------------------------------------------------------------------------
(* What taskbars are told (Windows).                                        *)
TopShape == [on : BOOLEAN, title : {0, 1}, state : {0, 1}, out : BOOLEAN, parent : WlTop \cup {"none"}]
HandleShape == [on : BOOLEAN, title : {0, 1}, state : {0, 1}, out : BOOLEAN, parent : WlTop \cup {"none"},
                more : BOOLEAN]
GroupShape == [on : BOOLEAN, out : BOOLEAN]
SpaceShape == [on : BOOLEAN, group : WlGroup \cup {"none"}, state : {0, 1}]
SpaceHandles == [on : BOOLEAN, groups : SUBSET WlGroup, state : {0, 1}]
WlRequests == [w : WlSpace \cup {"none"}, g : WlGroup \cup {"none"}]
WlShape ==
  [slice : {"toplevels", "list", "workspaces"}, mgr : {"none", "bound", "stopped"}, seen : BOOLEAN,
   idle : SUBSET WlTop, sched : BOOLEAN, top : [WlTop -> TopShape], hnd : [WlTop -> HandleShape],
   grp : [WlGroup -> GroupShape], ghnd : [WlGroup -> GroupShape],
   spc : [WlSpace -> SpaceShape], shnd : [WlSpace -> SpaceHandles], reqs : Seq(WlRequests),
   fresh : BOOLEAN]

(* A toplevel has a parent while it exists, and a parent exists. *)
StandingTop(top, t) ==
  /\ top[t].parent \in WlTop \cup {"none"}
  /\ ~top[t].on => top[t].parent = "none"
  /\ top[t].parent # "none" => top[top[t].parent].on
(* What the handle of t was told is so; its parent may be one the client    *)
(* has no handle of.                                                        *)
Informed(top, hnd, seen, t) ==
  hnd[t].on => /\ top[t].on /\ hnd[t].title = top[t].title /\ hnd[t].state = top[t].state
               /\ hnd[t].out = (top[t].out /\ seen)
               /\ hnd[t].parent # top[t].parent => top[t].parent # "none" /\ ~hnd[top[t].parent].on
TopsSound(top, hnd, idles, seen, tree) ==
  \A t \in WlTop : /\ StandingTop(top, t) /\ (top[t].parent # "none" => tree) /\ Informed(top, hnd, seen, t)
                   /\ hnd[t].on /\ hnd[t].more => t \in idles

GroupsSound(grp, ghnd, seen) ==
  \A g \in WlGroup : ghnd[g].on => grp[g].on /\ ghnd[g].out = (grp[g].out /\ seen)
SpacesSound(grp, ghnd, spc, shnd) ==
  \A w \in WlSpace :
    /\ spc[w].group # "none" => grp[spc[w].group].on
    /\ shnd[w].on => /\ spc[w].on /\ shnd[w].state = spc[w].state
                     /\ shnd[w].groups = {g \in {spc[w].group} \ {"none"} : ghnd[g].on}
ReqsSound(grp, spc, reqs) ==
  \A i \in 1..Len(reqs) : /\ reqs[i].w # "none" => spc[reqs[i].w].on
                          /\ reqs[i].g # "none" => grp[reqs[i].g].on

TaskbarInv(s) == TopsSound(s.top, s.hnd, s.idle, s.seen, s.slice = "toplevels")
SpacesInv(s) ==
  /\ GroupsSound(s.grp, s.ghnd, s.seen) /\ SpacesSound(s.grp, s.ghnd, s.spc, s.shnd)
  /\ ReqsSound(s.grp, s.spc, s.reqs) /\ (s.fresh => s.sched)
WlInv == wls \in WlShape /\ TaskbarInv(wls) /\ SpacesInv(wls)

-----------------------------------------------------------------------------
LEMMA WlTyped ==
  ASSUME NEW s \in WlShape
  PROVE  /\ s.top \in [WlTop -> TopShape] /\ s.hnd \in [WlTop -> HandleShape]
         /\ s.grp \in [WlGroup -> GroupShape] /\ s.ghnd \in [WlGroup -> GroupShape]
         /\ s.spc \in [WlSpace -> SpaceShape] /\ s.shnd \in [WlSpace -> SpaceHandles]
         /\ s.reqs \in Seq(WlRequests) /\ s.idle \in SUBSET WlTop
         /\ s.seen \in BOOLEAN /\ s.sched \in BOOLEAN /\ s.fresh \in BOOLEAN
         /\ s.slice \in {"toplevels", "list", "workspaces"} /\ s.mgr \in {"none", "bound", "stopped"}
BY DEF WlShape

LEMMA WlStarts == WlInit => WlInv
<1> SUFFICES ASSUME NEW sl \in {"toplevels", "list", "workspaces"}, wls = WlState(sl)
             PROVE  WlInv
  BY DEF WlInit
<1>1. /\ NoTop \in TopShape /\ NoHandle \in HandleShape /\ NoGroup \in GroupShape
      /\ NoSpace \in SpaceShape /\ NoSpaceHandle \in SpaceHandles /\ <<>> \in Seq(WlRequests)
  BY DEF NoTop, NoHandle, NoGroup, NoSpace, NoSpaceHandle, TopShape, HandleShape, GroupShape, SpaceShape,
         SpaceHandles
<1>2. wls \in WlShape
  BY <1>1, ZenonT(30) DEF WlState, WlShape
<1>3. /\ wls.top = [t \in WlTop |-> NoTop] /\ wls.hnd = [t \in WlTop |-> NoHandle]
      /\ wls.ghnd = [g \in WlGroup |-> NoGroup] /\ wls.spc = [w \in WlSpace |-> NoSpace]
      /\ wls.shnd = [w \in WlSpace |-> NoSpaceHandle] /\ wls.reqs = <<>> /\ wls.fresh = FALSE
  BY DEF WlState
<1>4. TaskbarInv(wls)
  <2>a. \A t \in WlTop : wls.top[t] = NoTop /\ wls.hnd[t] = NoHandle
    BY <1>3
  <2>b. NoTop.parent = "none" /\ NoHandle.on = FALSE
    BY DEF NoTop, NoHandle
  <2>1. \A t \in WlTop : wls.top[t].parent = "none" /\ ~wls.hnd[t].on
    BY <2>a, <2>b
  <2> QED
    BY <2>1 DEF TaskbarInv, TopsSound, StandingTop, Informed
<1>5. SpacesInv(wls)
  BY <1>3 DEF SpacesInv, GroupsSound, SpacesSound, ReqsSound, NoGroup, NoSpace, NoSpaceHandle
<1> QED
  BY <1>2, <1>4, <1>5 DEF WlInv

LEMMA WlSoundness ==
  ASSUME WlInv
  PROVE  WindowListsSound
<1>1. TaskbarTold
  BY DEF WlInv, TaskbarInv, TopsSound, StandingTop, Informed, TaskbarTold
<1>2. wls.reqs \in Seq(WlRequests)
  BY WlTyped DEF WlInv
<1>3. DOMAIN wls.reqs = 1..Len(wls.reqs)
  BY <1>2
<1>4. WorkspacesTold
  BY <1>3 DEF WlInv, SpacesInv, GroupsSound, SpacesSound, ReqsSound, WorkspacesTold
<1> QED
  BY <1>1, <1>4 DEF WindowListsSound

(* Which fields a step about toplevels leaves.                              *)
SpacesRest(s, u) ==
  /\ u.grp = s.grp /\ u.ghnd = s.ghnd /\ u.spc = s.spc /\ u.shnd = s.shnd /\ u.reqs = s.reqs
  /\ u.sched = s.sched /\ u.fresh = s.fresh
TopsRest(s, u) == u.top = s.top /\ u.hnd = s.hnd /\ u.idle = s.idle

LEMMA SpacesResting ==
  ASSUME NEW s, NEW u, SpacesInv(s), SpacesRest(s, u), u.seen = s.seen
  PROVE  SpacesInv(u)
BY DEF SpacesInv, SpacesRest

LEMMA TopsResting ==
  ASSUME NEW s, NEW u, TaskbarInv(s), TopsRest(s, u), u.seen = s.seen, u.slice = s.slice
  PROVE  TaskbarInv(u)
BY DEF TaskbarInv, TopsRest

(* A step about toplevels. *)
LEMMA TopStepping ==
  ASSUME NEW s \in WlShape, NEW top \in [WlTop -> TopShape], NEW hnd \in [WlTop -> HandleShape],
         NEW idles \in SUBSET WlTop, NEW mgr \in {"none", "bound", "stopped"}, SpacesInv(s),
         TopsSound(top, hnd, idles, s.seen, s.slice = "toplevels"),
         NEW u, u = [s EXCEPT !.top = top, !.hnd = hnd, !.idle = idles, !.mgr = mgr]
  PROVE  u \in WlShape /\ TaskbarInv(u) /\ SpacesInv(u)
<1>1. u \in WlShape
  BY DEF WlShape
<1>2. u.top = top /\ u.hnd = hnd /\ u.idle = idles /\ u.seen = s.seen /\ u.slice = s.slice /\ SpacesRest(s, u)
  BY DEF WlShape, SpacesRest
<1> QED
  BY <1>1, <1>2, SpacesResting DEF TaskbarInv

(* One toplevel and its handle change, not their parents.                   *)
OnlyAt(f, F, t) == \A u \in WlTop \ {t} : F[u] = f[u]
Renews(x, h, X, H, seen) ==
  /\ X.on = x.on /\ X.parent = x.parent /\ H.on = h.on /\ H.parent = h.parent
  /\ H.on => X.title = H.title /\ X.state = H.state /\ H.out = (X.out /\ seen)

LEMMA OneChanged ==
  ASSUME NEW top \in [WlTop -> TopShape], NEW hnd \in [WlTop -> HandleShape], NEW idles, NEW seen \in BOOLEAN, NEW tree,
         TopsSound(top, hnd, idles, seen, tree),
         NEW T \in [WlTop -> TopShape], NEW H \in [WlTop -> HandleShape], NEW I, NEW t \in WlTop,
         OnlyAt(top, T, t), OnlyAt(hnd, H, t),
         Renews(top[t], hnd[t], T[t], H[t], seen), idles \ {t} \subseteq I,
         H[t].on /\ H[t].more => t \in I
  PROVE  TopsSound(T, H, I, seen, tree)
<1> SUFFICES ASSUME NEW u \in WlTop
             PROVE  /\ StandingTop(T, u) /\ (T[u].parent # "none" => tree) /\ Informed(T, H, seen, u)
                    /\ H[u].on /\ H[u].more => u \in I
  BY DEF TopsSound
<1>1. \A v \in WlTop : T[v].on = top[v].on /\ T[v].parent = top[v].parent /\ H[v].on = hnd[v].on
                      /\ H[v].parent = hnd[v].parent
  BY DEF OnlyAt, Renews
<1>2. StandingTop(top, u) /\ (top[u].parent # "none" => tree) /\ Informed(top, hnd, seen, u) /\ (hnd[u].on /\ hnd[u].more => u \in idles)
  BY DEF TopsSound
<1>3. StandingTop(T, u)
  BY <1>1, <1>2 DEF StandingTop
<1>4. CASE u = t
  <2>1. Informed(T, H, seen, u)
    BY <1>1, <1>2, <1>4 DEF Informed, Renews, StandingTop, TopShape, HandleShape
  <2> QED
    BY <1>1, <1>2, <1>3, <1>4, <2>1
<1>5. CASE u # t
  <2>1. T[u] = top[u] /\ H[u] = hnd[u]
    BY <1>5 DEF OnlyAt
  <2>2. Informed(T, H, seen, u)
    BY <1>1, <1>2, <2>1 DEF Informed, StandingTop
  <2> QED
    BY <1>2, <1>3, <1>5, <2>1, <2>2
<1> QED
  BY <1>4, <1>5

LEMMA TitleKept ==
  ASSUME WlInv, NEW t \in WlTop, wlr_foreign_toplevel_handle_v1_set_title(t)
  PROVE  WlInv'
<1> DEFINE v == 1 - wls.top[t].title
           x == wls.top[t]
           h == wls.hnd[t]
           X == [x EXCEPT !.title = v]
           Y == Told(h, [h EXCEPT !.title = v])
           T == [wls.top EXCEPT ![t] = X]
           H == [wls.hnd EXCEPT ![t] = Y]
           I == wls.idle \cup {t}
<1>t. /\ wls \in WlShape /\ wls.top \in [WlTop -> TopShape] /\ wls.hnd \in [WlTop -> HandleShape]
      /\ wls.idle \in SUBSET WlTop /\ wls.seen \in BOOLEAN /\ wls.mgr \in {"none", "bound", "stopped"}
      /\ TopsSound(wls.top, wls.hnd, wls.idle, wls.seen, Tops) /\ SpacesInv(wls)
  BY WlTyped DEF WlInv, TaskbarInv, Tops
<1>1. x \in TopShape /\ h \in HandleShape
  BY <1>t
<1>2. X \in TopShape /\ X.on = x.on /\ X.parent = x.parent /\ X.title = v /\ X.state = x.state /\ X.out = x.out
  BY <1>1 DEF TopShape
<1>v. v \in {0, 1}
  BY <1>1 DEF TopShape
<1>3. Y \in HandleShape /\ Y.on = h.on /\ Y.parent = h.parent /\ Y.state = h.state /\ Y.out = h.out
      /\ (h.on => Y.title = v)
  <2> HIDE DEF v
  <2> QED
    BY <1>1, <1>v DEF HandleShape, Told
<1>4. wls' = [wls EXCEPT !.top = T, !.hnd = H, !.idle = I, !.mgr = wls.mgr]
  BY <1>t DEF wlr_foreign_toplevel_handle_v1_set_title, toplevel_update_idle_source, WlShape
<1> HIDE DEF X, Y
<1>5. /\ T \in [WlTop -> TopShape] /\ H \in [WlTop -> HandleShape] /\ I \in SUBSET WlTop
      /\ OnlyAt(wls.top, T, t) /\ OnlyAt(wls.hnd, H, t) /\ T[t] = X /\ H[t] = Y /\ wls.idle \ {t} \subseteq I
      /\ t \in I
  BY <1>t, <1>2, <1>3 DEF OnlyAt
<1>6. Informed(wls.top, wls.hnd, wls.seen, t)
  BY <1>t DEF TopsSound
<1>7. Renews(wls.top[t], wls.hnd[t], T[t], H[t], wls.seen)
  BY <1>2, <1>3, <1>5, <1>6 DEF Renews, Informed
<1> HIDE DEF T, H, I
<1>8. TopsSound(T, H, I, wls.seen, Tops)
  BY <1>t, <1>5, <1>7, OneChanged
<1> QED
  BY ZenonT(60), <1>t, <1>4, <1>5, <1>8, TopStepping DEF WlInv, Tops

LEMMA StateKept ==
  ASSUME WlInv, NEW t \in WlTop, NEW v \in {0, 1}, set_state(t, v)
  PROVE  WlInv'
<1> DEFINE x == wls.top[t]
           h == wls.hnd[t]
           X == [x EXCEPT !.state = v]
           Y == Told(h, [h EXCEPT !.state = v])
           T == [wls.top EXCEPT ![t] = X]
           H == [wls.hnd EXCEPT ![t] = Y]
           I == wls.idle \cup {t}
<1>t. /\ wls \in WlShape /\ wls.top \in [WlTop -> TopShape] /\ wls.hnd \in [WlTop -> HandleShape]
      /\ wls.idle \in SUBSET WlTop /\ wls.seen \in BOOLEAN /\ wls.mgr \in {"none", "bound", "stopped"}
      /\ TopsSound(wls.top, wls.hnd, wls.idle, wls.seen, Tops) /\ SpacesInv(wls)
  BY WlTyped DEF WlInv, TaskbarInv, Tops
<1>1. x \in TopShape /\ h \in HandleShape
  BY <1>t
<1>2. X \in TopShape /\ X.on = x.on /\ X.parent = x.parent /\ X.title = x.title /\ X.state = v /\ X.out = x.out
  BY <1>1 DEF TopShape
<1>3. Y \in HandleShape /\ Y.on = h.on /\ Y.parent = h.parent /\ Y.title = h.title /\ Y.out = h.out
      /\ (h.on => Y.state = v)
  BY <1>1 DEF HandleShape, Told
<1>4. wls' = [wls EXCEPT !.top = T, !.hnd = H, !.idle = I, !.mgr = wls.mgr]
  BY <1>t DEF set_state, toplevel_update_idle_source, WlShape
<1> HIDE DEF X, Y
<1>5. /\ T \in [WlTop -> TopShape] /\ H \in [WlTop -> HandleShape] /\ I \in SUBSET WlTop
      /\ OnlyAt(wls.top, T, t) /\ OnlyAt(wls.hnd, H, t) /\ T[t] = X /\ H[t] = Y /\ wls.idle \ {t} \subseteq I
      /\ t \in I
  BY <1>t, <1>2, <1>3 DEF OnlyAt
<1>6. Informed(wls.top, wls.hnd, wls.seen, t)
  BY <1>t DEF TopsSound
<1>7. Renews(wls.top[t], wls.hnd[t], T[t], H[t], wls.seen)
  BY <1>2, <1>3, <1>5, <1>6 DEF Renews, Informed
<1> HIDE DEF T, H, I
<1>8. TopsSound(T, H, I, wls.seen, Tops)
  BY <1>t, <1>5, <1>7, OneChanged
<1> QED
  BY ZenonT(60), <1>t, <1>4, <1>5, <1>8, TopStepping DEF WlInv, Tops

LEMMA OutputTold ==
  ASSUME WlInv, NEW t \in WlTop, NEW enter \in BOOLEAN, ToplevelOutput(t, enter)
  PROVE  WlInv'
<1> DEFINE x == wls.top[t]
           h == wls.hnd[t]
           X == [x EXCEPT !.out = enter]
           T == [wls.top EXCEPT ![t] = X]
           H == [u \in WlTop |-> IF u \in {t} /\ wls.seen THEN Told(wls.hnd[u], [wls.hnd[u] EXCEPT !.out = enter])
                                 ELSE wls.hnd[u]]
           I == wls.idle \cup {t}
<1>t. /\ wls \in WlShape /\ wls.top \in [WlTop -> TopShape] /\ wls.hnd \in [WlTop -> HandleShape]
      /\ wls.idle \in SUBSET WlTop /\ wls.seen \in BOOLEAN /\ wls.mgr \in {"none", "bound", "stopped"}
      /\ TopsSound(wls.top, wls.hnd, wls.idle, wls.seen, Tops) /\ SpacesInv(wls)
  BY WlTyped DEF WlInv, TaskbarInv, Tops
<1>1. x \in TopShape /\ h \in HandleShape
  BY <1>t
<1>2. X \in TopShape /\ X.on = x.on /\ X.parent = x.parent /\ X.title = x.title /\ X.state = x.state /\ X.out = enter
  BY <1>1 DEF TopShape
<1>4. wls' = [wls EXCEPT !.top = T, !.hnd = H, !.idle = I, !.mgr = wls.mgr]
  BY <1>t DEF ToplevelOutput, toplevel_send_output, toplevel_update_idle_source, WlShape
<1>h. ASSUME NEW g \in HandleShape
      PROVE  LET Y == Told(g, [g EXCEPT !.out = enter]) IN
             /\ Y \in HandleShape /\ Y.on = g.on /\ Y.parent = g.parent /\ Y.title = g.title /\ Y.state = g.state
             /\ g.on => Y.out = enter
  BY <1>h DEF HandleShape, Told
<1>3. /\ H[t].on = h.on /\ H[t].parent = h.parent /\ H[t].title = h.title /\ H[t].state = h.state
      /\ (h.on => H[t].out = IF wls.seen THEN enter ELSE h.out)
  <2>1. CASE wls.seen
    BY <1>1, <1>h, <2>1
  <2>2. CASE ~wls.seen
    BY <1>1, <2>2
  <2> QED
    BY <1>t, <2>1, <2>2
<1>7. H \in [WlTop -> HandleShape] /\ OnlyAt(wls.hnd, H, t)
  <2>1. \A u \in WlTop : wls.hnd[u] \in HandleShape
    BY <1>t
  <2>2. \A u \in WlTop : Told(wls.hnd[u], [wls.hnd[u] EXCEPT !.out = enter]) \in HandleShape
    BY <1>h, <2>1
  <2> QED
    BY <2>1, <2>2 DEF OnlyAt
<1> HIDE DEF X, H
<1>5. /\ T \in [WlTop -> TopShape] /\ I \in SUBSET WlTop
      /\ OnlyAt(wls.top, T, t) /\ T[t] = X /\ wls.idle \ {t} \subseteq I
      /\ t \in I
  BY <1>t, <1>2 DEF OnlyAt
<1>6. Informed(wls.top, wls.hnd, wls.seen, t)
  BY <1>t DEF TopsSound
<1>a. X.on = x.on /\ h.on \in BOOLEAN /\ h.out \in BOOLEAN
  BY <1>1, <1>2 DEF HandleShape
<1>9. h.on => H[t].out = (X.out /\ wls.seen)
  BY <1>t, <1>1, <1>2, <1>3, <1>6, <1>a DEF Informed
<1>b. Renews(wls.top[t], wls.hnd[t], T[t], H[t], wls.seen)
  BY <1>2, <1>3, <1>5, <1>6, <1>9 DEF Renews, Informed
<1> HIDE DEF T, I
<1>8. TopsSound(T, H, I, wls.seen, Tops)
  BY <1>t, <1>5, <1>7, <1>b, OneChanged
<1> QED
  BY ZenonT(60), <1>t, <1>4, <1>5, <1>7, <1>8, TopStepping DEF WlInv, Tops

LEMMA UpdateKept ==
  ASSUME WlInv, NEW t \in WlTop, wlr_ext_foreign_toplevel_handle_v1_update_state(t)
  PROVE  WlInv'
<1> DEFINE x == wls.top[t]
           h == wls.hnd[t]
           v == 1 - x.title
           X == [x EXCEPT !.title = v]
           Y == [h EXCEPT !.title = IF h.on THEN 1 - h.title ELSE h.title]
           T == [wls.top EXCEPT ![t] = X]
           H == [wls.hnd EXCEPT ![t] = Y]
<1>t. /\ wls \in WlShape /\ wls.top \in [WlTop -> TopShape] /\ wls.hnd \in [WlTop -> HandleShape]
      /\ wls.idle \in SUBSET WlTop /\ wls.seen \in BOOLEAN /\ wls.mgr \in {"none", "bound", "stopped"}
      /\ TopsSound(wls.top, wls.hnd, wls.idle, wls.seen, Tops) /\ SpacesInv(wls)
  BY WlTyped DEF WlInv, TaskbarInv, Tops
<1>1. x \in TopShape /\ h \in HandleShape
  BY <1>t
<1>2. X \in TopShape /\ X.on = x.on /\ X.parent = x.parent /\ X.title = v /\ X.state = x.state /\ X.out = x.out
  BY <1>1 DEF TopShape
<1>3. Y \in HandleShape /\ Y.on = h.on /\ Y.parent = h.parent /\ Y.state = h.state /\ Y.out = h.out
      /\ (h.on => Y.title = 1 - h.title) /\ Y.more = h.more
  BY <1>1 DEF HandleShape
<1>4. wls' = [wls EXCEPT !.top = T, !.hnd = H, !.idle = wls.idle, !.mgr = wls.mgr]
  BY <1>t DEF wlr_ext_foreign_toplevel_handle_v1_update_state, WlShape
<1> HIDE DEF X, Y
<1>5. /\ T \in [WlTop -> TopShape] /\ H \in [WlTop -> HandleShape]
      /\ OnlyAt(wls.top, T, t) /\ OnlyAt(wls.hnd, H, t) /\ T[t] = X /\ H[t] = Y
  BY <1>t, <1>2, <1>3 DEF OnlyAt
<1>6. Informed(wls.top, wls.hnd, wls.seen, t) /\ (h.on /\ h.more => t \in wls.idle)
  BY <1>t DEF TopsSound
<1>7. Renews(wls.top[t], wls.hnd[t], T[t], H[t], wls.seen) /\ (H[t].on /\ H[t].more => t \in wls.idle)
  BY <1>2, <1>3, <1>5, <1>6 DEF Renews, Informed
<1> HIDE DEF T, H
<1>8. TopsSound(T, H, wls.idle, wls.seen, Tops)
  BY <1>t, <1>5, <1>7, OneChanged
<1> QED
  BY ZenonT(60), <1>t, <1>4, <1>5, <1>8, TopStepping DEF WlInv, Tops

LEMMA DoneKept ==
  ASSUME WlInv, NEW t \in WlTop, toplevel_idle_send_done(t)
  PROVE  WlInv'
<1> DEFINE h == wls.hnd[t]
           Y == [h EXCEPT !.more = FALSE]
           H == [wls.hnd EXCEPT ![t] = Y]
           I == wls.idle \ {t}
<1>t. /\ wls \in WlShape /\ wls.top \in [WlTop -> TopShape] /\ wls.hnd \in [WlTop -> HandleShape]
      /\ wls.idle \in SUBSET WlTop /\ wls.seen \in BOOLEAN /\ wls.mgr \in {"none", "bound", "stopped"}
      /\ TopsSound(wls.top, wls.hnd, wls.idle, wls.seen, Tops) /\ SpacesInv(wls)
  BY WlTyped DEF WlInv, TaskbarInv, Tops
<1>1. h \in HandleShape
  BY <1>t
<1>3. Y \in HandleShape /\ Y.on = h.on /\ Y.parent = h.parent /\ Y.state = h.state /\ Y.out = h.out
      /\ Y.title = h.title /\ Y.more = FALSE
  BY <1>1 DEF HandleShape
<1>4. wls' = [wls EXCEPT !.top = wls.top, !.hnd = H, !.idle = I, !.mgr = wls.mgr]
  BY <1>t DEF toplevel_idle_send_done, WlShape
<1> HIDE DEF Y
<1>5. /\ H \in [WlTop -> HandleShape] /\ OnlyAt(wls.top, wls.top, t) /\ OnlyAt(wls.hnd, H, t) /\ H[t] = Y
      /\ I \in SUBSET WlTop /\ wls.idle \ {t} \subseteq I
  BY <1>t, <1>3 DEF OnlyAt
<1>6. Informed(wls.top, wls.hnd, wls.seen, t)
  BY <1>t DEF TopsSound
<1>7. Renews(wls.top[t], wls.hnd[t], wls.top[t], H[t], wls.seen) /\ (H[t].on /\ H[t].more => t \in I)
  BY <1>3, <1>5, <1>6 DEF Renews, Informed
<1> HIDE DEF H, I
<1>8. TopsSound(wls.top, H, I, wls.seen, Tops)
  <2> DEFINE T == wls.top
  <2>1. /\ T \in [WlTop -> TopShape] /\ TopsSound(T, wls.hnd, wls.idle, wls.seen, Tops) /\ OnlyAt(T, T, t)
        /\ Renews(T[t], wls.hnd[t], T[t], H[t], wls.seen)
    BY <1>t, <1>5, <1>7
  <2> HIDE DEF T
  <2>2. TopsSound(T, H, I, wls.seen, Tops)
    BY <1>t, <1>5, <1>7, <2>1, OneChanged
  <2> QED
    BY <2>2 DEF T
<1> QED
  BY ZenonT(60), <1>t, <1>4, <1>5, <1>8, TopStepping DEF WlInv, Tops

(* A toplevel appears, with or without a handle. *)
Appears(t) ==
  LET s == [wls EXCEPT !.top[t] = [NoTop EXCEPT !.on = TRUE]]
  IN wls' = IF s.mgr = "bound" THEN create_toplevel_resource(s, t) ELSE s

LEMMA NewKept ==
  ASSUME WlInv, NEW t \in WlTop, ~wls.top[t].on, ~wls.hnd[t].on, Appears(t)
  PROVE  WlInv'
<1> DEFINE X == [NoTop EXCEPT !.on = TRUE]
           Y == IF wls.mgr = "bound" THEN [NoHandle EXCEPT !.on = TRUE] ELSE wls.hnd[t]
           T == [wls.top EXCEPT ![t] = X]
           H == [wls.hnd EXCEPT ![t] = Y]
<1>t. /\ wls \in WlShape /\ wls.top \in [WlTop -> TopShape] /\ wls.hnd \in [WlTop -> HandleShape]
      /\ wls.idle \in SUBSET WlTop /\ wls.seen \in BOOLEAN /\ wls.mgr \in {"none", "bound", "stopped"}
      /\ TopsSound(wls.top, wls.hnd, wls.idle, wls.seen, Tops) /\ SpacesInv(wls)
  BY WlTyped DEF WlInv, TaskbarInv, Tops
<1>1. /\ X \in TopShape /\ X.on = TRUE /\ X.parent = "none" /\ X.title = 0 /\ X.state = 0 /\ X.out = FALSE
  BY DEF TopShape, NoTop
<1>2. /\ Y \in HandleShape
      /\ Y.on => Y.parent = "none" /\ Y.title = 0 /\ Y.state = 0 /\ Y.out = FALSE /\ Y.more = FALSE
  <2>1. [NoHandle EXCEPT !.on = TRUE] \in HandleShape /\ wls.hnd[t] \in HandleShape
    BY <1>t DEF HandleShape, NoHandle
  <2> QED
    BY <2>1 DEF HandleShape, NoHandle
<1>4. wls' = [wls EXCEPT !.top = T, !.hnd = H, !.idle = wls.idle, !.mgr = wls.mgr]
  <2>1. CASE wls.mgr = "bound"
    BY <1>t, <2>1 DEF create_toplevel_resource, WlShape, Appears
  <2>2. CASE wls.mgr # "bound"
    BY <1>t, <2>2 DEF WlShape, Appears
  <2> QED
    BY <2>1, <2>2
<1> HIDE DEF X, Y
<1>5. /\ T \in [WlTop -> TopShape] /\ H \in [WlTop -> HandleShape] /\ T[t] = X /\ H[t] = Y
      /\ \A u \in WlTop \ {t} : T[u] = wls.top[u] /\ H[u] = wls.hnd[u]
  BY <1>t, <1>1, <1>2
<1>6. \A u \in WlTop : wls.top[u].parent # t
  BY <1>t, ListsAssumption DEF TopsSound, StandingTop
<1> HIDE DEF T, H
<1>7. ASSUME NEW u \in WlTop
      PROVE  /\ StandingTop(T, u) /\ (T[u].parent # "none" => Tops) /\ Informed(T, H, wls.seen, u)
             /\ H[u].on /\ H[u].more => u \in wls.idle
  <2>1. CASE u = t
    BY <1>1, <1>2, <1>5, <2>1 DEF StandingTop, Informed
  <2>2. CASE u # t
    <3>1. StandingTop(wls.top, u) /\ (wls.top[u].parent # "none" => Tops) /\ Informed(wls.top, wls.hnd, wls.seen, u)
          /\ (wls.hnd[u].on /\ wls.hnd[u].more => u \in wls.idle)
      BY <1>t DEF TopsSound
    <3>2. T[u] = wls.top[u] /\ H[u] = wls.hnd[u]
      BY <1>5, <2>2
    <3>3. wls.top[u].parent # "none" =>
            T[wls.top[u].parent] = wls.top[wls.top[u].parent] /\ H[wls.top[u].parent] = wls.hnd[wls.top[u].parent]
      BY <1>5, <1>6, <3>1 DEF StandingTop
    <3> QED
      BY <3>1, <3>2, <3>3 DEF StandingTop, Informed
  <2> QED
    BY <2>1, <2>2
<1>8. TopsSound(T, H, wls.idle, wls.seen, Tops)
  BY <1>7 DEF TopsSound
<1> QED
  BY ZenonT(60), <1>t, <1>4, <1>5, <1>8, TopStepping DEF WlInv, Tops

LEMMA HandleGone ==
  ASSUME WlInv, NEW t \in WlTop, foreign_toplevel_resource_destroy(t)
  PROVE  WlInv'
<1> DEFINE H == [wls.hnd EXCEPT ![t] = NoHandle]
           T == wls.top
<1>t. /\ wls \in WlShape /\ wls.top \in [WlTop -> TopShape] /\ wls.hnd \in [WlTop -> HandleShape]
      /\ wls.idle \in SUBSET WlTop /\ wls.seen \in BOOLEAN /\ wls.mgr \in {"none", "bound", "stopped"}
      /\ TopsSound(wls.top, wls.hnd, wls.idle, wls.seen, Tops) /\ SpacesInv(wls)
  BY WlTyped DEF WlInv, TaskbarInv, Tops
<1>1. NoHandle \in HandleShape /\ ~NoHandle.on
  BY DEF HandleShape, NoHandle
<1>4. wls' = [wls EXCEPT !.top = T, !.hnd = H, !.idle = wls.idle, !.mgr = wls.mgr]
  BY <1>t DEF foreign_toplevel_resource_destroy, WlShape
<1>5. /\ H \in [WlTop -> HandleShape] /\ ~H[t].on
      /\ \A u \in WlTop \ {t} : H[u] = wls.hnd[u]
  BY <1>t, <1>1
<1> HIDE DEF H
<1>7. ASSUME NEW u \in WlTop
      PROVE  /\ StandingTop(T, u) /\ (T[u].parent # "none" => Tops) /\ Informed(T, H, wls.seen, u)
             /\ H[u].on /\ H[u].more => u \in wls.idle
  <2>1. StandingTop(wls.top, u) /\ (wls.top[u].parent # "none" => Tops) /\ Informed(wls.top, wls.hnd, wls.seen, u)
        /\ (wls.hnd[u].on /\ wls.hnd[u].more => u \in wls.idle)
    BY <1>t DEF TopsSound
  <2>2. wls.top[u].parent # "none" /\ ~wls.hnd[wls.top[u].parent].on => ~H[wls.top[u].parent].on
    BY <1>5, <2>1 DEF StandingTop
  <2>3. CASE u = t
    BY <1>5, <2>1, <2>3 DEF Informed
  <2>4. CASE u # t
    BY <1>5, <2>1, <2>2, <2>4 DEF Informed
  <2> QED
    BY <2>3, <2>4
<1>8. TopsSound(T, H, wls.idle, wls.seen, Tops)
  BY <1>7 DEF TopsSound
<1> QED
  BY ZenonT(60), <1>t, <1>4, <1>5, <1>8, TopStepping DEF WlInv, Tops

(* A client binds the manager and is told of all toplevels. *)
LEMMA SendAllKept ==
  ASSUME WlInv, \A t \in WlTop : ~wls.hnd[t].on, wls' = SendAll(wls, LiveTops(wls))
  PROVE  WlInv'
<1> DEFINE D(t) == toplevel_send_details(wls, t, LiveTops(wls))
           H == [t \in WlTop |-> IF wls.top[t].on THEN D(t) ELSE wls.hnd[t]]
           T == wls.top
<1>t. /\ wls \in WlShape /\ wls.top \in [WlTop -> TopShape] /\ wls.hnd \in [WlTop -> HandleShape]
      /\ wls.idle \in SUBSET WlTop /\ wls.seen \in BOOLEAN /\ wls.mgr \in {"none", "bound", "stopped"}
      /\ TopsSound(wls.top, wls.hnd, wls.idle, wls.seen, Tops) /\ SpacesInv(wls)
  BY WlTyped DEF WlInv, TaskbarInv, Tops
<1>1. ASSUME NEW t \in WlTop
      PROVE  /\ D(t) \in HandleShape /\ D(t).on = TRUE /\ D(t).more = FALSE /\ D(t).title = wls.top[t].title
             /\ D(t).state = wls.top[t].state /\ D(t).out = (wls.top[t].out /\ wls.seen)
             /\ D(t).parent = wls.top[t].parent
  <2>1. wls.top[t] \in TopShape /\ StandingTop(wls.top, t)
    BY <1>t DEF TopsSound
  <2> DEFINE p == IF wls.top[t].parent \in LiveTops(wls) THEN wls.top[t].parent ELSE "none"
  <2>2. p = wls.top[t].parent
    BY <2>1 DEF StandingTop, LiveTops
  <2>3. D(t) = [on |-> TRUE, title |-> wls.top[t].title, state |-> wls.top[t].state,
                out |-> wls.top[t].out /\ wls.seen, parent |-> p, more |-> FALSE]
    BY DEF toplevel_send_details
  <2> HIDE DEF p, D
  <2> QED
    BY <1>t, <2>1, <2>2, <2>3 DEF HandleShape, TopShape
<1>4. wls' = [wls EXCEPT !.top = T, !.hnd = H, !.idle = wls.idle, !.mgr = "bound"]
  <2> HIDE DEF D
  <2> QED
    BY <1>t DEF SendAll, WlShape, D
<1> HIDE DEF D
<1>5. H \in [WlTop -> HandleShape] /\ \A t \in WlTop : H[t] = IF wls.top[t].on THEN D(t) ELSE wls.hnd[t]
  BY <1>t, <1>1
<1> HIDE DEF H
<1>7. ASSUME NEW u \in WlTop
      PROVE  /\ StandingTop(T, u) /\ (T[u].parent # "none" => Tops) /\ Informed(T, H, wls.seen, u)
             /\ H[u].on /\ H[u].more => u \in wls.idle
  <2>1. StandingTop(wls.top, u) /\ (wls.top[u].parent # "none" => Tops)
    BY <1>t DEF TopsSound
  <2>2. CASE wls.top[u].on
    BY <1>1, <1>5, <2>1, <2>2 DEF Informed
  <2>3. CASE ~wls.top[u].on
    BY <1>5, <2>1, <2>3 DEF Informed
  <2> QED
    BY <2>2, <2>3
<1>8. TopsSound(T, H, wls.idle, wls.seen, Tops)
  BY <1>7 DEF TopsSound
<1>9. TopsSound(T, H, wls.idle, wls.seen, wls.slice = "toplevels")
  BY <1>8 DEF Tops
<1>10. /\ wls' \in WlShape /\ wls'.top = T /\ wls'.hnd = H /\ wls'.idle = wls.idle /\ wls'.seen = wls.seen
       /\ wls'.slice = wls.slice /\ SpacesRest(wls, wls')
  BY <1>t, <1>4, <1>5 DEF WlShape, SpacesRest
<1>11. TaskbarInv(wls')
  BY <1>9, <1>10 DEF TaskbarInv
<1>12. SpacesInv(wls')
  BY <1>t, <1>10, SpacesResting
<1> QED
  BY <1>10, <1>11, <1>12 DEF WlInv

(* All is sound but the parents of some toplevels, which change.            *)
Described(top, hnd, seen, t) ==
  hnd[t].on => /\ top[t].on /\ hnd[t].title = top[t].title /\ hnd[t].state = top[t].state
               /\ hnd[t].out = (top[t].out /\ seen)
SoundBut(s, ts) ==
  \A t \in WlTop : /\ Described(s.top, s.hnd, s.seen, t) /\ (s.hnd[t].on /\ s.hnd[t].more => t \in s.idle)
                   /\ t \notin ts => StandingTop(s.top, t) /\ Informed(s.top, s.hnd, s.seen, t)

(* Toplevels get another parent. *)
Reparented(s, n) ==
  /\ n = [s EXCEPT !.top = n.top, !.hnd = n.hnd, !.idle = n.idle, !.mgr = s.mgr]
  /\ n.top \in [WlTop -> TopShape] /\ n.hnd \in [WlTop -> HandleShape] /\ n.idle \in SUBSET WlTop
  /\ TopsSound(n.top, n.hnd, n.idle, s.seen, TRUE)

LEMMA ParentsSet ==
  ASSUME NEW s \in WlShape, NEW ts \in SUBSET LiveTops(s),
         NEW p \in LiveTops(s) \cup {"none"}, SoundBut(s, ts)
  PROVE  Reparented(s, wlr_foreign_toplevel_handle_v1_set_parent(s, ts, p))
<1> DEFINE F(h) == toplevel_resource_send_parent(s, h, p)
           T == [t \in WlTop |-> IF t \in ts THEN [s.top[t] EXCEPT !.parent = p] ELSE s.top[t]]
           H == [t \in WlTop |-> IF t \in ts THEN F(s.hnd[t]) ELSE s.hnd[t]]
           I == s.idle \cup ts
           n == wlr_foreign_toplevel_handle_v1_set_parent(s, ts, p)
<1>t. /\ s.top \in [WlTop -> TopShape] /\ s.hnd \in [WlTop -> HandleShape]
      /\ s.idle \in SUBSET WlTop /\ s.seen \in BOOLEAN /\ ts \in SUBSET WlTop /\ p \in WlTop \cup {"none"}
  BY WlTyped DEF LiveTops
<1>1. n = [s EXCEPT !.top = T, !.hnd = H, !.idle = I]
  <2> HIDE DEF F
  <2> QED
    BY <1>t DEF wlr_foreign_toplevel_handle_v1_set_parent, toplevel_update_idle_source, WlShape, F
<1>2. ASSUME NEW h \in HandleShape
      PROVE  /\ F(h) \in HandleShape /\ F(h).on = h.on /\ F(h).title = h.title /\ F(h).state = h.state
             /\ F(h).out = h.out
             /\ (h.on => F(h).parent = p \/ (p # "none" /\ ~s.hnd[p].on))
  <2>1. CASE p = "none" \/ s.hnd[p].on
    BY <1>t, <1>2, <2>1 DEF toplevel_resource_send_parent, Told, HandleShape
  <2>2. CASE ~(p = "none" \/ s.hnd[p].on)
    <3>1. F(h) = h
      BY <2>2 DEF toplevel_resource_send_parent
    <3> QED
      BY <2>2, <3>1
  <2> QED
    BY <2>1, <2>2
<1>3. \A t \in WlTop : /\ s.top[t] \in TopShape /\ s.hnd[t] \in HandleShape
                       /\ [s.top[t] EXCEPT !.parent = p] \in TopShape
  BY <1>t DEF TopShape
<1> HIDE DEF F
<1>4. /\ T \in [WlTop -> TopShape] /\ H \in [WlTop -> HandleShape] /\ I \in SUBSET WlTop
      /\ \A t \in WlTop : T[t] = IF t \in ts THEN [s.top[t] EXCEPT !.parent = p] ELSE s.top[t]
      /\ \A t \in WlTop : H[t] = IF t \in ts THEN F(s.hnd[t]) ELSE s.hnd[t]
  BY <1>t, <1>2, <1>3
<1>5. \A t \in WlTop : /\ T[t].on = s.top[t].on /\ T[t].title = s.top[t].title /\ T[t].state = s.top[t].state
                       /\ T[t].out = s.top[t].out /\ T[t].parent = (IF t \in ts THEN p ELSE s.top[t].parent)
                       /\ H[t].on = s.hnd[t].on /\ H[t].title = s.hnd[t].title /\ H[t].state = s.hnd[t].state
                       /\ H[t].out = s.hnd[t].out
  <2> SUFFICES ASSUME NEW t \in WlTop
               PROVE  /\ T[t].on = s.top[t].on /\ T[t].title = s.top[t].title /\ T[t].state = s.top[t].state
                      /\ T[t].out = s.top[t].out /\ T[t].parent = (IF t \in ts THEN p ELSE s.top[t].parent)
                      /\ H[t].on = s.hnd[t].on /\ H[t].title = s.hnd[t].title /\ H[t].state = s.hnd[t].state
                      /\ H[t].out = s.hnd[t].out
    OBVIOUS
  <2>1. s.top[t] \in TopShape /\ s.hnd[t] \in HandleShape
    BY <1>3
  <2>2. CASE t \in ts
    <3>1. T[t] = [s.top[t] EXCEPT !.parent = p] /\ H[t] = F(s.hnd[t])
      BY <1>4, <2>2
    <3>2. /\ H[t].on = s.hnd[t].on /\ H[t].title = s.hnd[t].title /\ H[t].state = s.hnd[t].state
          /\ H[t].out = s.hnd[t].out
      BY <1>2, <2>1, <3>1
    <3> HIDE DEF T, H
    <3> QED
      BY <2>1, <2>2, <3>1, <3>2 DEF TopShape
  <2>3. CASE t \notin ts
    BY <1>4, <2>3
  <2> QED
    BY <2>2, <2>3
<1> HIDE DEF T, H, I, n
<1>6. ASSUME NEW u \in WlTop
      PROVE  /\ StandingTop(T, u) /\ Informed(T, H, s.seen, u) /\ (H[u].on /\ H[u].more => u \in I)
  <2>0. Described(s.top, s.hnd, s.seen, u) /\ (s.hnd[u].on /\ s.hnd[u].more => u \in s.idle)
    BY DEF SoundBut
  <2>2. CASE u \in ts
    <3>1. s.top[u].on /\ T[u].parent = p /\ T[u].on = s.top[u].on /\ u \in I
      BY <1>5, <2>2 DEF LiveTops, I
    <3>2. StandingTop(T, u)
      BY <1>t, <1>5, <3>1 DEF StandingTop, LiveTops
    <3>3. s.hnd[u].on => H[u].parent = p \/ (p # "none" /\ ~s.hnd[p].on)
      BY <1>2, <1>3, <1>4, <2>2
    <3>4. p # "none" => H[p].on = s.hnd[p].on
      BY <1>t, <1>5
    <3>5. Informed(T, H, s.seen, u)
      BY <1>5, <2>0, <3>1, <3>3, <3>4 DEF Informed, Described
    <3> QED
      BY <3>1, <3>2, <3>5
  <2>3. CASE u \notin ts
    <3>0. StandingTop(s.top, u) /\ Informed(s.top, s.hnd, s.seen, u)
      BY <2>3 DEF SoundBut
    <3>1. T[u] = s.top[u] /\ H[u] = s.hnd[u] /\ s.idle \subseteq I
      BY <1>4, <2>3 DEF I
    <3>2. \A v \in WlTop : T[v].on = s.top[v].on /\ H[v].on = s.hnd[v].on
      BY <1>5
    <3>3. StandingTop(T, u)
      BY <3>0, <3>1, <3>2 DEF StandingTop
    <3>4. Informed(T, H, s.seen, u)
      BY <3>0, <3>1, <3>2 DEF Informed, StandingTop
    <3> QED
      BY <2>0, <3>1, <3>3, <3>4
  <2> QED
    BY <2>2, <2>3
<1>7. TopsSound(T, H, I, s.seen, TRUE)
  BY <1>6 DEF TopsSound
<1>8. /\ n.top = T /\ n.hnd = H /\ n.idle = I
      /\ n = [s EXCEPT !.top = T, !.hnd = H, !.idle = I, !.mgr = s.mgr]
  BY <1>1 DEF WlShape
<1> QED
  BY <1>4, <1>7, <1>8 DEF n, Reparented

LEMMA SetParentKept ==
  ASSUME WlInv, NEW t \in WlTop, NEW p \in WlTop \cup {"none"}, SetParent(t, p)
  PROVE  WlInv'
<1>t. /\ wls \in WlShape /\ wls.top \in [WlTop -> TopShape] /\ wls.hnd \in [WlTop -> HandleShape]
      /\ wls.idle \in SUBSET WlTop /\ wls.seen \in BOOLEAN /\ wls.mgr \in {"none", "bound", "stopped"}
      /\ TopsSound(wls.top, wls.hnd, wls.idle, wls.seen, Tops) /\ SpacesInv(wls)
  BY WlTyped DEF WlInv, TaskbarInv, Tops
<1> DEFINE n == wlr_foreign_toplevel_handle_v1_set_parent(wls, {t}, p)
<1>1. {t} \in SUBSET LiveTops(wls) /\ p \in LiveTops(wls) \cup {"none"} /\ Tops /\ wls' = n
  BY DEF SetParent, LiveTops
<1>2. SoundBut(wls, {t})
  BY <1>t DEF SoundBut, TopsSound, Described, Informed
<1>3. /\ n = [wls EXCEPT !.top = n.top, !.hnd = n.hnd, !.idle = n.idle, !.mgr = wls.mgr]
      /\ n.top \in [WlTop -> TopShape] /\ n.hnd \in [WlTop -> HandleShape] /\ n.idle \in SUBSET WlTop
      /\ TopsSound(n.top, n.hnd, n.idle, wls.seen, TRUE)
  <2>1. Reparented(wls, n)
    BY <1>t, <1>1, <1>2, ParentsSet
  <2> QED
    BY <2>1 DEF Reparented
<1> HIDE DEF n
<1>4. TopsSound(n.top, n.hnd, n.idle, wls.seen, wls.slice = "toplevels")
  BY ZenonT(60), <1>1, <1>3 DEF Tops
<1>5. n \in WlShape /\ TaskbarInv(n) /\ SpacesInv(n)
  <2> DEFINE a == n.top
             b == n.hnd
             c == n.idle
  <2>1. /\ n = [wls EXCEPT !.top = a, !.hnd = b, !.idle = c, !.mgr = wls.mgr]
        /\ a \in [WlTop -> TopShape] /\ b \in [WlTop -> HandleShape] /\ c \in SUBSET WlTop
        /\ TopsSound(a, b, c, wls.seen, wls.slice = "toplevels")
    BY <1>3, <1>4
  <2> HIDE DEF a, b, c
  <2> QED
    BY ZenonT(60), <1>t, <2>1, TopStepping
<1> QED
  BY <1>1, <1>5 DEF WlInv

LEMMA ToplevelGone ==
  ASSUME WlInv, NEW t \in WlTop, wlr_foreign_toplevel_handle_v1_destroy(t)
  PROVE  WlInv'
<1>t. /\ wls \in WlShape /\ wls.top \in [WlTop -> TopShape] /\ wls.hnd \in [WlTop -> HandleShape]
      /\ wls.idle \in SUBSET WlTop /\ wls.seen \in BOOLEAN /\ wls.mgr \in {"none", "bound", "stopped"}
      /\ TopsSound(wls.top, wls.hnd, wls.idle, wls.seen, Tops) /\ SpacesInv(wls)
  BY WlTyped DEF WlInv, TaskbarInv, Tops
<1> DEFINE T == [wls.top EXCEPT ![t] = NoTop]
           H == [wls.hnd EXCEPT ![t] = NoHandle]
           I == wls.idle \ {t}
           s == [wls EXCEPT !.top[t] = NoTop, !.hnd[t] = NoHandle, !.idle = @ \ {t}]
           kids == {u \in LiveTops(s) : s.top[u].parent = t}
           n == wlr_foreign_toplevel_handle_v1_set_parent(s, kids, "none")
<1>1. Tops /\ wls' = n
  BY DEF wlr_foreign_toplevel_handle_v1_destroy
<1>2. /\ NoTop \in TopShape /\ NoTop.parent = "none" /\ ~NoTop.on /\ NoHandle \in HandleShape /\ ~NoHandle.on
  BY DEF NoTop, NoHandle, TopShape, HandleShape
<1>3. s = [wls EXCEPT !.top = T, !.hnd = H, !.idle = I]
  BY <1>t DEF WlShape
<1>4. T \in [WlTop -> TopShape] /\ H \in [WlTop -> HandleShape] /\ I \in SUBSET WlTop
  BY <1>t, <1>2
<1>5. /\ T[t] = NoTop /\ H[t] = NoHandle /\ \A u \in WlTop \ {t} : T[u] = wls.top[u] /\ H[u] = wls.hnd[u]
  BY <1>t
<1> HIDE DEF T, H, I, s
<1>6. /\ s \in WlShape /\ s.top = T /\ s.hnd = H /\ s.idle = I /\ s.seen = wls.seen /\ s.slice = wls.slice
      /\ s.mgr = wls.mgr /\ SpacesRest(wls, s)
  BY <1>t, <1>3, <1>4 DEF WlShape, SpacesRest
<1>7. SpacesInv(s)
  BY <1>t, <1>6, SpacesResting
<1>8. SoundBut(s, kids)
  <2> SUFFICES ASSUME NEW u \in WlTop
               PROVE  /\ Described(T, H, wls.seen, u) /\ (H[u].on /\ H[u].more => u \in I)
                      /\ u \notin kids => StandingTop(T, u) /\ Informed(T, H, wls.seen, u)
    BY <1>6 DEF SoundBut
  <2>1. StandingTop(wls.top, u) /\ Informed(wls.top, wls.hnd, wls.seen, u)
        /\ (wls.hnd[u].on /\ wls.hnd[u].more => u \in wls.idle)
    BY <1>t DEF TopsSound
  <2>2. CASE u = t
    BY <1>2, <1>5, <2>2, ListsAssumption DEF Described, StandingTop, Informed
  <2>3. CASE u # t
    <3>1. T[u] = wls.top[u] /\ H[u] = wls.hnd[u]
      BY <1>5, <2>3
    <3>2. u \notin kids => wls.top[u].parent # t
      BY <1>6, <2>1, <3>1, ListsAssumption DEF LiveTops, StandingTop
    <3>3. ASSUME u \notin kids, wls.top[u].parent # "none"
          PROVE  T[wls.top[u].parent] = wls.top[wls.top[u].parent] /\ H[wls.top[u].parent] = wls.hnd[wls.top[u].parent]
      BY <1>5, <2>1, <3>2, <3>3 DEF StandingTop
    <3>4. u \notin kids => StandingTop(T, u) /\ Informed(T, H, wls.seen, u)
      BY <2>1, <3>1, <3>3 DEF StandingTop, Informed
    <3>5. Described(T, H, wls.seen, u)
      BY <2>1, <3>1 DEF Described, Informed
    <3> QED
      BY <2>1, <2>3, <3>1, <3>4, <3>5 DEF I
  <2> QED
    BY <2>2, <2>3
<1>9. kids \in SUBSET LiveTops(s) /\ "none" \in LiveTops(s) \cup {"none"}
  OBVIOUS
<1> HIDE DEF kids
<1>10. /\ n = [s EXCEPT !.top = n.top, !.hnd = n.hnd, !.idle = n.idle, !.mgr = s.mgr]
       /\ n.top \in [WlTop -> TopShape] /\ n.hnd \in [WlTop -> HandleShape] /\ n.idle \in SUBSET WlTop
       /\ TopsSound(n.top, n.hnd, n.idle, s.seen, TRUE)
  <2>1. Reparented(s, n)
    BY <1>6, <1>8, <1>9, ParentsSet
  <2> QED
    BY ZenonT(60), <2>1 DEF Reparented
<1> HIDE DEF n
<1>11. n \in WlShape /\ TaskbarInv(n) /\ SpacesInv(n)
  <2> DEFINE a == n.top
             b == n.hnd
             c == n.idle
  <2>1. /\ n = [s EXCEPT !.top = a, !.hnd = b, !.idle = c, !.mgr = s.mgr]
        /\ a \in [WlTop -> TopShape] /\ b \in [WlTop -> HandleShape] /\ c \in SUBSET WlTop
        /\ TopsSound(a, b, c, s.seen, s.slice = "toplevels") /\ s.mgr \in {"none", "bound", "stopped"}
    BY ZenonT(60), <1>t, <1>1, <1>6, <1>10 DEF Tops
  <2> HIDE DEF a, b, c
  <2> QED
    BY ZenonT(60), <1>6, <1>7, <2>1, TopStepping
<1> QED
  BY <1>1, <1>11 DEF WlInv

LEMMA ListedGone ==
  ASSUME WlInv, NEW t \in WlTop, wlr_ext_foreign_toplevel_handle_v1_destroy(t)
  PROVE  WlInv'
<1>t. /\ wls \in WlShape /\ wls.top \in [WlTop -> TopShape] /\ wls.hnd \in [WlTop -> HandleShape]
      /\ wls.idle \in SUBSET WlTop /\ wls.seen \in BOOLEAN /\ wls.mgr \in {"none", "bound", "stopped"}
      /\ TopsSound(wls.top, wls.hnd, wls.idle, wls.seen, Tops) /\ SpacesInv(wls)
  BY WlTyped DEF WlInv, TaskbarInv, Tops
<1> DEFINE T == [wls.top EXCEPT ![t] = NoTop]
           H == [wls.hnd EXCEPT ![t] = NoHandle]
<1>2. /\ NoTop \in TopShape /\ NoTop.parent = "none" /\ ~NoTop.on /\ NoHandle \in HandleShape /\ ~NoHandle.on
  BY DEF NoTop, NoHandle, TopShape, HandleShape
<1>3. wls' = [wls EXCEPT !.top = T, !.hnd = H, !.idle = wls.idle, !.mgr = wls.mgr]
  BY <1>t DEF WlShape, wlr_ext_foreign_toplevel_handle_v1_destroy
<1>4. T \in [WlTop -> TopShape] /\ H \in [WlTop -> HandleShape]
  BY <1>t, <1>2
<1>5. /\ T[t] = NoTop /\ H[t] = NoHandle /\ \A u \in WlTop \ {t} : T[u] = wls.top[u] /\ H[u] = wls.hnd[u]
  BY <1>t
<1>6. ~Tops
  BY DEF wlr_ext_foreign_toplevel_handle_v1_destroy, List, Tops
<1> HIDE DEF T, H
<1>7. ASSUME NEW u \in WlTop
      PROVE  /\ StandingTop(T, u) /\ (T[u].parent # "none" => Tops) /\ Informed(T, H, wls.seen, u)
             /\ H[u].on /\ H[u].more => u \in wls.idle
  <2>1. StandingTop(wls.top, u) /\ Informed(wls.top, wls.hnd, wls.seen, u) /\ wls.top[u].parent = "none"
        /\ (wls.hnd[u].on /\ wls.hnd[u].more => u \in wls.idle)
    BY <1>t, <1>6 DEF TopsSound
  <2>2. CASE u = t
    BY <1>2, <1>5, <2>2 DEF StandingTop, Informed
  <2>3. CASE u # t
    BY <1>5, <2>1, <2>3 DEF StandingTop, Informed
  <2> QED
    BY <2>2, <2>3
<1>8. TopsSound(T, H, wls.idle, wls.seen, Tops)
  BY <1>7 DEF TopsSound
<1> QED
  BY ZenonT(60), <1>t, <1>3, <1>4, <1>8, TopStepping DEF WlInv, Tops

(* The client binds the output, or the output goes. *)
(* The operators of the output, in detail. *)
TopsHear(s, n, ts, enter) ==
  /\ n \in WlShape /\ n.slice = s.slice /\ n.mgr = s.mgr /\ n.seen = s.seen /\ n.top = s.top
  /\ n.idle = s.idle \cup ts /\ SpacesRest(s, n)
  /\ \A t \in WlTop : n.hnd[t] = IF t \in ts /\ s.seen THEN Told(s.hnd[t], [s.hnd[t] EXCEPT !.out = enter])
                                 ELSE s.hnd[t]
GroupsHear(s, n, gs, enter) ==
  /\ n \in WlShape /\ n.slice = s.slice /\ n.mgr = s.mgr /\ n.seen = s.seen /\ TopsRest(s, n)
  /\ n.grp = s.grp /\ n.spc = s.spc /\ n.shnd = s.shnd /\ n.reqs = s.reqs
  /\ (s.fresh => s.sched) => (n.fresh => n.sched)
  /\ \A g \in WlGroup : n.ghnd[g] = IF g \in gs /\ s.ghnd[g].on /\ s.seen THEN [s.ghnd[g] EXCEPT !.out = enter]
                                    ELSE s.ghnd[g]

LEMMA OutputSent ==
  ASSUME NEW s \in WlShape, NEW ts \in SUBSET WlTop, NEW enter \in BOOLEAN
  PROVE  TopsHear(s, toplevel_send_output(s, ts, enter), ts, enter)
<1> DEFINE F(h) == Told(h, [h EXCEPT !.out = enter])
           H == [t \in WlTop |-> IF t \in ts /\ s.seen THEN F(s.hnd[t]) ELSE s.hnd[t]]
           I == s.idle \cup ts
           n == toplevel_send_output(s, ts, enter)
<1>t. s.hnd \in [WlTop -> HandleShape] /\ s.idle \in SUBSET WlTop /\ s.seen \in BOOLEAN
  BY WlTyped
<1>1. \A h \in HandleShape : F(h) \in HandleShape
  BY DEF Told, HandleShape
<1>2. n = [s EXCEPT !.hnd = H, !.idle = I]
  BY DEF toplevel_send_output, toplevel_update_idle_source, WlShape
<1> HIDE DEF F, n
<1>3. H \in [WlTop -> HandleShape] /\ I \in SUBSET WlTop
      /\ \A t \in WlTop : H[t] = IF t \in ts /\ s.seen THEN F(s.hnd[t]) ELSE s.hnd[t]
  BY <1>t, <1>1
<1> HIDE DEF H
<1>4. n \in WlShape
  BY <1>2, <1>3 DEF WlShape
<1>5. /\ n.slice = s.slice /\ n.mgr = s.mgr /\ n.seen = s.seen /\ n.top = s.top
      /\ n.idle = I /\ n.hnd = H /\ SpacesRest(s, n)
  BY <1>2, <1>3 DEF WlShape, SpacesRest
<1> QED
  BY <1>3, <1>4, <1>5 DEF n, F, TopsHear

LEMMA GroupsSent ==
  ASSUME NEW s \in WlShape, NEW gs \in SUBSET WlGroup, NEW enter \in BOOLEAN
  PROVE  GroupsHear(s, group_send_output(s, gs, enter), gs, enter)
<1> DEFINE told == {g \in gs : s.ghnd[g].on /\ s.seen}
           G == [g \in WlGroup |-> IF g \in told THEN [s.ghnd[g] EXCEPT !.out = enter] ELSE s.ghnd[g]]
           n == group_send_output(s, gs, enter)
           f == s.fresh \/ (told # {} /\ s.mgr = "bound")
           d == s.sched \/ gs # {}
<1>t. s.ghnd \in [WlGroup -> GroupShape] /\ s.seen \in BOOLEAN /\ s.fresh \in BOOLEAN /\ s.sched \in BOOLEAN
  BY WlTyped
<1>1. \A g \in GroupShape : [g EXCEPT !.out = enter] \in GroupShape
  BY DEF GroupShape
<1>2. n = [s EXCEPT !.ghnd = G, !.fresh = f, !.sched = d]
  BY DEF group_send_output, manager_schedule_done, Heard, WlShape
<1>3. G \in [WlGroup -> GroupShape] /\ f \in BOOLEAN /\ d \in BOOLEAN
      /\ \A g \in WlGroup : G[g] = IF g \in gs /\ s.ghnd[g].on /\ s.seen THEN [s.ghnd[g] EXCEPT !.out = enter]
                                           ELSE s.ghnd[g]
  BY <1>t, <1>1
<1>6. (s.fresh => s.sched) => (f => d)
  OBVIOUS
<1> HIDE DEF G, f, d, n
<1>4. n \in WlShape
  BY <1>2, <1>3 DEF WlShape
<1>5. /\ n.slice = s.slice /\ n.mgr = s.mgr /\ n.seen = s.seen /\ TopsRest(s, n)
      /\ n.grp = s.grp /\ n.spc = s.spc /\ n.shnd = s.shnd /\ n.reqs = s.reqs
      /\ n.ghnd = G /\ n.fresh = f /\ n.sched = d
  BY <1>2, <1>3 DEF WlShape, TopsRest
<1> QED
  BY <1>3, <1>4, <1>5, <1>6 DEF n, GroupsHear

(* A step about workspaces.                                                 *)
SpaceStep(s, u, mgr, grp, ghnd, spc, shnd, reqs, sched, fresh) ==
  u = [s EXCEPT !.mgr = mgr, !.grp = grp, !.ghnd = ghnd, !.spc = spc, !.shnd = shnd, !.reqs = reqs,
                !.sched = sched, !.fresh = fresh]
SpaceTypes(grp, ghnd, spc, shnd, reqs, sched, fresh) ==
  /\ grp \in [WlGroup -> GroupShape] /\ ghnd \in [WlGroup -> GroupShape]
  /\ spc \in [WlSpace -> SpaceShape] /\ shnd \in [WlSpace -> SpaceHandles]
  /\ reqs \in Seq(WlRequests) /\ sched \in BOOLEAN /\ fresh \in BOOLEAN

LEMMA SpaceStepping ==
  ASSUME NEW s \in WlShape, TaskbarInv(s), NEW u,
         NEW mgr \in {"none", "bound", "stopped"}, NEW grp, NEW ghnd, NEW spc, NEW shnd, NEW reqs, NEW sched,
         NEW fresh, SpaceTypes(grp, ghnd, spc, shnd, reqs, sched, fresh),
         SpaceStep(s, u, mgr, grp, ghnd, spc, shnd, reqs, sched, fresh),
         GroupsSound(grp, ghnd, s.seen), SpacesSound(grp, ghnd, spc, shnd), ReqsSound(grp, spc, reqs),
         fresh => sched
  PROVE  u \in WlShape /\ TaskbarInv(u) /\ SpacesInv(u)
<1>1. u \in WlShape
  BY DEF WlShape, SpaceStep, SpaceTypes
<1>2. /\ u.grp = grp /\ u.ghnd = ghnd /\ u.spc = spc /\ u.shnd = shnd /\ u.reqs = reqs /\ u.sched = sched
      /\ u.fresh = fresh /\ u.seen = s.seen /\ u.slice = s.slice /\ TopsRest(s, u)
  BY DEF WlShape, SpaceStep, TopsRest
<1>3. SpacesInv(u)
  BY <1>2 DEF SpacesInv
<1> QED
  BY <1>1, <1>2, <1>3, TopsResting

LEMMA SpacesKnown ==
  ASSUME WlInv
  PROVE  /\ wls \in WlShape /\ TaskbarInv(wls) /\ wls.mgr \in {"none", "bound", "stopped"} /\ wls.seen \in BOOLEAN
         /\ wls.grp \in [WlGroup -> GroupShape] /\ wls.ghnd \in [WlGroup -> GroupShape]
         /\ wls.spc \in [WlSpace -> SpaceShape] /\ wls.shnd \in [WlSpace -> SpaceHandles]
         /\ wls.reqs \in Seq(WlRequests) /\ wls.sched \in BOOLEAN /\ wls.fresh \in BOOLEAN
         /\ GroupsSound(wls.grp, wls.ghnd, wls.seen) /\ SpacesSound(wls.grp, wls.ghnd, wls.spc, wls.shnd)
         /\ ReqsSound(wls.grp, wls.spc, wls.reqs) /\ (wls.fresh => wls.sched)
BY WlTyped DEF WlInv, SpacesInv

LEMMA NoneShapes ==
  /\ NoGroup \in GroupShape /\ NoGroup.on = FALSE /\ NoGroup.out = FALSE
  /\ NoSpace \in SpaceShape /\ NoSpace.on = FALSE /\ NoSpace.group = "none" /\ NoSpace.state = 0
  /\ NoSpaceHandle \in SpaceHandles /\ NoSpaceHandle.on = FALSE /\ NoSpaceHandle.groups = {}
BY DEF NoGroup, NoSpace, NoSpaceHandle, GroupShape, SpaceShape, SpaceHandles

LEMMA SpacesIdle ==
  ASSUME WlInv, workspace_handle_idle
  PROVE  WlInv'
<1> USE SpacesKnown
<1>1. SpaceStep(wls, wls', wls.mgr, wls.grp, wls.ghnd, wls.spc, wls.shnd, wls.reqs, FALSE, FALSE)
  BY DEF workspace_handle_idle, WlShape, SpaceStep
<1>2. SpaceTypes(wls.grp, wls.ghnd, wls.spc, wls.shnd, wls.reqs, FALSE, FALSE)
  BY DEF SpaceTypes
<1>3. wls' \in WlShape /\ TaskbarInv(wls') /\ SpacesInv(wls')
  BY <1>1, <1>2, SpaceStepping
<1> QED
  BY <1>3 DEF WlInv

LEMMA RequestsDone ==
  ASSUME WlInv, manager_handle_commit
  PROVE  WlInv'
<1> USE SpacesKnown
<1>1. SpaceStep(wls, wls', wls.mgr, wls.grp, wls.ghnd, wls.spc, wls.shnd, <<>>, wls.sched, wls.fresh)
  BY DEF manager_handle_commit, WlShape, SpaceStep
<1>2. SpaceTypes(wls.grp, wls.ghnd, wls.spc, wls.shnd, <<>>, wls.sched, wls.fresh)
  BY DEF SpaceTypes
<1>3. ReqsSound(wls.grp, wls.spc, <<>>)
  BY DEF ReqsSound
<1>4. wls' \in WlShape /\ TaskbarInv(wls') /\ SpacesInv(wls')
  BY <1>1, <1>2, <1>3, SpaceStepping
<1> QED
  BY <1>4 DEF WlInv

LEMMA RequestKept ==
  ASSUME WlInv, NEW w \in WlSpace \cup {"none"}, NEW g \in WlGroup \cup {"none"}, Request(w, g)
  PROVE  WlInv'
<1> USE SpacesKnown
<1> DEFINE r == [w |-> w, g |-> g]
           R == Append(wls.reqs, r)
<1>0. SpaceStep(wls, wls', wls.mgr, wls.grp, wls.ghnd, wls.spc, wls.shnd, R, wls.sched, wls.fresh)
  BY DEF Request, WlShape, SpaceStep
<1>1. (w # "none" => wls.spc[w].on) /\ (g # "none" => wls.grp[g].on)
  BY DEF Request, SpacesSound, GroupsSound
<1>2. r \in WlRequests /\ r.w = w /\ r.g = g
  BY DEF WlRequests
<1> HIDE DEF r
<1>3. R \in Seq(WlRequests) /\ Len(R) = Len(wls.reqs) + 1 /\ Len(wls.reqs) \in Nat /\ R[Len(wls.reqs) + 1] = r
      /\ \A i \in 1..Len(wls.reqs) : R[i] = wls.reqs[i]
  BY <1>2
<1> HIDE DEF R
<1>4. ReqsSound(wls.grp, wls.spc, R)
  <2> SUFFICES ASSUME NEW i \in 1..Len(R)
               PROVE  (R[i].w # "none" => wls.spc[R[i].w].on) /\ (R[i].g # "none" => wls.grp[R[i].g].on)
    BY DEF ReqsSound
  <2>1. CASE i = Len(wls.reqs) + 1
    BY <1>1, <1>2, <1>3, <2>1
  <2>2. CASE i \in 1..Len(wls.reqs)
    BY <1>3, <2>2 DEF ReqsSound
  <2> QED
    BY <1>3, <2>1, <2>2
<1>5. SpaceTypes(wls.grp, wls.ghnd, wls.spc, wls.shnd, R, wls.sched, wls.fresh)
  BY <1>3 DEF SpaceTypes
<1>6. wls' \in WlShape /\ TaskbarInv(wls') /\ SpacesInv(wls')
  BY <1>0, <1>4, <1>5, SpaceStepping
<1> QED
  BY <1>6 DEF WlInv

LEMMA ManagerGone ==
  ASSUME WlInv, destroy_manager_resource
  PROVE  WlInv'
<1> USE SpacesKnown
<1> DEFINE G == [g \in WlGroup |-> NoGroup]
           S == [w \in WlSpace |-> NoSpaceHandle]
<1>1. SpaceStep(wls, wls', "none", wls.grp, G, wls.spc, S, <<>>, wls.sched, FALSE)
  BY DEF destroy_manager_resource, WlShape, SpaceStep
<1>2. /\ G \in [WlGroup -> GroupShape] /\ S \in [WlSpace -> SpaceHandles]
      /\ \A g \in WlGroup : ~G[g].on
      /\ \A w \in WlSpace : ~S[w].on
  BY NoneShapes
<1> HIDE DEF G, S
<1>3. SpaceTypes(wls.grp, G, wls.spc, S, <<>>, wls.sched, FALSE)
  BY <1>2 DEF SpaceTypes
<1>4. /\ GroupsSound(wls.grp, G, wls.seen) /\ SpacesSound(wls.grp, G, wls.spc, S)
      /\ ReqsSound(wls.grp, wls.spc, <<>>)
  BY <1>2 DEF GroupsSound, SpacesSound, ReqsSound
<1>5. wls' \in WlShape /\ TaskbarInv(wls') /\ SpacesInv(wls')
  BY <1>1, <1>3, <1>4, SpaceStepping
<1> QED
  BY <1>5 DEF WlInv

LEMMA SpaceHandleGone ==
  ASSUME WlInv, NEW w \in WlSpace, destroy_workspace_resource(w)
  PROVE  WlInv'
<1> USE SpacesKnown
<1> DEFINE S == [wls.shnd EXCEPT ![w] = NoSpaceHandle]
<1>1. SpaceStep(wls, wls', wls.mgr, wls.grp, wls.ghnd, wls.spc, S, wls.reqs, wls.sched, wls.fresh)
  BY DEF destroy_workspace_resource, WlShape, SpaceStep
<1>2. /\ S \in [WlSpace -> SpaceHandles] /\ ~S[w].on
      /\ \A v \in WlSpace \ {w} : S[v] = wls.shnd[v]
  BY NoneShapes
<1> HIDE DEF S
<1>3. SpaceTypes(wls.grp, wls.ghnd, wls.spc, S, wls.reqs, wls.sched, wls.fresh)
  BY <1>2 DEF SpaceTypes
<1>4. SpacesSound(wls.grp, wls.ghnd, wls.spc, S)
  BY <1>2 DEF SpacesSound
<1>5. wls' \in WlShape /\ TaskbarInv(wls') /\ SpacesInv(wls')
  BY <1>1, <1>3, <1>4, SpaceStepping
<1> QED
  BY <1>5 DEF WlInv

LEMMA GroupHandleGone ==
  ASSUME WlInv, NEW g \in WlGroup, destroy_group_resource(g)
  PROVE  WlInv'
<1> USE SpacesKnown
<1> DEFINE G == [wls.ghnd EXCEPT ![g] = NoGroup]
           S == [w \in WlSpace |-> [wls.shnd[w] EXCEPT !.groups = @ \ {g}]]
<1>1. SpaceStep(wls, wls', wls.mgr, wls.grp, G, wls.spc, S, wls.reqs, wls.sched, wls.fresh)
  BY DEF destroy_group_resource, WlShape, SpaceStep
<1>2. /\ G \in [WlGroup -> GroupShape] /\ ~G[g].on
      /\ \A h \in WlGroup \ {g} : G[h] = wls.ghnd[h]
  BY NoneShapes
<1>3. ASSUME NEW w \in WlSpace
      PROVE  /\ S[w] \in SpaceHandles /\ S[w].on = wls.shnd[w].on /\ S[w].state = wls.shnd[w].state
             /\ S[w].groups = wls.shnd[w].groups \ {g}
  <2>1. wls.shnd[w] \in SpaceHandles /\ S[w] = [wls.shnd[w] EXCEPT !.groups = @ \ {g}]
    OBVIOUS
  <2> HIDE DEF S
  <2> QED
    BY <2>1 DEF SpaceHandles
<1>4. S \in [WlSpace -> SpaceHandles]
  BY <1>3
<1> HIDE DEF S, G
<1>5. SpaceTypes(wls.grp, G, wls.spc, S, wls.reqs, wls.sched, wls.fresh)
  BY <1>2, <1>4 DEF SpaceTypes
<1>6. GroupsSound(wls.grp, G, wls.seen)
  BY <1>2 DEF GroupsSound
<1>7. SpacesSound(wls.grp, G, wls.spc, S)
  <2> SUFFICES ASSUME NEW w \in WlSpace
               PROVE  /\ wls.spc[w].group # "none" => wls.grp[wls.spc[w].group].on
                      /\ S[w].on => /\ wls.spc[w].on /\ S[w].state = wls.spc[w].state
                                    /\ S[w].groups = {h \in {wls.spc[w].group} \ {"none"} : G[h].on}
    BY DEF SpacesSound
  <2>1. wls.spc[w].group \in WlGroup \cup {"none"}
    BY DEF SpaceShape
  <2>2. wls.shnd[w].on => wls.shnd[w].groups = {h \in {wls.spc[w].group} \ {"none"} : wls.ghnd[h].on}
    BY DEF SpacesSound
  <2>3. {h \in {wls.spc[w].group} \ {"none"} : wls.ghnd[h].on} \ {g} = {h \in {wls.spc[w].group} \ {"none"} : G[h].on}
    BY <1>2, <2>1
  <2> QED
    BY <1>3, <2>2, <2>3 DEF SpacesSound
<1>8. wls' \in WlShape /\ TaskbarInv(wls') /\ SpacesInv(wls')
  BY <1>1, <1>5, <1>6, <1>7, SpaceStepping
<1> QED
  BY <1>8 DEF WlInv

LEMMA ManagerBound ==
  ASSUME WlInv, manager_bind
  PROVE  WlInv'
<1> USE SpacesKnown
<1> DEFINE live == LiveGroups(wls)
           P(w) == {wls.spc[w].group} \cap live
           G == [g \in WlGroup |-> IF g \in live THEN [on |-> TRUE, out |-> wls.grp[g].out /\ wls.seen]
                                   ELSE wls.ghnd[g]]
           S == [w \in WlSpace |-> IF w \in LiveSpaces(wls)
                                   THEN [on |-> TRUE, groups |-> P(w), state |-> wls.spc[w].state]
                                   ELSE wls.shnd[w]]
           d == (wls.sched \/ live # {}) \/ LiveSpaces(wls) # {}
<1>1. SpaceStep(wls, wls', "bound", wls.grp, G, wls.spc, S, wls.reqs, d, FALSE)
  <2> DEFINE a == [wls EXCEPT !.mgr = "bound"]
             b == create_group_resource(a, live)
             c == create_workspace_resource(b, LiveSpaces(wls), live)
  <2>0. wls' = [c EXCEPT !.fresh = FALSE]
    BY DEF manager_bind
  <2> HIDE DEF live
  <2>1. /\ a \in WlShape /\ a.grp = wls.grp /\ a.seen = wls.seen /\ a.ghnd = wls.ghnd /\ a.sched = wls.sched
    BY DEF WlShape
  <2>2. PICK f : b = [a EXCEPT !.ghnd = G, !.fresh = f, !.sched = wls.sched \/ live # {}]
    <3> HIDE DEF a
    <3> WITNESS a.fresh \/ (live # {} /\ a.mgr = "bound")
    <3> QED
      BY ZenonT(60), <2>1 DEF create_group_resource, Heard, manager_schedule_done, WlShape
  <2> HIDE DEF G, b
  <2>3. b = [wls EXCEPT !.mgr = "bound", !.ghnd = G, !.fresh = f, !.sched = wls.sched \/ live # {}]
    BY <2>2 DEF WlShape
  <2> HIDE DEF a
  <2>4. b.spc = wls.spc /\ b.shnd = wls.shnd /\ b.sched = (wls.sched \/ live # {})
    BY <2>3 DEF WlShape
  <2>5. PICK e : c = [b EXCEPT !.shnd = S, !.fresh = e, !.sched = d]
    <3> WITNESS b.fresh \/ (LiveSpaces(wls) # {} /\ b.mgr = "bound")
    <3> QED
      BY <2>3, <2>4 DEF create_workspace_resource, Heard, manager_schedule_done, WlShape
  <2> HIDE DEF S, c, d
  <2> QED
    BY <2>0, <2>3, <2>5 DEF WlShape, SpaceStep
<1>2. d \in BOOLEAN
  OBVIOUS
<1>3. ASSUME NEW g \in WlGroup
      PROVE  /\ G[g] \in GroupShape /\ G[g].on = wls.grp[g].on
             /\ G[g].on => G[g].out = (wls.grp[g].out /\ wls.seen)
  <2>1. CASE g \in live
    BY <2>1 DEF LiveGroups, GroupShape
  <2>2. CASE g \notin live
    BY <2>2, ZenonT(60) DEF LiveGroups, GroupsSound, GroupShape
  <2> QED
    BY <2>1, <2>2
<1>4. ASSUME NEW w \in WlSpace
      PROVE  /\ S[w] \in SpaceHandles
             /\ S[w].on => /\ wls.spc[w].on /\ S[w].state = wls.spc[w].state /\ S[w].groups = P(w)
  <2>1. wls.spc[w] \in SpaceShape /\ P(w) \in SUBSET WlGroup
    BY DEF LiveGroups
  <2> HIDE DEF P
  <2>2. CASE w \in LiveSpaces(wls)
    BY <2>1, <2>2 DEF LiveSpaces, SpaceShape, SpaceHandles
  <2>3. CASE w \notin LiveSpaces(wls)
    BY <2>3 DEF LiveSpaces, SpacesSound
  <2> QED
    BY <2>2, <2>3
<1>5. G \in [WlGroup -> GroupShape] /\ S \in [WlSpace -> SpaceHandles]
  BY <1>3, <1>4
<1> HIDE DEF G, S, d
<1>6. SpaceTypes(wls.grp, G, wls.spc, S, wls.reqs, d, FALSE)
  BY <1>2, <1>5 DEF SpaceTypes
<1>7. GroupsSound(wls.grp, G, wls.seen)
  BY <1>3 DEF GroupsSound
<1>8. SpacesSound(wls.grp, G, wls.spc, S)
  <2> SUFFICES ASSUME NEW w \in WlSpace
               PROVE  /\ wls.spc[w].group # "none" => wls.grp[wls.spc[w].group].on
                      /\ S[w].on => /\ wls.spc[w].on /\ S[w].state = wls.spc[w].state
                                    /\ S[w].groups = {h \in {wls.spc[w].group} \ {"none"} : G[h].on}
    BY DEF SpacesSound
  <2>1. wls.spc[w].group \in WlGroup \cup {"none"} /\ (wls.spc[w].group # "none" => wls.grp[wls.spc[w].group].on)
    BY DEF SpaceShape, SpacesSound
  <2>2. P(w) = {h \in {wls.spc[w].group} \ {"none"} : G[h].on}
    BY <1>3, <2>1, ListsAssumption DEF LiveGroups
  <2> QED
    BY <1>4, <2>1, <2>2
<1>9. wls' \in WlShape /\ TaskbarInv(wls') /\ SpacesInv(wls')
  BY <1>1, <1>6, <1>7, <1>8, SpaceStepping
<1> QED
  BY <1>9 DEF WlInv

LEMMA GroupNew ==
  ASSUME WlInv, NEW g \in WlGroup, wlr_ext_workspace_group_handle_v1_create(g)
  PROVE  WlInv'
<1> USE SpacesKnown
<1> DEFINE x == [on |-> TRUE, out |-> FALSE]
           told == wls.mgr = "bound"
           y == IF told THEN [on |-> TRUE, out |-> FALSE /\ wls.seen] ELSE wls.ghnd[g]
           P == [wls.grp EXCEPT ![g] = x]
           G == [wls.ghnd EXCEPT ![g] = y]
           f == wls.fresh \/ told
<1>1. SpaceStep(wls, wls', wls.mgr, P, G, wls.spc, wls.shnd, wls.reqs, TRUE, f)
  <2>1. ~wls.grp[g].on /\ wls' = manager_schedule_done(
               IF told THEN create_group_resource([wls EXCEPT !.grp = P], {g}) ELSE [wls EXCEPT !.grp = P], TRUE)
    BY DEF wlr_ext_workspace_group_handle_v1_create, WlShape
  <2>2. P[g] = x /\ x.out = FALSE
    OBVIOUS
  <2>3. CASE told
    <3>1. G = [h \in WlGroup |-> IF h \in {g} THEN [on |-> TRUE, out |-> P[h].out /\ wls.seen] ELSE wls.ghnd[h]]
      BY <2>2, <2>3
    <3> HIDE DEF P, G
    <3> QED
      BY <2>1, <2>3, <3>1, ZenonT(60) DEF create_group_resource, Heard, manager_schedule_done, WlShape, SpaceStep
  <2>4. CASE ~told
    <3>1. G = wls.ghnd
      BY <2>4
    <3> HIDE DEF P, G
    <3> QED
      BY <2>1, <2>4, <3>1 DEF manager_schedule_done, WlShape, SpaceStep
  <2> QED
    BY <2>3, <2>4
<1>2. f \in BOOLEAN
  OBVIOUS
<1>3. /\ x \in GroupShape /\ x.on = TRUE /\ x.out = FALSE /\ y \in GroupShape /\ ~wls.grp[g].on
      /\ y.on => y.out = FALSE
  BY DEF GroupShape, wlr_ext_workspace_group_handle_v1_create, GroupsSound
<1> HIDE DEF x, y
<1>4. /\ P \in [WlGroup -> GroupShape] /\ G \in [WlGroup -> GroupShape] /\ P[g] = x /\ G[g] = y
      /\ \A h \in WlGroup \ {g} : P[h] = wls.grp[h] /\ G[h] = wls.ghnd[h]
  BY <1>3
<1> HIDE DEF P, G, f
<1>5. SpaceTypes(P, G, wls.spc, wls.shnd, wls.reqs, TRUE, f)
  BY <1>2, <1>4 DEF SpaceTypes
<1>6. GroupsSound(P, G, wls.seen)
  <2> SUFFICES ASSUME NEW h \in WlGroup
               PROVE  G[h].on => P[h].on /\ G[h].out = (P[h].out /\ wls.seen)
    BY DEF GroupsSound
  <2>1. CASE h = g
    BY <1>3, <1>4, <2>1
  <2>2. CASE h # g
    BY <1>4, <2>2 DEF GroupsSound
  <2> QED
    BY <2>1, <2>2
<1>7. SpacesSound(P, G, wls.spc, wls.shnd)
  <2> SUFFICES ASSUME NEW w \in WlSpace
               PROVE  /\ wls.spc[w].group # "none" => P[wls.spc[w].group].on
                      /\ wls.shnd[w].on => /\ wls.spc[w].on /\ wls.shnd[w].state = wls.spc[w].state
                                    /\ wls.shnd[w].groups = {h \in {wls.spc[w].group} \ {"none"} : G[h].on}
    BY DEF SpacesSound
  <2>1. wls.spc[w].group \in (WlGroup \ {g}) \cup {"none"} /\ (wls.spc[w].group # "none" => wls.grp[wls.spc[w].group].on)
    BY <1>3, ListsAssumption DEF SpaceShape, SpacesSound
  <2>2. {h \in {wls.spc[w].group} \ {"none"} : wls.ghnd[h].on} = {h \in {wls.spc[w].group} \ {"none"} : G[h].on}
    BY <1>4, <2>1
  <2>3. wls.spc[w].group # "none" => P[wls.spc[w].group] = wls.grp[wls.spc[w].group]
    BY <1>4, <2>1
  <2> QED
    BY <2>1, <2>2, <2>3 DEF SpacesSound
<1>8. ReqsSound(P, wls.spc, wls.reqs)
  <2>1. \A h \in WlGroup : wls.grp[h].on => P[h].on
    BY <1>3, <1>4
  <2>2. \A i \in 1..Len(wls.reqs) : wls.reqs[i] \in WlRequests
    OBVIOUS
  <2> QED
    BY <2>1, <2>2 DEF ReqsSound, WlRequests
<1>9. wls' \in WlShape /\ TaskbarInv(wls') /\ SpacesInv(wls')
  BY <1>1, <1>5, <1>6, <1>7, <1>8, SpaceStepping
<1> QED
  BY <1>9 DEF WlInv

LEMMA GroupOutputKept ==
  ASSUME WlInv, NEW g \in WlGroup, NEW enter \in BOOLEAN, GroupOutput(g, enter)
  PROVE  WlInv'
<1> USE SpacesKnown
<1> DEFINE x == [wls.grp[g] EXCEPT !.out = enter]
           P == [wls.grp EXCEPT ![g] = x]
           s == [wls EXCEPT !.grp = P]
<1>1. wls' = group_send_output(s, {g}, enter) /\ {g} \in SUBSET WlGroup
  BY DEF GroupOutput, WlShape
<1>2. wls.grp[g] \in GroupShape
  OBVIOUS
<1>3. x \in GroupShape /\ x.on = wls.grp[g].on /\ x.out = enter
  BY <1>2 DEF GroupShape
<1> HIDE DEF x
<1>4. P \in [WlGroup -> GroupShape] /\ P[g] = x /\ \A h \in WlGroup \ {g} : P[h] = wls.grp[h]
  BY <1>3
<1> HIDE DEF P
<1>5. /\ s \in WlShape /\ s.grp = P /\ s.ghnd = wls.ghnd /\ s.spc = wls.spc /\ s.shnd = wls.shnd /\ s.reqs = wls.reqs
      /\ s.sched = wls.sched /\ s.fresh = wls.fresh /\ s.seen = wls.seen /\ s.slice = wls.slice /\ TopsRest(wls, s)
  BY <1>4 DEF WlShape, TopsRest
<1> HIDE DEF s
<1> DEFINE n == group_send_output(s, {g}, enter)
<1>6. /\ n \in WlShape /\ n.slice = s.slice /\ n.mgr = s.mgr /\ n.seen = s.seen /\ TopsRest(s, n)
      /\ n.grp = s.grp /\ n.spc = s.spc /\ n.shnd = s.shnd /\ n.reqs = s.reqs
      /\ (s.fresh => s.sched) => (n.fresh => n.sched)
      /\ \A h \in WlGroup : n.ghnd[h] = IF h \in {g} /\ s.ghnd[h].on /\ s.seen THEN [s.ghnd[h] EXCEPT !.out = enter]
                                        ELSE s.ghnd[h]
  <2>1. GroupsHear(s, n, {g}, enter)
    BY <1>1, <1>5, GroupsSent
  <2> HIDE DEF n
  <2> QED
    BY <2>1 DEF GroupsHear
<1> HIDE DEF n
<1>7. ASSUME NEW h \in WlGroup
      PROVE  n.ghnd[h].on = wls.ghnd[h].on /\ (n.ghnd[h].on => n.ghnd[h].out = (P[h].out /\ wls.seen))
  <2>1. wls.ghnd[h] \in GroupShape /\ wls.grp[h] \in GroupShape
    OBVIOUS
  <2>2. wls.ghnd[h].on => wls.ghnd[h].out = (wls.grp[h].out /\ wls.seen)
    BY DEF GroupsSound
  <2>3. CASE h = g /\ wls.ghnd[h].on /\ wls.seen
    <3>1. n.ghnd[h] = [wls.ghnd[h] EXCEPT !.out = enter]
      BY <1>5, <1>6, <2>3
    <3> QED
      BY <1>3, <1>4, <2>1, <2>3, <3>1 DEF GroupShape
  <2>4. CASE ~(h = g /\ wls.ghnd[h].on /\ wls.seen)
    <3>1. n.ghnd[h] = wls.ghnd[h]
      BY <1>5, <1>6, <2>4
    <3> QED
      BY <1>3, <1>4, <2>1, <2>2, <2>4, <3>1 DEF GroupShape
  <2> QED
    BY <2>3, <2>4
<1>8. \A h \in WlGroup : P[h].on = wls.grp[h].on
  BY <1>3, <1>4
<1>9. GroupsSound(n.grp, n.ghnd, n.seen)
  BY <1>5, <1>6, <1>7, <1>8 DEF GroupsSound
<1>10. SpacesSound(n.grp, n.ghnd, n.spc, n.shnd)
  <2> SUFFICES ASSUME NEW w \in WlSpace
               PROVE  /\ wls.spc[w].group # "none" => P[wls.spc[w].group].on
                      /\ wls.shnd[w].on => /\ wls.spc[w].on /\ wls.shnd[w].state = wls.spc[w].state
                                    /\ wls.shnd[w].groups = {h \in {wls.spc[w].group} \ {"none"} : n.ghnd[h].on}
    BY <1>5, <1>6 DEF SpacesSound
  <2>1. wls.spc[w].group \in WlGroup \cup {"none"} /\ (wls.spc[w].group # "none" => wls.grp[wls.spc[w].group].on)
    BY DEF SpaceShape, SpacesSound
  <2>2. {h \in {wls.spc[w].group} \ {"none"} : wls.ghnd[h].on} = {h \in {wls.spc[w].group} \ {"none"} : n.ghnd[h].on}
    BY <1>7, <2>1
  <2>3. wls.spc[w].group # "none" => P[wls.spc[w].group].on
    BY <1>8, <2>1
  <2> QED
    BY <2>1, <2>2, <2>3 DEF SpacesSound
<1>11. ReqsSound(n.grp, n.spc, n.reqs)
  <2>2. \A i \in 1..Len(wls.reqs) : wls.reqs[i] \in WlRequests
    OBVIOUS
  <2> QED
    BY <1>5, <1>6, <1>8, <2>2 DEF ReqsSound, WlRequests
<1>12. SpacesInv(n)
  BY <1>5, <1>6, <1>9, <1>10, <1>11 DEF SpacesInv
<1>13. TaskbarInv(n)
  <2>1. TopsRest(wls, n) /\ n.seen = wls.seen /\ n.slice = wls.slice
    BY <1>5, <1>6 DEF TopsRest
  <2> QED
    BY <2>1, TopsResting
<1> QED
  BY <1>1, <1>6, <1>12, <1>13 DEF WlInv, n

(* What workspace_send_group does. *)
Entered(old, g, enter) == IF enter THEN old \cup {g} ELSE old \ {g}
SpacesHear(s, n, ws, g, enter) ==
  /\ n \in WlShape /\ n.slice = s.slice /\ n.mgr = s.mgr /\ n.seen = s.seen /\ TopsRest(s, n)
  /\ n.grp = s.grp /\ n.ghnd = s.ghnd /\ n.spc = s.spc /\ n.reqs = s.reqs
  /\ (s.fresh => s.sched) => (n.fresh => n.sched)
  /\ \A w \in WlSpace : /\ n.shnd[w].on = s.shnd[w].on /\ n.shnd[w].state = s.shnd[w].state
                        /\ n.shnd[w].groups = IF w \in ws /\ s.shnd[w].on /\ s.ghnd[g].on
                                              THEN Entered(s.shnd[w].groups, g, enter) ELSE s.shnd[w].groups

LEMMA SpacesSent ==
  ASSUME NEW s \in WlShape, NEW ws \in SUBSET WlSpace, NEW g \in WlGroup, NEW enter \in BOOLEAN
  PROVE  SpacesHear(s, workspace_send_group(s, ws, g, enter), ws, g, enter)
<1> DEFINE told == {w \in ws : s.shnd[w].on /\ s.ghnd[g].on}
           E(w) == [s.shnd[w] EXCEPT !.groups = Entered(@, g, enter)]
           S == [w \in WlSpace |-> IF w \in told THEN E(w) ELSE s.shnd[w]]
           n == workspace_send_group(s, ws, g, enter)
           f == s.fresh \/ (told # {} /\ s.mgr = "bound")
           d == s.sched \/ ws # {}
<1>t. s.shnd \in [WlSpace -> SpaceHandles] /\ s.fresh \in BOOLEAN /\ s.sched \in BOOLEAN
  BY WlTyped
<1>1. ASSUME NEW w \in WlSpace
      PROVE  /\ E(w) \in SpaceHandles /\ E(w).on = s.shnd[w].on /\ E(w).state = s.shnd[w].state
             /\ E(w).groups = Entered(s.shnd[w].groups, g, enter)
  <2>1. s.shnd[w] \in SpaceHandles
    BY <1>t
  <2>2. Entered(s.shnd[w].groups, g, enter) \in SUBSET WlGroup
    BY <2>1 DEF Entered, SpaceHandles
  <2> QED
    BY <2>1, <2>2 DEF SpaceHandles
<1>2. n = [s EXCEPT !.shnd = S, !.fresh = f, !.sched = d]
  BY DEF workspace_send_group, manager_schedule_done, Heard, WlShape, Entered
<1> HIDE DEF E
<1>3. S \in [WlSpace -> SpaceHandles] /\ f \in BOOLEAN /\ d \in BOOLEAN
      /\ \A w \in WlSpace : S[w] = IF w \in ws /\ s.shnd[w].on /\ s.ghnd[g].on THEN E(w) ELSE s.shnd[w]
  BY <1>t, <1>1
<1>6. (s.fresh => s.sched) => (f => d)
  OBVIOUS
<1> HIDE DEF S, f, d, n
<1>4. n \in WlShape
  BY <1>2, <1>3 DEF WlShape
<1>5. /\ n.slice = s.slice /\ n.mgr = s.mgr /\ n.seen = s.seen /\ TopsRest(s, n)
      /\ n.grp = s.grp /\ n.ghnd = s.ghnd /\ n.spc = s.spc /\ n.reqs = s.reqs
      /\ n.shnd = S /\ n.fresh = f /\ n.sched = d
  BY <1>2, <1>3 DEF WlShape, TopsRest
<1>7. \A w \in WlSpace : /\ S[w].on = s.shnd[w].on /\ S[w].state = s.shnd[w].state
                         /\ S[w].groups = IF w \in ws /\ s.shnd[w].on /\ s.ghnd[g].on
                                          THEN Entered(s.shnd[w].groups, g, enter) ELSE s.shnd[w].groups
  <2> SUFFICES ASSUME NEW w \in WlSpace
               PROVE  /\ S[w].on = s.shnd[w].on /\ S[w].state = s.shnd[w].state
                      /\ S[w].groups = IF w \in ws /\ s.shnd[w].on /\ s.ghnd[g].on
                                       THEN Entered(s.shnd[w].groups, g, enter) ELSE s.shnd[w].groups
    OBVIOUS
  <2>1. CASE w \in ws /\ s.shnd[w].on /\ s.ghnd[g].on
    BY <1>1, <1>3, <2>1
  <2>2. CASE ~(w \in ws /\ s.shnd[w].on /\ s.ghnd[g].on)
    BY <1>3, <2>2
  <2> QED
    BY <2>1, <2>2
<1> QED
  BY <1>4, <1>5, <1>6, <1>7 DEF n, SpacesHear

(* A workspace and its handle agree. *)
Agreed(ghnd, x, y) ==
  y.on => x.on /\ y.state = x.state /\ y.groups = {h \in {x.group} \ {"none"} : ghnd[h].on}

LEMMA StateSet ==
  ASSUME WlInv, NEW w \in WlSpace, NEW v \in {0, 1}, workspace_set_state(w, v)
  PROVE  WlInv'
<1> USE SpacesKnown
<1> DEFINE x == [wls.spc[w] EXCEPT !.state = v]
           y == [wls.shnd[w] EXCEPT !.state = IF wls.shnd[w].on THEN v ELSE @]
           C == [wls.spc EXCEPT ![w] = x]
           S == [wls.shnd EXCEPT ![w] = y]
           f == wls.fresh \/ (S[w].on /\ wls.mgr = "bound")
<1>0. wls.spc[w] \in SpaceShape /\ wls.shnd[w] \in SpaceHandles
  OBVIOUS
<1>1. SpaceStep(wls, wls', wls.mgr, wls.grp, wls.ghnd, C, S, wls.reqs, TRUE, f)
  <2> DEFINE s == [wls EXCEPT !.spc[w].state = v, !.shnd[w].state = IF wls.shnd[w].on THEN v ELSE @]
  <2>1. wls' = manager_schedule_done(Heard(s, s.shnd[w].on), TRUE)
    BY DEF workspace_set_state
  <2>2. s = [wls EXCEPT !.spc = C, !.shnd = S]
    BY DEF WlShape
  <2> HIDE DEF s, C, S
  <2> QED
    BY <2>1, <2>2 DEF manager_schedule_done, Heard, WlShape, SpaceStep
<1>2. /\ x \in SpaceShape /\ x.on = wls.spc[w].on /\ x.group = wls.spc[w].group /\ x.state = v
      /\ y \in SpaceHandles /\ y.on = wls.shnd[w].on /\ y.groups = wls.shnd[w].groups /\ (y.on => y.state = v)
  BY <1>0 DEF SpaceShape, SpaceHandles
<1> HIDE DEF x, y
<1>3. /\ C \in [WlSpace -> SpaceShape] /\ S \in [WlSpace -> SpaceHandles] /\ C[w] = x /\ S[w] = y
      /\ \A u \in WlSpace \ {w} : C[u] = wls.spc[u] /\ S[u] = wls.shnd[u]
  BY <1>2
<1>4. f \in BOOLEAN
  BY <1>2, <1>3 DEF SpaceHandles
<1> HIDE DEF C, S, f
<1>5. SpaceTypes(wls.grp, wls.ghnd, C, S, wls.reqs, TRUE, f)
  BY <1>3, <1>4 DEF SpaceTypes
<1>6. SpacesSound(wls.grp, wls.ghnd, C, S)
  <2> SUFFICES ASSUME NEW u \in WlSpace
               PROVE  /\ C[u].group # "none" => wls.grp[C[u].group].on
                      /\ Agreed(wls.ghnd, C[u], S[u])
    BY DEF SpacesSound, Agreed
  <2>0. (wls.spc[u].group # "none" => wls.grp[wls.spc[u].group].on) /\ Agreed(wls.ghnd, wls.spc[u], wls.shnd[u])
    BY DEF SpacesSound, Agreed
  <2>1. CASE u = w
    BY <1>2, <1>3, <2>0, <2>1 DEF Agreed
  <2>2. CASE u # w
    BY <1>3, <2>0, <2>2
  <2> QED
    BY <2>1, <2>2
<1>7. ReqsSound(wls.grp, C, wls.reqs)
  <2>1. \A u \in WlSpace : C[u].on = wls.spc[u].on
    BY <1>2, <1>3
  <2>2. \A i \in 1..Len(wls.reqs) : wls.reqs[i] \in WlRequests
    OBVIOUS
  <2> QED
    BY <2>1, <2>2 DEF ReqsSound, WlRequests
<1>8. wls' \in WlShape /\ TaskbarInv(wls') /\ SpacesInv(wls')
  BY <1>1, <1>5, <1>6, <1>7, SpaceStepping
<1> QED
  BY <1>8 DEF WlInv

LEMMA SpaceNew ==
  ASSUME WlInv, NEW w \in WlSpace, wlr_ext_workspace_handle_v1_create(w)
  PROVE  WlInv'
<1> USE SpacesKnown
<1> DEFINE x == [NoSpace EXCEPT !.on = TRUE]
           told == wls.mgr = "bound"
           y == IF told THEN [on |-> TRUE, groups |-> {}, state |-> 0] ELSE wls.shnd[w]
           C == [wls.spc EXCEPT ![w] = x]
           S == [wls.shnd EXCEPT ![w] = y]
           f == wls.fresh \/ told
<1>0. x \in SpaceShape /\ x.on = TRUE /\ x.group = "none" /\ x.state = 0
  BY DEF SpaceShape, NoSpace
<1>1. SpaceStep(wls, wls', wls.mgr, wls.grp, wls.ghnd, C, S, wls.reqs, TRUE, f)
  <2>1. wls' = manager_schedule_done(
           IF told THEN create_workspace_resource([wls EXCEPT !.spc = C], {w}, {}) ELSE [wls EXCEPT !.spc = C], TRUE)
    BY DEF wlr_ext_workspace_handle_v1_create, WlShape
  <2>2. C[w] = x
    OBVIOUS
  <2> HIDE DEF x
  <2>3. CASE told
    <3>1. S = [v \in WlSpace |-> IF v \in {w} THEN [on |-> TRUE, groups |-> {C[v].group} \cap {}, state |-> C[v].state]
                                 ELSE wls.shnd[v]]
      BY <1>0, <2>2, <2>3
    <3> HIDE DEF C, S
    <3> QED
      BY <2>1, <2>3, <3>1 DEF create_workspace_resource, Heard, manager_schedule_done, WlShape, SpaceStep
  <2>4. CASE ~told
    <3>1. S = wls.shnd
      BY <2>4
    <3> HIDE DEF C, S
    <3> QED
      BY <2>1, <2>4, <3>1 DEF manager_schedule_done, WlShape, SpaceStep
  <2> QED
    BY <2>3, <2>4
<1>2. f \in BOOLEAN /\ ~wls.spc[w].on
  BY DEF wlr_ext_workspace_handle_v1_create
<1>3. y \in SpaceHandles /\ (y.on => y.groups = {} /\ y.state = 0)
  BY <1>2 DEF SpaceHandles, SpacesSound
<1> HIDE DEF x, y
<1>4. /\ C \in [WlSpace -> SpaceShape] /\ S \in [WlSpace -> SpaceHandles] /\ C[w] = x /\ S[w] = y
      /\ \A u \in WlSpace \ {w} : C[u] = wls.spc[u] /\ S[u] = wls.shnd[u]
  BY <1>0, <1>3
<1> HIDE DEF C, S, f
<1>5. SpaceTypes(wls.grp, wls.ghnd, C, S, wls.reqs, TRUE, f)
  BY <1>2, <1>4 DEF SpaceTypes
<1>6. SpacesSound(wls.grp, wls.ghnd, C, S)
  <2> SUFFICES ASSUME NEW u \in WlSpace
               PROVE  /\ C[u].group # "none" => wls.grp[C[u].group].on
                      /\ Agreed(wls.ghnd, C[u], S[u])
    BY DEF SpacesSound, Agreed
  <2>1. CASE u = w
    BY <1>0, <1>3, <1>4, <2>1 DEF Agreed
  <2>2. CASE u # w
    BY <1>4, <2>2 DEF SpacesSound, Agreed
  <2> QED
    BY <2>1, <2>2
<1>7. ReqsSound(wls.grp, C, wls.reqs)
  <2>1. \A u \in WlSpace : wls.spc[u].on => C[u].on
    BY <1>0, <1>4
  <2>2. \A i \in 1..Len(wls.reqs) : wls.reqs[i] \in WlRequests
    OBVIOUS
  <2> QED
    BY <2>1, <2>2 DEF ReqsSound, WlRequests
<1>8. wls' \in WlShape /\ TaskbarInv(wls') /\ SpacesInv(wls')
  BY <1>1, <1>5, <1>6, <1>7, SpaceStepping
<1> QED
  BY <1>8 DEF WlInv

(* The requests that name an object that goes. *)
ClearedOf(q, w, g) ==
  [i \in DOMAIN q |-> [w |-> IF q[i].w = w THEN "none" ELSE q[i].w, g |-> IF q[i].g = g THEN "none" ELSE q[i].g]]
Unnamed(q, R, w, g) ==
  /\ R \in Seq(WlRequests) /\ Len(R) = Len(q)
  /\ \A i \in 1..Len(q) : /\ R[i].w = (IF q[i].w = w THEN "none" ELSE q[i].w)
                          /\ R[i].g = (IF q[i].g = g THEN "none" ELSE q[i].g)

LEMMA Clearing ==
  ASSUME NEW q \in Seq(WlRequests), NEW w, NEW g
  PROVE  Unnamed(q, ClearedOf(q, w, g), w, g)
<1> DEFINE r(i) == [w |-> IF q[i].w = w THEN "none" ELSE q[i].w, g |-> IF q[i].g = g THEN "none" ELSE q[i].g]
           R == ClearedOf(q, w, g)
<1>1. Len(q) \in Nat /\ DOMAIN q = 1..Len(q)
  OBVIOUS
<1>2. ASSUME NEW i \in 1..Len(q)
      PROVE  /\ r(i) \in WlRequests /\ r(i).w = (IF q[i].w = w THEN "none" ELSE q[i].w)
             /\ r(i).g = (IF q[i].g = g THEN "none" ELSE q[i].g)
  <2>1. q[i] \in WlRequests
    OBVIOUS
  <2> QED
    BY <2>1 DEF WlRequests
<1>3. R = [i \in 1..Len(q) |-> r(i)]
  BY <1>1 DEF ClearedOf
<1> HIDE DEF r, R
<1>4. R \in [1..Len(q) -> WlRequests] /\ \A i \in 1..Len(q) : R[i] = r(i)
  BY <1>2, <1>3
<1>5. R \in Seq(WlRequests) /\ Len(R) = Len(q)
  BY <1>1, <1>4
<1> QED
  BY <1>2, <1>4, <1>5 DEF Unnamed, R

LEMMA SpaceGone ==
  ASSUME WlInv, NEW w \in WlSpace, wlr_ext_workspace_handle_v1_destroy(w)
  PROVE  WlInv'
<1> USE SpacesKnown
<1> DEFINE C == [wls.spc EXCEPT ![w] = NoSpace]
           S == [wls.shnd EXCEPT ![w] = NoSpaceHandle]
           R == ClearedOf(wls.reqs, w, "nobody")
           f == wls.fresh \/ (wls.shnd[w].on /\ wls.mgr = "bound")
<1>1. SpaceStep(wls, wls', wls.mgr, wls.grp, wls.ghnd, C, S, R, TRUE, f)
  <2> DEFINE gone == [Heard(wls, wls.shnd[w].on) EXCEPT !.shnd[w] = NoSpaceHandle]
  <2>1. wls' = manager_schedule_done([clear_requests_by(gone, w, "nobody") EXCEPT !.spc[w] = NoSpace], TRUE)
    BY DEF wlr_ext_workspace_handle_v1_destroy
  <2>2. gone = [wls EXCEPT !.fresh = f, !.shnd = S]
    BY DEF Heard, WlShape
  <2> HIDE DEF gone, f, S
  <2>3. gone.reqs = wls.reqs /\ gone.spc = wls.spc
    BY <2>2 DEF WlShape
  <2>4. clear_requests_by(gone, w, "nobody") = [wls EXCEPT !.fresh = f, !.shnd = S, !.reqs = R]
    BY <2>2, <2>3 DEF clear_requests_by, ClearedOf, WlShape
  <2> HIDE DEF R
  <2> QED
    BY <2>1, <2>4 DEF manager_schedule_done, WlShape, SpaceStep
<1>2. f \in BOOLEAN
  <2>1. wls.shnd[w] \in SpaceHandles
    OBVIOUS
  <2> QED
    BY <2>1 DEF SpaceHandles
<1>3. /\ C \in [WlSpace -> SpaceShape] /\ S \in [WlSpace -> SpaceHandles] /\ C[w] = NoSpace /\ S[w] = NoSpaceHandle
      /\ \A u \in WlSpace \ {w} : C[u] = wls.spc[u] /\ S[u] = wls.shnd[u]
  BY NoneShapes
<1>4. Unnamed(wls.reqs, R, w, "nobody")
  BY Clearing
<1> HIDE DEF C, S, f, R
<1>5. SpaceTypes(wls.grp, wls.ghnd, C, S, R, TRUE, f)
  BY <1>2, <1>3, <1>4 DEF SpaceTypes, Unnamed
<1>6. SpacesSound(wls.grp, wls.ghnd, C, S)
  <2> SUFFICES ASSUME NEW u \in WlSpace
               PROVE  /\ C[u].group # "none" => wls.grp[C[u].group].on
                      /\ Agreed(wls.ghnd, C[u], S[u])
    BY DEF SpacesSound, Agreed
  <2>1. CASE u = w
    BY <1>3, <2>1, NoneShapes DEF Agreed
  <2>2. CASE u # w
    BY <1>3, <2>2 DEF SpacesSound, Agreed
  <2> QED
    BY <2>1, <2>2
<1>7. ReqsSound(wls.grp, C, R)
  <2> SUFFICES ASSUME NEW i \in 1..Len(wls.reqs)
               PROVE  (R[i].w # "none" => C[R[i].w].on) /\ (R[i].g # "none" => wls.grp[R[i].g].on)
    BY <1>4 DEF ReqsSound, Unnamed
  <2>1. /\ R[i].w = (IF wls.reqs[i].w = w THEN "none" ELSE wls.reqs[i].w)
        /\ R[i].g = (IF wls.reqs[i].g = "nobody" THEN "none" ELSE wls.reqs[i].g)
    BY <1>4 DEF Unnamed
  <2>2. wls.reqs[i] \in WlRequests /\ (wls.reqs[i].w # "none" => wls.spc[wls.reqs[i].w].on)
        /\ (wls.reqs[i].g # "none" => wls.grp[wls.reqs[i].g].on)
    BY DEF ReqsSound
  <2> QED
    BY <1>3, <2>1, <2>2 DEF WlRequests
<1>8. wls' \in WlShape /\ TaskbarInv(wls') /\ SpacesInv(wls')
  BY <1>1, <1>5, <1>6, <1>7, SpaceStepping
<1> QED
  BY <1>8 DEF WlInv

(* All workspaces are sound but w, which is told of no group. *)
Outside(s, w) ==
  /\ s \in WlShape /\ TaskbarInv(s) /\ GroupsSound(s.grp, s.ghnd, s.seen) /\ ReqsSound(s.grp, s.spc, s.reqs)
  /\ s.fresh => s.sched
  /\ \A u \in WlSpace \ {w} : /\ s.spc[u].group # "none" => s.grp[s.spc[u].group].on
                              /\ Agreed(s.ghnd, s.spc[u], s.shnd[u])
  /\ s.shnd[w].on => s.spc[w].on /\ s.shnd[w].state = s.spc[w].state /\ s.shnd[w].groups = {}

LEMMA Leaving ==
  ASSUME WlInv, NEW w \in WlSpace, NEW old, NEW left, old = wls.spc[w].group,
         left = IF old = "none" THEN wls ELSE workspace_send_group(wls, {w}, old, FALSE)
  PROVE  Outside(left, w) /\ left.spc = wls.spc /\ left.grp = wls.grp
<1> USE SpacesKnown
<1>1. \A u \in WlSpace : /\ wls.spc[u].group # "none" => wls.grp[wls.spc[u].group].on
                         /\ Agreed(wls.ghnd, wls.spc[u], wls.shnd[u])
  BY DEF SpacesSound, Agreed
<1>2. CASE old = "none"
  <2>1. left = wls
    BY <1>2
  <2> QED
    BY ZenonT(60), <1>1, <1>2, <2>1 DEF Outside, Agreed
<1>3. CASE old # "none"
  <2>0. old \in WlGroup /\ {w} \in SUBSET WlSpace
    BY <1>3 DEF SpaceShape
  <2>1. SpacesHear(wls, left, {w}, old, FALSE)
    <3>1. left = workspace_send_group(wls, {w}, old, FALSE)
      BY <1>3
    <3> QED
      BY <2>0, <3>1, SpacesSent
  <2>2. /\ left \in WlShape /\ left.slice = wls.slice /\ left.seen = wls.seen /\ TopsRest(wls, left)
        /\ left.grp = wls.grp /\ left.ghnd = wls.ghnd /\ left.spc = wls.spc /\ left.reqs = wls.reqs
        /\ left.fresh => left.sched
    BY <2>1 DEF SpacesHear
  <2>3. TaskbarInv(left)
    BY <2>2, TopsResting
  <2>4. ASSUME NEW u \in WlSpace \ {w}
        PROVE  Agreed(left.ghnd, left.spc[u], left.shnd[u])
    <3>1. left.shnd[u].on = wls.shnd[u].on /\ left.shnd[u].state = wls.shnd[u].state
          /\ left.shnd[u].groups = wls.shnd[u].groups
      BY <2>1, <2>4 DEF SpacesHear
    <3>2. left.spc[u] = wls.spc[u] /\ left.ghnd = wls.ghnd
      BY <2>2
    <3>3. Agreed(wls.ghnd, wls.spc[u], wls.shnd[u])
      BY <1>1
    <3> QED
      BY ONLY <3>1, <3>2, <3>3 DEF Agreed
  <2>5. left.shnd[w].on => left.spc[w].on /\ left.shnd[w].state = left.spc[w].state /\ left.shnd[w].groups = {}
    <3>1. /\ left.shnd[w].on = wls.shnd[w].on /\ left.shnd[w].state = wls.shnd[w].state
          /\ left.shnd[w].groups = IF wls.shnd[w].on /\ wls.ghnd[old].on
                                   THEN wls.shnd[w].groups \ {old} ELSE wls.shnd[w].groups
      BY <2>1 DEF SpacesHear, Entered
    <3>2. left.spc[w] = wls.spc[w] /\ Agreed(wls.ghnd, wls.spc[w], wls.shnd[w])
      BY <1>1, <2>2
    <3> QED
      BY ONLY <1>3, <3>1, <3>2, old = wls.spc[w].group DEF Agreed
  <2> QED
    BY ZenonT(60), <1>1, <2>2, <2>3, <2>4, <2>5 DEF Outside
<1> QED
  BY <1>2, <1>3

LEMMA GroupSet ==
  ASSUME WlInv, NEW w \in WlSpace, NEW g \in WlGroup \cup {"none"}, wlr_ext_workspace_handle_v1_set_group(w, g)
  PROVE  WlInv'
<1> DEFINE old == wls.spc[w].group
           left == IF old = "none" THEN wls ELSE workspace_send_group(wls, {w}, old, FALSE)
           s == [left EXCEPT !.spc[w].group = g]
           x == [left.spc[w] EXCEPT !.group = g]
           C == [left.spc EXCEPT ![w] = x]
<1>1. /\ wls.spc[w].on /\ g \in LiveGroups(wls) \cup {"none"}
      /\ wls' = IF g = "none" THEN s ELSE workspace_send_group(s, {w}, g, TRUE)
  BY DEF wlr_ext_workspace_handle_v1_set_group
<1>2. Outside(left, w) /\ left.spc = wls.spc /\ left.grp = wls.grp
  BY Leaving
<1> HIDE DEF left
<1>3. left \in WlShape /\ left.spc \in [WlSpace -> SpaceShape] /\ left.spc[w] \in SpaceShape
      /\ left.shnd \in [WlSpace -> SpaceHandles] /\ left.reqs \in Seq(WlRequests)
  BY <1>2, WlTyped DEF Outside
<1>4. s = [left EXCEPT !.spc = C]
  BY <1>3 DEF WlShape
<1>5. x \in SpaceShape /\ x.on = left.spc[w].on /\ x.state = left.spc[w].state /\ x.group = g
  BY <1>3 DEF SpaceShape
<1> HIDE DEF x
<1>6. C \in [WlSpace -> SpaceShape] /\ C[w] = x /\ \A u \in WlSpace \ {w} : C[u] = left.spc[u]
  BY <1>3, <1>5
<1> HIDE DEF C, s
<1>7. /\ s \in WlShape /\ s.spc = C /\ s.shnd = left.shnd /\ s.grp = left.grp /\ s.ghnd = left.ghnd
      /\ s.reqs = left.reqs /\ s.fresh = left.fresh /\ s.sched = left.sched /\ s.seen = left.seen
      /\ s.slice = left.slice /\ TopsRest(left, s)
  BY <1>3, <1>4, <1>6 DEF WlShape, TopsRest
<1>8. TaskbarInv(s)
  BY <1>2, <1>7, TopsResting DEF Outside
<1>9. ReqsSound(s.grp, s.spc, s.reqs)
  <2>1. \A u \in WlSpace : C[u].on = left.spc[u].on
    BY <1>5, <1>6
  <2>2. \A i \in 1..Len(left.reqs) : left.reqs[i] \in WlRequests
    BY <1>3
  <2> QED
    BY <1>2, <1>7, <2>1, <2>2 DEF ReqsSound, WlRequests, Outside
<1>10. GroupsSound(s.grp, s.ghnd, s.seen) /\ (s.fresh => s.sched) /\ (g # "none" => s.grp[g].on)
  BY <1>1, <1>2, <1>7 DEF Outside, LiveGroups
<1>11. ASSUME NEW u \in WlSpace
       PROVE  /\ s.spc[u].group # "none" => s.grp[s.spc[u].group].on
              /\ u # w => Agreed(s.ghnd, s.spc[u], s.shnd[u])
              /\ u = w => (s.shnd[u].on => s.spc[u].on /\ s.shnd[u].state = s.spc[u].state /\ s.shnd[u].groups = {})
  <2>1. CASE u = w
    BY <1>2, <1>5, <1>6, <1>7, <1>10, <2>1 DEF Outside
  <2>2. CASE u # w
    BY <1>2, <1>6, <1>7, <2>2 DEF Outside
  <2> QED
    BY <2>1, <2>2
<1>12. CASE g = "none"
  <2>1. wls' = s
    BY <1>1, <1>12
  <2>2. SpacesSound(s.grp, s.ghnd, s.spc, s.shnd)
    <3> SUFFICES ASSUME NEW u \in WlSpace
                 PROVE  /\ s.spc[u].group # "none" => s.grp[s.spc[u].group].on
                        /\ Agreed(s.ghnd, s.spc[u], s.shnd[u])
      BY DEF SpacesSound, Agreed
    <3>1. s.spc[w].group = "none"
      BY <1>5, <1>6, <1>7, <1>12
    <3> QED
      BY <1>11, <3>1 DEF Agreed
  <2> QED
    BY <1>7, <1>8, <1>9, <1>10, <2>1, <2>2 DEF WlInv, SpacesInv
<1>13. CASE g # "none"
  <2> DEFINE n == workspace_send_group(s, {w}, g, TRUE)
  <2>1. wls' = n /\ g \in WlGroup /\ {w} \in SUBSET WlSpace
    BY <1>1, <1>13
  <2>2. SpacesHear(s, n, {w}, g, TRUE)
    BY <1>7, <2>1, SpacesSent
  <2> HIDE DEF n
  <2>3. /\ n \in WlShape /\ n.slice = s.slice /\ n.seen = s.seen /\ TopsRest(s, n)
        /\ n.grp = s.grp /\ n.ghnd = s.ghnd /\ n.spc = s.spc /\ n.reqs = s.reqs
        /\ n.fresh => n.sched
    BY <1>10, <2>2 DEF SpacesHear
  <2>4. TaskbarInv(n)
    BY <1>8, <2>3, TopsResting
  <2>5. SpacesSound(n.grp, n.ghnd, n.spc, n.shnd)
    <3> SUFFICES ASSUME NEW u \in WlSpace
                 PROVE  /\ n.spc[u].group # "none" => n.grp[n.spc[u].group].on
                        /\ Agreed(n.ghnd, n.spc[u], n.shnd[u])
      BY DEF SpacesSound, Agreed
    <3>1. /\ n.shnd[u].on = s.shnd[u].on /\ n.shnd[u].state = s.shnd[u].state
          /\ n.shnd[u].groups = IF u = w /\ s.shnd[u].on /\ s.ghnd[g].on
                                THEN s.shnd[u].groups \cup {g} ELSE s.shnd[u].groups
      BY <2>2 DEF SpacesHear, Entered
    <3>2. CASE u = w
      <4>1. s.spc[w].group = g
        BY <1>5, <1>6, <1>7
      <4>2. n.shnd[u].on => n.shnd[u].groups = {h \in {g} \ {"none"} : n.ghnd[h].on}
        BY <1>11, <1>13, <2>3, <3>1, <3>2
      <4> QED
        BY <1>11, <2>3, <3>1, <3>2, <4>1, <4>2 DEF Agreed
    <3>3. CASE u # w
      BY <1>11, <2>3, <3>1, <3>3 DEF Agreed
    <3> QED
      BY <3>2, <3>3
  <2> QED
    BY <1>9, <1>10, <2>1, <2>3, <2>4, <2>5 DEF WlInv, SpacesInv
<1> QED
  BY <1>12, <1>13

LEMMA GroupGone ==
  ASSUME WlInv, NEW g \in WlGroup, wlr_ext_workspace_group_handle_v1_destroy(g)
  PROVE  WlInv'
<1> USE SpacesKnown
<1> DEFINE ws == {w \in WlSpace : wls.spc[w].group = g}
           n == workspace_send_group(wls, ws, g, FALSE)
           P == [wls.grp EXCEPT ![g] = NoGroup]
           G == [wls.ghnd EXCEPT ![g] = NoGroup]
           x(w) == [wls.spc[w] EXCEPT !.group = "none"]
           C == [w \in WlSpace |-> IF w \in ws THEN x(w) ELSE wls.spc[w]]
           R == ClearedOf(wls.reqs, "nobody", g)
           f == n.fresh \/ (wls.ghnd[g].on /\ wls.mgr = "bound")
           left == [n EXCEPT !.spc = [w \in WlSpace |-> IF w \in ws THEN [@[w] EXCEPT !.group = "none"] ELSE @[w]]]
           gone == [Heard(left, left.ghnd[g].on) EXCEPT !.ghnd[g] = NoGroup]
<1>1. wls' = manager_schedule_done([clear_requests_by(gone, "nobody", g) EXCEPT !.grp[g] = NoGroup], TRUE)
  BY ZenonT(60) DEF wlr_ext_workspace_group_handle_v1_destroy
<1>2. SpacesHear(wls, n, ws, g, FALSE)
  <2>1. ws \in SUBSET WlSpace
    OBVIOUS
  <2> HIDE DEF ws
  <2> QED
    BY <2>1, SpacesSent
<1> HIDE DEF n, ws
<1>3. /\ n \in WlShape /\ n.slice = wls.slice /\ n.seen = wls.seen /\ n.mgr = wls.mgr /\ TopsRest(wls, n)
      /\ n.grp = wls.grp /\ n.ghnd = wls.ghnd /\ n.spc = wls.spc /\ n.reqs = wls.reqs
      /\ n.shnd \in [WlSpace -> SpaceHandles] /\ n.fresh \in BOOLEAN
      /\ n.sched \in BOOLEAN
  BY <1>2, WlTyped DEF SpacesHear
<1>4. left = [n EXCEPT !.spc = C]
  BY <1>3 DEF WlShape
<1>5. ASSUME NEW w \in WlSpace
      PROVE  x(w) \in SpaceShape /\ x(w).on = wls.spc[w].on /\ x(w).state = wls.spc[w].state /\ x(w).group = "none"
  <2>1. wls.spc[w] \in SpaceShape
    OBVIOUS
  <2> QED
    BY <2>1 DEF SpaceShape
<1> HIDE DEF x, left
<1>6. C \in [WlSpace -> SpaceShape] /\ \A w \in WlSpace : C[w] = IF w \in ws THEN x(w) ELSE wls.spc[w]
  BY <1>5
<1> HIDE DEF C
<1>7. left.ghnd = wls.ghnd /\ left.mgr = wls.mgr /\ left.fresh = n.fresh /\ left \in WlShape
  BY <1>3, <1>4, <1>6 DEF WlShape
<1>8. gone = [left EXCEPT !.fresh = f, !.ghnd = G]
  BY <1>7 DEF Heard, WlShape
<1>9. gone = [n EXCEPT !.spc = C, !.fresh = f, !.ghnd = G]
  <2> HIDE DEF gone, f, G
  <2> QED
    BY <1>3, <1>4, <1>8 DEF WlShape
<1> HIDE DEF gone, f, G
<1>10. gone.reqs = wls.reqs /\ gone.grp = wls.grp
  BY <1>3, <1>9 DEF WlShape
<1>11. clear_requests_by(gone, "nobody", g) = [n EXCEPT !.spc = C, !.fresh = f, !.ghnd = G, !.reqs = R]
  <2>1. clear_requests_by(gone, "nobody", g) = [gone EXCEPT !.reqs = R]
    BY <1>10 DEF clear_requests_by, ClearedOf
  <2> HIDE DEF R
  <2> QED
    BY <1>3, <1>9, <2>1 DEF WlShape
<1> HIDE DEF R
<1>12. SpaceStep(n, wls', n.mgr, P, G, C, n.shnd, R, TRUE, f)
  <2>1. [clear_requests_by(gone, "nobody", g) EXCEPT !.grp[g] = NoGroup] =
          [n EXCEPT !.spc = C, !.fresh = f, !.ghnd = G, !.reqs = R, !.grp = P]
    BY <1>3, <1>11 DEF WlShape
  <2> HIDE DEF P
  <2> DEFINE m == [clear_requests_by(gone, "nobody", g) EXCEPT !.grp[g] = NoGroup]
  <2>2. m = [n EXCEPT !.spc = C, !.fresh = f, !.ghnd = G, !.reqs = R, !.grp = P] /\ wls' = [m EXCEPT !.sched = m.sched \/ TRUE]
    BY <1>1, <2>1 DEF manager_schedule_done
  <2> HIDE DEF m
  <2>3. wls' = [m EXCEPT !.sched = TRUE]
    <3>1. (m.sched \/ TRUE) = TRUE
      OBVIOUS
    <3> QED
      BY <2>2, <3>1
  <2> QED
    BY ONLY <2>2, <2>3, <1>3, ZenonT(60) DEF WlShape, SpaceStep
<1>13. Unnamed(wls.reqs, R, "nobody", g)
  BY Clearing DEF R
<1>14. f \in BOOLEAN
  <2>1. wls.ghnd[g] \in GroupShape
    OBVIOUS
  <2> QED
    BY <1>3, <2>1 DEF f, GroupShape
<1>15. /\ P \in [WlGroup -> GroupShape] /\ G \in [WlGroup -> GroupShape] /\ P[g] = NoGroup /\ G[g] = NoGroup
       /\ \A h \in WlGroup \ {g} : P[h] = wls.grp[h] /\ G[h] = wls.ghnd[h]
  BY NoneShapes DEF G
<1> HIDE DEF P
<1>16. SpaceTypes(P, G, C, n.shnd, R, TRUE, f)
  BY <1>3, <1>6, <1>13, <1>14, <1>15 DEF SpaceTypes, Unnamed
<1>17. GroupsSound(P, G, n.seen)
  BY <1>3, <1>15, NoneShapes DEF GroupsSound
<1>18. SpacesSound(P, G, C, n.shnd)
  <2> SUFFICES ASSUME NEW w \in WlSpace
               PROVE  /\ C[w].group # "none" => P[C[w].group].on
                      /\ Agreed(G, C[w], n.shnd[w])
    BY DEF SpacesSound, Agreed
  <2>0. /\ wls.spc[w].group \in WlGroup \cup {"none"} /\ (wls.spc[w].group # "none" => wls.grp[wls.spc[w].group].on)
        /\ Agreed(wls.ghnd, wls.spc[w], wls.shnd[w])
    BY DEF SpaceShape, SpacesSound, Agreed
  <2>1. /\ n.shnd[w].on = wls.shnd[w].on /\ n.shnd[w].state = wls.shnd[w].state
        /\ n.shnd[w].groups = IF w \in ws /\ wls.shnd[w].on /\ wls.ghnd[g].on
                              THEN wls.shnd[w].groups \ {g} ELSE wls.shnd[w].groups
    BY <1>2 DEF SpacesHear, Entered
  <2>2. CASE w \in ws
    <3>1. wls.spc[w].group = g /\ C[w] = x(w)
      BY <1>6, <2>2 DEF ws
    <3>2. wls.shnd[w].on => n.shnd[w].groups = {}
      BY <2>0, <2>1, <2>2, <3>1 DEF Agreed
    <3> QED
      BY <1>5, <2>0, <2>1, <3>1, <3>2 DEF Agreed
  <2>3. CASE w \notin ws
    <3>1. wls.spc[w].group # g /\ C[w] = wls.spc[w]
      BY <1>6, <2>3 DEF ws
    <3>2. {h \in {wls.spc[w].group} \ {"none"} : wls.ghnd[h].on} = {h \in {wls.spc[w].group} \ {"none"} : G[h].on}
      BY <1>15, <2>0, <3>1
    <3>3. n.shnd[w].groups = wls.shnd[w].groups
      BY <2>1, <2>3
    <3> QED
      BY <1>15, <2>0, <2>1, <3>1, <3>2, <3>3 DEF Agreed
  <2> QED
    BY <2>2, <2>3
<1>19. ReqsSound(P, C, R)
  <2> SUFFICES ASSUME NEW i \in 1..Len(wls.reqs)
               PROVE  (R[i].w # "none" => C[R[i].w].on) /\ (R[i].g # "none" => P[R[i].g].on)
    BY <1>13 DEF ReqsSound, Unnamed
  <2>1. /\ R[i].w = (IF wls.reqs[i].w = "nobody" THEN "none" ELSE wls.reqs[i].w)
        /\ R[i].g = (IF wls.reqs[i].g = g THEN "none" ELSE wls.reqs[i].g)
    BY <1>13 DEF Unnamed
  <2>2. wls.reqs[i] \in WlRequests /\ (wls.reqs[i].w # "none" => wls.spc[wls.reqs[i].w].on)
        /\ (wls.reqs[i].g # "none" => wls.grp[wls.reqs[i].g].on)
    BY DEF ReqsSound
  <2>3. \A w \in WlSpace : C[w].on = wls.spc[w].on
    BY <1>5, <1>6
  <2> QED
    BY <1>15, <2>1, <2>2, <2>3 DEF WlRequests
<1>20. TaskbarInv(n)
  BY <1>3, TopsResting
<1>21. n.mgr \in {"none", "bound", "stopped"}
  BY <1>3
<1>22. wls' \in WlShape /\ TaskbarInv(wls') /\ SpacesInv(wls')
  BY <1>3, <1>12, <1>16, <1>17, <1>18, <1>19, <1>20, <1>21, SpaceStepping
<1> QED
  BY <1>22 DEF WlInv

(* A client stops the manager.                                              *)
LEMMA StopKept ==
  ASSUME WlInv, wls' = [wls EXCEPT !.mgr = "stopped"]
  PROVE  WlInv'
<1>1. wls' \in WlShape /\ TopsRest(wls, wls') /\ SpacesRest(wls, wls') /\ wls'.seen = wls.seen /\ wls'.slice = wls.slice
  BY DEF WlInv, WlShape, TopsRest, SpacesRest
<1>2. TaskbarInv(wls') /\ SpacesInv(wls')
  BY <1>1, TopsResting, SpacesResting DEF WlInv
<1> QED
  BY <1>1, <1>2 DEF WlInv

(* What a handle is told of the output when ts are told of it. *)
LEMMA HandleTold ==
  ASSUME NEW s \in WlShape, NEW n, NEW ts, NEW enter \in BOOLEAN, TopsHear(s, n, ts, enter), NEW t \in WlTop
  PROVE  /\ n.hnd[t].on = s.hnd[t].on /\ n.hnd[t].title = s.hnd[t].title /\ n.hnd[t].state = s.hnd[t].state
         /\ n.hnd[t].parent = s.hnd[t].parent
         /\ s.hnd[t].on => n.hnd[t].out = IF t \in ts /\ s.seen THEN enter ELSE s.hnd[t].out
         /\ n.hnd[t].more => t \in ts \/ s.hnd[t].more
<1>1. s.hnd[t] \in HandleShape
  BY WlTyped
<1>2. n.hnd[t] = IF t \in ts /\ s.seen THEN Told(s.hnd[t], [s.hnd[t] EXCEPT !.out = enter]) ELSE s.hnd[t]
  BY DEF TopsHear
<1>3. CASE t \in ts /\ s.seen
  BY <1>1, <1>2, <1>3 DEF Told, HandleShape
<1>4. CASE ~(t \in ts /\ s.seen)
  BY <1>2, <1>4
<1> QED
  BY <1>3, <1>4

GroupTold(s, n, gs, enter, g) ==
  /\ n.ghnd[g].on = s.ghnd[g].on
  /\ s.ghnd[g].on => n.ghnd[g].out = IF g \in gs /\ s.seen THEN enter ELSE s.ghnd[g].out

LEMMA GroupHandleTold ==
  ASSUME NEW s \in WlShape, NEW n, NEW gs, NEW enter \in BOOLEAN, GroupsHear(s, n, gs, enter), NEW g \in WlGroup
  PROVE  GroupTold(s, n, gs, enter, g)
<1>1. s.ghnd[g] \in GroupShape
  BY WlTyped
<1>2. n.ghnd[g] = IF g \in gs /\ s.ghnd[g].on /\ s.seen THEN [s.ghnd[g] EXCEPT !.out = enter] ELSE s.ghnd[g]
  BY DEF GroupsHear
<1>3. CASE g \in gs /\ s.ghnd[g].on /\ s.seen
  BY <1>1, <1>2, <1>3 DEF GroupShape, GroupTold
<1>4. CASE ~(g \in gs /\ s.ghnd[g].on /\ s.seen)
  BY <1>1, <1>2, <1>4 DEF GroupShape, GroupTold
<1> QED
  BY <1>3, <1>4

(* Between s and n only the outputs change.                                 *)
OutputsMove(s, n) ==
  /\ n \in WlShape /\ n.slice = s.slice /\ n.spc = s.spc /\ n.shnd = s.shnd /\ n.reqs = s.reqs
  /\ s.idle \subseteq n.idle /\ (n.fresh => n.sched)
  /\ \A t \in WlTop :
       /\ n.top[t].on = s.top[t].on /\ n.top[t].title = s.top[t].title /\ n.top[t].state = s.top[t].state
       /\ n.top[t].parent = s.top[t].parent
       /\ n.hnd[t].on = s.hnd[t].on /\ n.hnd[t].title = s.hnd[t].title /\ n.hnd[t].state = s.hnd[t].state
       /\ n.hnd[t].parent = s.hnd[t].parent
       /\ n.hnd[t].on => n.hnd[t].out = (n.top[t].out /\ n.seen)
       /\ n.hnd[t].more => t \in n.idle \/ s.hnd[t].more
  /\ \A g \in WlGroup : /\ n.grp[g].on = s.grp[g].on /\ n.ghnd[g].on = s.ghnd[g].on
                        /\ n.ghnd[g].on => n.ghnd[g].out = (n.grp[g].out /\ n.seen)

LEMMA OutputsMoved ==
  ASSUME NEW s \in WlShape, TaskbarInv(s), SpacesInv(s), NEW n, OutputsMove(s, n)
  PROVE  n \in WlShape /\ TaskbarInv(n) /\ SpacesInv(n)
<1>0. n \in WlShape
  BY DEF OutputsMove
<1>t. /\ s.spc \in [WlSpace -> SpaceShape] /\ s.reqs \in Seq(WlRequests)
  BY WlTyped
<1>1. ASSUME NEW t \in WlTop
      PROVE  /\ StandingTop(n.top, t) /\ (n.top[t].parent # "none" => n.slice = "toplevels")
             /\ Informed(n.top, n.hnd, n.seen, t) /\ (n.hnd[t].on /\ n.hnd[t].more => t \in n.idle)
  <2>1. /\ StandingTop(s.top, t) /\ (s.top[t].parent # "none" => s.slice = "toplevels")
        /\ Informed(s.top, s.hnd, s.seen, t) /\ (s.hnd[t].on /\ s.hnd[t].more => t \in s.idle)
    BY DEF TaskbarInv, TopsSound
  <2>2. \A u \in WlTop : n.top[u].on = s.top[u].on /\ n.hnd[u].on = s.hnd[u].on
    BY DEF OutputsMove
  <2>3. /\ n.top[t].title = s.top[t].title /\ n.top[t].state = s.top[t].state
        /\ n.top[t].parent = s.top[t].parent
        /\ n.hnd[t].title = s.hnd[t].title /\ n.hnd[t].state = s.hnd[t].state
        /\ n.hnd[t].parent = s.hnd[t].parent
        /\ n.hnd[t].on => n.hnd[t].out = (n.top[t].out /\ n.seen)
        /\ n.hnd[t].more => t \in n.idle \/ s.hnd[t].more
        /\ s.idle \subseteq n.idle /\ n.slice = s.slice
    BY DEF OutputsMove
  <2>4. StandingTop(n.top, t)
    BY <2>1, <2>2, <2>3 DEF StandingTop
  <2>5. Informed(n.top, n.hnd, n.seen, t)
    BY <2>1, <2>2, <2>3 DEF Informed, StandingTop
  <2> QED
    BY <2>1, <2>2, <2>3, <2>4, <2>5
<1>2. TaskbarInv(n)
  BY <1>1 DEF TaskbarInv, TopsSound
<1>3. \A g \in WlGroup : n.grp[g].on = s.grp[g].on /\ n.ghnd[g].on = s.ghnd[g].on
  BY DEF OutputsMove
<1>4. GroupsSound(n.grp, n.ghnd, n.seen)
  BY DEF SpacesInv, GroupsSound, OutputsMove
<1>5. SpacesSound(n.grp, n.ghnd, n.spc, n.shnd)
  <2> SUFFICES ASSUME NEW w \in WlSpace
               PROVE  /\ s.spc[w].group # "none" => n.grp[s.spc[w].group].on
                      /\ Agreed(n.ghnd, s.spc[w], s.shnd[w])
    BY DEF SpacesSound, Agreed, OutputsMove
  <2>1. /\ s.spc[w].group # "none" => s.grp[s.spc[w].group].on
        /\ Agreed(s.ghnd, s.spc[w], s.shnd[w])
    BY DEF SpacesInv, SpacesSound, Agreed
  <2>2. s.spc[w].group \in WlGroup \cup {"none"}
    BY <1>t DEF SpaceShape
  <2>3. {h \in {s.spc[w].group} \ {"none"} : s.ghnd[h].on} = {h \in {s.spc[w].group} \ {"none"} : n.ghnd[h].on}
    BY <1>3, <2>2
  <2> QED
    BY <1>3, <2>1, <2>2, <2>3 DEF Agreed
<1>6. ReqsSound(n.grp, n.spc, n.reqs)
  <2>1. \A i \in 1..Len(s.reqs) : s.reqs[i] \in WlRequests
    BY <1>t
  <2>2. ReqsSound(s.grp, s.spc, s.reqs) /\ n.spc = s.spc /\ n.reqs = s.reqs
    BY DEF SpacesInv, OutputsMove
  <2> QED
    BY <1>3, <2>1, <2>2 DEF ReqsSound, WlRequests
<1>7. SpacesInv(n)
  BY <1>4, <1>5, <1>6 DEF SpacesInv, OutputsMove
<1> QED
  BY <1>0, <1>2, <1>7

LEMMA OutputBound ==
  ASSUME WlInv, OutputBind
  PROVE  WlInv'
<1> USE SpacesKnown
<1> DEFINE a == [wls EXCEPT !.seen = TRUE]
           ts == {t \in WlTop : wls.top[t].out}
           gs == {g \in WlGroup : wls.grp[g].out}
           b == toplevel_send_output(a, ts, TRUE)
           n == group_send_output(b, gs, TRUE)
<1>1. wls' = n /\ ~wls.seen
  BY DEF OutputBind, toplevel_handle_output_bind
<1>2. /\ a \in WlShape /\ a.seen = TRUE /\ a.slice = wls.slice /\ a.top = wls.top /\ a.hnd = wls.hnd /\ a.idle = wls.idle
      /\ SpacesRest(wls, a)
  BY DEF WlShape, SpacesRest
<1>3. ts \in SUBSET WlTop /\ gs \in SUBSET WlGroup
  OBVIOUS
<1>9. (\A t \in WlTop : t \in ts <=> wls.top[t].out) /\ (\A g \in WlGroup : g \in gs <=> wls.grp[g].out)
  OBVIOUS
<1> HIDE DEF a, ts, gs
<1>4. TopsHear(a, b, ts, TRUE)
  BY <1>2, <1>3, OutputSent
<1> HIDE DEF b
<1>5. b \in WlShape
  BY <1>4 DEF TopsHear
<1>6. GroupsHear(b, n, gs, TRUE)
  BY <1>3, <1>5, GroupsSent
<1> HIDE DEF n
<1>7. /\ b.seen = TRUE /\ b.slice = wls.slice /\ b.top = wls.top /\ b.idle = wls.idle \cup ts
      /\ b.grp = wls.grp /\ b.ghnd = wls.ghnd /\ b.spc = wls.spc /\ b.shnd = wls.shnd /\ b.reqs = wls.reqs
      /\ (b.fresh => b.sched)
  BY <1>2, <1>4 DEF TopsHear, SpacesRest
<1>8. /\ n \in WlShape /\ n.seen = TRUE /\ n.slice = wls.slice /\ n.top = wls.top /\ n.hnd = b.hnd
      /\ n.idle = wls.idle \cup ts /\ n.grp = wls.grp /\ n.spc = wls.spc /\ n.shnd = wls.shnd /\ n.reqs = wls.reqs
      /\ (n.fresh => n.sched)
  BY <1>6, <1>7 DEF GroupsHear, TopsRest
<1>10. ASSUME NEW t \in WlTop
       PROVE  /\ n.hnd[t].on = wls.hnd[t].on /\ n.hnd[t].title = wls.hnd[t].title /\ n.hnd[t].state = wls.hnd[t].state
              /\ n.hnd[t].parent = wls.hnd[t].parent
              /\ n.hnd[t].on => n.hnd[t].out = (n.top[t].out /\ n.seen)
              /\ n.hnd[t].more => t \in n.idle \/ wls.hnd[t].more
  <2>1. /\ b.hnd[t].on = a.hnd[t].on /\ b.hnd[t].title = a.hnd[t].title /\ b.hnd[t].state = a.hnd[t].state
        /\ b.hnd[t].parent = a.hnd[t].parent
        /\ a.hnd[t].on => b.hnd[t].out = IF t \in ts /\ a.seen THEN TRUE ELSE a.hnd[t].out
        /\ b.hnd[t].more => t \in ts \/ a.hnd[t].more
    BY <1>2, <1>4, HandleTold
  <2>2. wls.hnd[t].on => wls.hnd[t].out = (wls.top[t].out /\ wls.seen)
    BY DEF TaskbarInv, TopsSound, Informed
  <2>3. wls.top[t] \in TopShape /\ wls.hnd[t] \in HandleShape
    BY WlTyped
  <2>4. wls.hnd[t].on => b.hnd[t].out = wls.top[t].out
    BY <1>1, <1>2, <1>9, <2>1, <2>2, <2>3 DEF TopShape, HandleShape
  <2> QED
    BY <1>2, <1>8, <2>1, <2>3, <2>4 DEF TopShape
<1>11. ASSUME NEW g \in WlGroup
       PROVE  n.ghnd[g].on = wls.ghnd[g].on /\ (n.ghnd[g].on => n.ghnd[g].out = (n.grp[g].out /\ n.seen))
  <2>1. /\ n.ghnd[g].on = b.ghnd[g].on
        /\ b.ghnd[g].on => n.ghnd[g].out = IF g \in gs /\ b.seen THEN TRUE ELSE b.ghnd[g].out
    <3>1. GroupTold(b, n, gs, TRUE, g)
      BY <1>5, <1>6, GroupHandleTold
    <3> QED
      BY <3>1 DEF GroupTold
  <2>2. wls.ghnd[g].on => wls.ghnd[g].out = (wls.grp[g].out /\ wls.seen)
    BY DEF GroupsSound
  <2>3. wls.grp[g] \in GroupShape /\ wls.ghnd[g] \in GroupShape
    OBVIOUS
  <2>4. wls.ghnd[g].on => n.ghnd[g].out = wls.grp[g].out
    BY <1>1, <1>7, <1>9, <2>1, <2>2, <2>3 DEF GroupShape
  <2> QED
    BY <1>7, <1>8, <2>1, <2>3, <2>4 DEF GroupShape
<1>12. OutputsMove(wls, n)
  BY <1>8, <1>10, <1>11 DEF OutputsMove
<1>13. n \in WlShape /\ TaskbarInv(n) /\ SpacesInv(n)
  BY <1>12, OutputsMoved DEF WlInv
<1> QED
  BY <1>1, <1>13 DEF WlInv

LEMMA OutputLost ==
  ASSUME WlInv, OutputGone
  PROVE  WlInv'
<1> USE SpacesKnown
<1> DEFINE ts == {t \in WlTop : wls.top[t].out}
           gs == {g \in WlGroup : wls.grp[g].out}
           x(t) == [wls.top[t] EXCEPT !.out = FALSE]
           y(g) == [wls.grp[g] EXCEPT !.out = FALSE]
           T == [t \in WlTop |-> x(t)]
           P == [g \in WlGroup |-> y(g)]
           a == [wls EXCEPT !.top = [t \in WlTop |-> [@[t] EXCEPT !.out = FALSE]],
                            !.grp = [g \in WlGroup |-> [@[g] EXCEPT !.out = FALSE]]]
           b == toplevel_send_output(a, ts, FALSE)
           c == group_send_output(b, gs, FALSE)
           n == [c EXCEPT !.seen = FALSE]
<1>1. wls' = n
  BY ZenonT(60) DEF OutputGone
<1>a. a = [wls EXCEPT !.top = T, !.grp = P]
  BY DEF WlShape
<1>b. ASSUME NEW t \in WlTop
      PROVE  /\ x(t) \in TopShape /\ x(t).on = wls.top[t].on /\ x(t).title = wls.top[t].title
             /\ x(t).state = wls.top[t].state /\ x(t).parent = wls.top[t].parent /\ x(t).out = FALSE
  <2>1. wls.top[t] \in TopShape
    BY WlTyped
  <2> QED
    BY <2>1 DEF TopShape
<1>c. ASSUME NEW g \in WlGroup
      PROVE  y(g) \in GroupShape /\ y(g).on = wls.grp[g].on /\ y(g).out = FALSE
  <2>1. wls.grp[g] \in GroupShape
    OBVIOUS
  <2> QED
    BY <2>1 DEF GroupShape
<1> HIDE DEF x, y
<1>d. /\ T \in [WlTop -> TopShape] /\ P \in [WlGroup -> GroupShape] /\ (\A t \in WlTop : T[t] = x(t))
      /\ (\A g \in WlGroup : P[g] = y(g))
  BY <1>b, <1>c
<1> HIDE DEF T, P, a
<1>2. /\ a \in WlShape /\ a.seen = wls.seen /\ a.slice = wls.slice /\ a.top = T /\ a.hnd = wls.hnd /\ a.idle = wls.idle
      /\ a.grp = P /\ a.ghnd = wls.ghnd /\ a.spc = wls.spc /\ a.shnd = wls.shnd /\ a.reqs = wls.reqs
      /\ a.sched = wls.sched /\ a.fresh = wls.fresh
  BY <1>a, <1>d DEF WlShape
<1>3. ts \in SUBSET WlTop /\ gs \in SUBSET WlGroup
  OBVIOUS
<1>9. (\A t \in WlTop : t \in ts <=> wls.top[t].out) /\ (\A g \in WlGroup : g \in gs <=> wls.grp[g].out)
  OBVIOUS
<1> HIDE DEF ts, gs
<1>4. TopsHear(a, b, ts, FALSE)
  BY <1>2, <1>3, OutputSent
<1> HIDE DEF b
<1>5. b \in WlShape
  BY <1>4 DEF TopsHear
<1>6. GroupsHear(b, c, gs, FALSE)
  BY <1>3, <1>5, GroupsSent
<1> HIDE DEF c
<1>7. /\ b.seen = wls.seen /\ b.slice = wls.slice /\ b.top = T /\ b.idle = wls.idle \cup ts
      /\ b.grp = P /\ b.ghnd = wls.ghnd /\ b.spc = wls.spc /\ b.shnd = wls.shnd /\ b.reqs = wls.reqs
      /\ (b.fresh => b.sched)
  BY <1>2, <1>4 DEF TopsHear, SpacesRest
<1>e. /\ c \in WlShape /\ c.slice = wls.slice /\ c.top = T /\ c.hnd = b.hnd
      /\ c.idle = wls.idle \cup ts /\ c.grp = P /\ c.spc = wls.spc /\ c.shnd = wls.shnd /\ c.reqs = wls.reqs
      /\ (c.fresh => c.sched)
  BY <1>6, <1>7 DEF GroupsHear, TopsRest
<1>8. /\ n \in WlShape /\ n.seen = FALSE /\ n.slice = wls.slice /\ n.top = T /\ n.hnd = b.hnd
      /\ n.idle = wls.idle \cup ts /\ n.grp = P /\ n.spc = wls.spc /\ n.shnd = wls.shnd /\ n.reqs = wls.reqs
      /\ (n.fresh => n.sched) /\ n.ghnd = c.ghnd
  BY <1>e DEF WlShape
<1> HIDE DEF n
<1>10. ASSUME NEW t \in WlTop
       PROVE  /\ n.hnd[t].on = wls.hnd[t].on /\ n.hnd[t].title = wls.hnd[t].title /\ n.hnd[t].state = wls.hnd[t].state
              /\ n.hnd[t].parent = wls.hnd[t].parent
              /\ n.hnd[t].on => n.hnd[t].out = (n.top[t].out /\ n.seen)
              /\ n.hnd[t].more => t \in n.idle \/ wls.hnd[t].more
  <2>1. /\ b.hnd[t].on = a.hnd[t].on /\ b.hnd[t].title = a.hnd[t].title /\ b.hnd[t].state = a.hnd[t].state
        /\ b.hnd[t].parent = a.hnd[t].parent
        /\ a.hnd[t].on => b.hnd[t].out = IF t \in ts /\ a.seen THEN FALSE ELSE a.hnd[t].out
        /\ b.hnd[t].more => t \in ts \/ a.hnd[t].more
    BY <1>2, <1>4, HandleTold
  <2>2. wls.hnd[t].on => wls.hnd[t].out = (wls.top[t].out /\ wls.seen)
    BY DEF TaskbarInv, TopsSound, Informed
  <2>3. wls.top[t] \in TopShape /\ wls.hnd[t] \in HandleShape
    BY WlTyped
  <2>4. wls.hnd[t].on => b.hnd[t].out = FALSE
    BY <1>2, <1>9, <2>1, <2>2, <2>3, ZenonT(60) DEF TopShape, HandleShape
  <2> QED
    BY <1>2, <1>8, <2>1, <2>4
<1>11. ASSUME NEW g \in WlGroup
       PROVE  n.ghnd[g].on = wls.ghnd[g].on /\ (n.ghnd[g].on => n.ghnd[g].out = (n.grp[g].out /\ n.seen))
  <2>1. /\ c.ghnd[g].on = b.ghnd[g].on
        /\ b.ghnd[g].on => c.ghnd[g].out = IF g \in gs /\ b.seen THEN FALSE ELSE b.ghnd[g].out
    <3>1. GroupTold(b, c, gs, FALSE, g)
      BY <1>5, <1>6, GroupHandleTold
    <3> QED
      BY <3>1 DEF GroupTold
  <2>2. wls.ghnd[g].on => wls.ghnd[g].out = (wls.grp[g].out /\ wls.seen)
    BY DEF GroupsSound
  <2>3. wls.grp[g] \in GroupShape /\ wls.ghnd[g] \in GroupShape
    OBVIOUS
  <2>4. wls.ghnd[g].on => c.ghnd[g].out = FALSE
    BY <1>7, <1>9, <2>1, <2>2, <2>3 DEF GroupShape
  <2> QED
    BY <1>7, <1>8, <2>1, <2>4
<1>12. OutputsMove(wls, n)
  <2>1. \A t \in WlTop : /\ n.top[t].on = wls.top[t].on /\ n.top[t].title = wls.top[t].title
                         /\ n.top[t].state = wls.top[t].state /\ n.top[t].parent = wls.top[t].parent
    BY <1>8, <1>b, <1>d
  <2>2. \A g \in WlGroup : n.grp[g].on = wls.grp[g].on
    BY <1>8, <1>c, <1>d
  <2> QED
    BY <1>8, <1>10, <1>11, <2>1, <2>2 DEF OutputsMove
<1>13. n \in WlShape /\ TaskbarInv(n) /\ SpacesInv(n)
  BY <1>12, OutputsMoved DEF WlInv
<1> QED
  BY <1>1, <1>13 DEF WlInv

LEMMA WlKept ==
  ASSUME WlInv, [WlNext]_wls
  PROVE  WlInv'
<1>1. CASE UNCHANGED wls
  BY <1>1 DEF WlInv
<1>2. CASE foreign_toplevel_manager_bind \/ foreign_toplevel_list_bind
  BY <1>2, SendAllKept DEF foreign_toplevel_manager_bind, foreign_toplevel_list_bind
<1>3. CASE foreign_toplevel_manager_handle_stop \/ foreign_toplevel_list_handle_stop
  BY <1>3, StopKept DEF foreign_toplevel_manager_handle_stop, foreign_toplevel_list_handle_stop
<1>4. CASE manager_bind \/ destroy_manager_resource \/ manager_handle_commit \/ workspace_handle_idle
  BY <1>4, ManagerBound, ManagerGone, RequestsDone, SpacesIdle
<1>5. CASE OutputBind \/ OutputGone
  BY <1>5, OutputBound, OutputLost
<1>6. ASSUME NEW t \in WlTop,
             \/ wlr_foreign_toplevel_handle_v1_create(t) \/ wlr_foreign_toplevel_handle_v1_destroy(t)
             \/ foreign_toplevel_resource_destroy(t) \/ wlr_foreign_toplevel_handle_v1_set_title(t)
             \/ toplevel_idle_send_done(t)
             \/ \E v \in {0, 1} : set_state(t, v)
             \/ \E b \in BOOLEAN : ToplevelOutput(t, b)
             \/ \E p \in WlTop \cup {"none"} : SetParent(t, p)
             \/ wlr_ext_foreign_toplevel_handle_v1_create(t)
             \/ wlr_ext_foreign_toplevel_handle_v1_update_state(t)
             \/ wlr_ext_foreign_toplevel_handle_v1_destroy(t)
      PROVE  WlInv'
  <2>1. CASE wlr_foreign_toplevel_handle_v1_create(t) \/ wlr_ext_foreign_toplevel_handle_v1_create(t)
    <3>1. ~wls.top[t].on /\ ~wls.hnd[t].on /\ Appears(t)
      BY <2>1 DEF wlr_foreign_toplevel_handle_v1_create, wlr_ext_foreign_toplevel_handle_v1_create, Appears
    <3> QED
      BY <3>1, NewKept
  <2>2. CASE wlr_foreign_toplevel_handle_v1_destroy(t) \/ foreign_toplevel_resource_destroy(t)
              \/ wlr_foreign_toplevel_handle_v1_set_title(t) \/ toplevel_idle_send_done(t)
    BY <2>2, ToplevelGone, HandleGone, TitleKept, DoneKept
  <2>3. CASE \E v \in {0, 1} : set_state(t, v)
    BY <2>3, StateKept
  <2>4. CASE \E b \in BOOLEAN : ToplevelOutput(t, b)
    BY <2>4, OutputTold
  <2>5. CASE \E p \in WlTop \cup {"none"} : SetParent(t, p)
    BY <2>5, SetParentKept
  <2>6. CASE wlr_ext_foreign_toplevel_handle_v1_update_state(t) \/ wlr_ext_foreign_toplevel_handle_v1_destroy(t)
    BY <2>6, UpdateKept, ListedGone
  <2> QED
    BY <1>6, <2>1, <2>2, <2>3, <2>4, <2>5, <2>6
<1>7. ASSUME NEW g \in WlGroup,
             \/ destroy_group_resource(g) \/ wlr_ext_workspace_group_handle_v1_create(g)
             \/ wlr_ext_workspace_group_handle_v1_destroy(g)
             \/ \E b \in BOOLEAN : GroupOutput(g, b)
      PROVE  WlInv'
  BY <1>7, GroupHandleGone, GroupNew, GroupGone, GroupOutputKept
<1>8. ASSUME NEW w \in WlSpace,
             \/ destroy_workspace_resource(w) \/ wlr_ext_workspace_handle_v1_create(w)
             \/ wlr_ext_workspace_handle_v1_destroy(w)
             \/ \E g \in WlGroup \cup {"none"} : wlr_ext_workspace_handle_v1_set_group(w, g)
             \/ \E v \in {0, 1} : workspace_set_state(w, v)
      PROVE  WlInv'
  <2>1. CASE \E g \in WlGroup \cup {"none"} : wlr_ext_workspace_handle_v1_set_group(w, g)
    BY <2>1, GroupSet
  <2>2. CASE \E v \in {0, 1} : workspace_set_state(w, v)
    BY <2>2, StateSet
  <2> QED
    BY <1>8, <2>1, <2>2, SpaceHandleGone, SpaceNew, SpaceGone
<1>9. ASSUME NEW w \in WlSpace \cup {"none"}, NEW g \in WlGroup \cup {"none"}, Request(w, g)
      PROVE  WlInv'
  BY <1>9, RequestKept
<1> QED
  BY <1>1, <1>2, <1>3, <1>4, <1>5, <1>6, <1>7, <1>8, <1>9 DEF WlNext

(* A taskbar with a handle of a toplevel knows its title, state, outputs    *)
(* and parent, and a client of the workspaces which are in the groups it    *)
(* has handles of, whatever the order in which the objects and their        *)
(* handles come and go; requests name only what exists when they are        *)
(* committed (Windows, WindowListsSound).                                   *)
THEOREM WindowListsAreSound == WlSpec => []WindowListsSound
<1>1. WlInit => WlInv
  BY WlStarts
<1>2. WlInv /\ [WlNext]_wls => WlInv'
  BY WlKept
<1>3. WlInv => WindowListsSound
  BY WlSoundness
<1> QED
  BY <1>1, <1>2, <1>3, PTL DEF WlSpec

-----------------------------------------------------------------------------
(* Parents and tokens across clients (Windows).                             *)
LkTopShape == [on : BOOLEAN, mapped : BOOLEAN, parent : LkTop \cup {"none"}]
ImportShape == [live : BOOLEAN, kids : SUBSET LkTop]
TokenShape == [st : {"none", "open", "issued"}, bound : BOOLEAN, seat : BOOLEAN, serial : BOOLEAN,
               surface : {"none", "focused", "other"}, timer : BOOLEAN, done : BOOLEAN, bad : BOOLEAN, used : {0}]
LkShape ==
  [slice : {"foreign", "activation"}, top : [LkTop -> LkTopShape], exp : LkTop \cup {"none"},
   imp : [LkImport -> ImportShape], reset : SUBSET LkTop, blamed : BOOLEAN, ignored : BOOLEAN, kept : BOOLEAN,
   tok : [LkToken -> TokenShape], unchecked : BOOLEAN, lost : BOOLEAN]

(* A set that holds the parent of t and the parents of its members, not t.  *)
Chain(top, t, S) ==
  /\ t \notin S /\ top[t].parent \in S \cup {"none"}
  /\ \A q \in S : top[q].parent \in S \cup {"none"}
Loopless(top) == \A t \in LkTop : \E S \in SUBSET LkTop : Chain(top, t, S)
ParentsMapped(top) == \A t \in LkTop : top[t].parent # "none" => top[top[t].parent].mapped
Recorded(top, exp, imp, reset) ==
  \A i \in LkImport :
    /\ imp[i].live => exp # "none"
    /\ ~imp[i].live => imp[i].kids = {}
    /\ \A t \in imp[i].kids : t \in reset \/ top[t].parent = exp
    /\ \A j \in LkImport \ {i} : imp[i].kids \cap imp[j].kids \subseteq reset
ParentsInv(s) ==
  ~s.kept /\ Recorded(s.top, s.exp, s.imp, s.reset) /\ ParentsMapped(s.top) /\ Loopless(s.top)

(* A token; one that is asked for with something wrong can still be refused *)
(* for it.                                                                  *)
TokenSound(q) ==
  /\ q.st = "issued" /\ q.bad => ~q.seat \/ q.surface = "none"
  /\ q.st = "issued" => ~q.bound
  /\ q.done => q.timer
  /\ q.st = "open" /\ q.bad => ~q.seat \/ q.surface \in {"none", "other"} \/ ~q.serial
TokensInv(s) == ~s.lost /\ \A k \in LkToken : TokenSound(s.tok[k])
LkInv == lnk \in LkShape /\ ParentsInv(lnk) /\ TokensInv(lnk)

-----------------------------------------------------------------------------
LEMMA LkTyped ==
  ASSUME NEW s \in LkShape
  PROVE  /\ s.top \in [LkTop -> LkTopShape] /\ s.imp \in [LkImport -> ImportShape]
         /\ s.tok \in [LkToken -> TokenShape] /\ s.exp \in LkTop \cup {"none"} /\ s.reset \in SUBSET LkTop
         /\ s.kept \in BOOLEAN /\ s.lost \in BOOLEAN /\ s.unchecked \in BOOLEAN /\ s.ignored \in BOOLEAN
         /\ s.blamed \in BOOLEAN
BY DEF LkShape

LEMMA NoLinks ==
  /\ NoLkTop \in LkTopShape /\ NoLkTop.on = FALSE /\ NoLkTop.mapped = FALSE /\ NoLkTop.parent = "none"
  /\ NoImport \in ImportShape /\ NoImport.live = FALSE /\ NoImport.kids = {}
  /\ NoToken \in TokenShape /\ TokenSound(NoToken)
BY DEF NoLkTop, NoImport, NoToken, LkTopShape, ImportShape, TokenShape, TokenSound

LEMMA LkStarts == LkInit => LkInv
<1> SUFFICES ASSUME NEW sl \in {"foreign", "activation"}, lnk = LkState(sl)
             PROVE  LkInv
  BY DEF LkInit
<1> DEFINE T == [t \in LkTop |-> NoLkTop]
           I == [i \in LkImport |-> NoImport]
           K == [k \in LkToken |-> NoToken]
<1>1. lnk = [slice |-> sl, top |-> T, exp |-> "none", imp |-> I, reset |-> {}, blamed |-> FALSE, ignored |-> FALSE,
             kept |-> FALSE, tok |-> K, unchecked |-> FALSE, lost |-> FALSE]
  BY DEF LkState
<1>2. /\ T \in [LkTop -> LkTopShape] /\ I \in [LkImport -> ImportShape] /\ K \in [LkToken -> TokenShape]
      /\ (\A t \in LkTop : T[t] = NoLkTop) /\ (\A i \in LkImport : I[i] = NoImport)
      /\ (\A k \in LkToken : K[k] = NoToken)
  BY NoLinks
<1> HIDE DEF T, I, K
<1>3. lnk \in LkShape /\ lnk.top = T /\ lnk.imp = I /\ lnk.tok = K /\ lnk.kept = FALSE /\ lnk.lost = FALSE
  BY <1>1, <1>2 DEF LkShape
<1>4. Recorded(lnk.top, lnk.exp, lnk.imp, lnk.reset)
  BY <1>2, <1>3, NoLinks DEF Recorded
<1>5. ParentsMapped(lnk.top)
  BY <1>2, <1>3, NoLinks DEF ParentsMapped
<1>6. Loopless(lnk.top)
  <2>1. \A t \in LkTop : Chain(lnk.top, t, {})
    BY <1>2, <1>3, NoLinks DEF Chain
  <2> QED
    BY <2>1 DEF Loopless
<1> QED
  BY <1>2, <1>3, <1>4, <1>5, <1>6, NoLinks DEF LkInv, ParentsInv, TokensInv

LEMMA LkSoundness ==
  ASSUME LkInv
  PROVE  WindowLinksSound
<1>1. ASSUME NEW t \in LkTop
      PROVE  t \notin Ancestors(lnk, lnk.top[t].parent)
  <2>1. PICK S \in SUBSET LkTop : Chain(lnk.top, t, S)
    BY DEF LkInv, ParentsInv, Loopless
  <2> QED
    BY <2>1 DEF Chain, Ancestors
<1>2. ParentsRecorded
  BY <1>1 DEF LkInv, ParentsInv, Recorded, ParentsMapped, ParentsRecorded
<1>3. \A k \in LkToken : lnk.tok[k] \in TokenShape
  BY LkTyped DEF LkInv
<1>4. TokensSound
  BY <1>3 DEF LkInv, TokensInv, TokenSound, TokensSound, TokenShape
<1> QED
  BY <1>2, <1>4 DEF WindowLinksSound

-----------------------------------------------------------------------------
(* Parents.                                                                 *)

(* Toplevels lose their parent, or get their parent's.                      *)
Shortcut(top, T) ==
  \A u \in LkTop : \/ T[u].parent = top[u].parent \/ T[u].parent = "none"
                   \/ top[u].parent # "none" /\ T[u].parent = top[top[u].parent].parent

LEMMA ShorterChains ==
  ASSUME NEW top, NEW T, Loopless(top), Shortcut(top, T)
  PROVE  Loopless(T)
<1> SUFFICES ASSUME NEW t \in LkTop
             PROVE  \E S \in SUBSET LkTop : Chain(T, t, S)
  BY DEF Loopless
<1>1. PICK S \in SUBSET LkTop : Chain(top, t, S)
  BY DEF Loopless
<1>2. Chain(T, t, S)
  BY <1>1 DEF Chain, Shortcut
<1> QED
  BY <1>2

(* t gets the parent p, which is below none of its children.                *)
Above(top, t, p, A) == t \notin A /\ p \in A \cup {"none"} /\ \A q \in A : top[q].parent \in A \cup {"none"}

LEMMA LongerChain ==
  ASSUME NEW top, NEW T, Loopless(top), NEW t \in LkTop, NEW p, NEW A \in SUBSET LkTop, Above(top, t, p, A),
         T[t].parent = p \/ T[t].parent = "none", \A u \in LkTop \ {t} : T[u].parent = top[u].parent
  PROVE  Loopless(T)
<1> SUFFICES ASSUME NEW u \in LkTop
             PROVE  \E S \in SUBSET LkTop : Chain(T, u, S)
  BY DEF Loopless
<1>1. PICK S \in SUBSET LkTop : Chain(top, u, S)
  BY DEF Loopless
<1>2. CASE u = t
  <2>1. Chain(T, u, A)
    BY <1>2 DEF Chain, Above
  <2> QED
    BY <2>1
<1>3. CASE u # t /\ u \in A
  <2>1. Chain(T, u, S \cap A)
    BY <1>1, <1>3 DEF Chain, Above
  <2> QED
    BY <2>1
<1>4. CASE u # t /\ u \notin A
  <2>1. Chain(T, u, S \cup A)
    BY <1>1, <1>4 DEF Chain, Above
  <2> QED
    BY <2>1
<1> QED
  BY <1>2, <1>3, <1>4

LEMMA NotALoop ==
  ASSUME NEW s \in LkShape, NEW t \in LkTop, NEW p \in LkTop \cup {"none"}, ~Loop(s, t, p)
  PROVE  \E A \in SUBSET LkTop : Above(s.top, t, p, A)
<1>1. PICK S \in SUBSET LkTop : /\ (p # "none" => p \in S) /\ (\A q \in S : s.top[q].parent \in S \cup {"none"})
                                /\ t \notin S
  BY DEF Loop, Ancestors
<1>2. Above(s.top, t, p, S)
  BY <1>1 DEF Above
<1> QED
  BY <1>2

(* What wlr_xdg_toplevel_set_parent of ts does.                             *)
GivenParent(s, n, ts, q) ==
  /\ n \in LkShape /\ n.exp = s.exp /\ n.kept = s.kept /\ n.tok = s.tok /\ n.lost = s.lost
  /\ n.reset = s.reset \ ts
  /\ \A t \in LkTop : /\ n.top[t].on = s.top[t].on /\ n.top[t].mapped = s.top[t].mapped
                      /\ n.top[t].parent = IF t \in ts THEN q ELSE s.top[t].parent
  /\ \A i \in LkImport : n.imp[i].live = s.imp[i].live /\ n.imp[i].kids = s.imp[i].kids \ ts
MappedOrNone(s, p) == IF p # "none" /\ s.top[p].mapped THEN p ELSE "none"

LEMMA ParentGiven ==
  ASSUME NEW s \in LkShape, NEW ts \in SUBSET LkTop, NEW p \in LkTop \cup {"none"}
  PROVE  GivenParent(s, wlr_xdg_toplevel_set_parent(s, ts, p), ts, MappedOrNone(s, p))
<1> DEFINE q == MappedOrNone(s, p)
           x(t) == [s.top[t] EXCEPT !.parent = q]
           y(i) == [s.imp[i] EXCEPT !.kids = s.imp[i].kids \ ts]
           T == [t \in LkTop |-> IF t \in ts THEN x(t) ELSE s.top[t]]
           I == [i \in LkImport |-> y(i)]
           R == s.reset \ ts
           n == wlr_xdg_toplevel_set_parent(s, ts, p)
           a == [s EXCEPT !.top = T]
<1>0. q \in LkTop \cup {"none"}
  BY DEF MappedOrNone
<1>1. n = handle_child_xdg_toplevel_set_parent(a, ts)
  BY DEF wlr_xdg_toplevel_set_parent, MappedOrNone
<1> HIDE DEF q
<1>2. ASSUME NEW t \in LkTop
      PROVE  x(t) \in LkTopShape /\ x(t).on = s.top[t].on /\ x(t).mapped = s.top[t].mapped /\ x(t).parent = q
  <2>1. s.top[t] \in LkTopShape
    BY LkTyped
  <2> QED
    BY <1>0, <2>1 DEF LkTopShape
<1>3. ASSUME NEW i \in LkImport
      PROVE  y(i) \in ImportShape /\ y(i).live = s.imp[i].live /\ y(i).kids = s.imp[i].kids \ ts
  <2>1. s.imp[i] \in ImportShape
    BY LkTyped
  <2> QED
    BY <2>1 DEF ImportShape
<1>4. n = [a EXCEPT !.imp = I, !.reset = R]
  <2>1. a.imp = s.imp /\ a.reset = s.reset
    BY DEF LkShape
  <2> HIDE DEF a
  <2> QED
    BY <1>1, <2>1 DEF handle_child_xdg_toplevel_set_parent
<1> HIDE DEF x, y, n
<1>5. /\ T \in [LkTop -> LkTopShape] /\ I \in [LkImport -> ImportShape] /\ R \in SUBSET LkTop
      /\ (\A t \in LkTop : T[t] = IF t \in ts THEN x(t) ELSE s.top[t]) /\ (\A i \in LkImport : I[i] = y(i))
  BY <1>2, <1>3, LkTyped
<1> HIDE DEF T, I
<1>6. /\ n \in LkShape /\ n.top = T /\ n.imp = I /\ n.reset = R /\ n.exp = s.exp /\ n.kept = s.kept /\ n.tok = s.tok
      /\ n.lost = s.lost
  BY <1>4, <1>5 DEF LkShape
<1>7. \A t \in LkTop : /\ n.top[t].on = s.top[t].on /\ n.top[t].mapped = s.top[t].mapped
                       /\ n.top[t].parent = IF t \in ts THEN q ELSE s.top[t].parent
  BY <1>2, <1>5, <1>6
<1>8. \A i \in LkImport : n.imp[i].live = s.imp[i].live /\ n.imp[i].kids = s.imp[i].kids \ ts
  BY <1>3, <1>5, <1>6
<1> QED
  BY <1>6, <1>7, <1>8 DEF GivenParent, n, q

(* The records stay right when toplevels get another parent, and parents    *)
(* stay mapped.                                                             *)
LEMMA GivenRecorded ==
  ASSUME NEW s \in LkShape, NEW n, NEW ts \in SUBSET LkTop, NEW q, GivenParent(s, n, ts, q),
         Recorded(s.top, s.exp, s.imp, s.reset)
  PROVE  Recorded(n.top, n.exp, n.imp, n.reset)
<1> SUFFICES ASSUME NEW i \in LkImport
             PROVE  /\ n.imp[i].live => n.exp # "none"
                    /\ ~n.imp[i].live => n.imp[i].kids = {}
                    /\ \A t \in n.imp[i].kids : t \in n.reset \/ n.top[t].parent = n.exp
                    /\ \A j \in LkImport \ {i} : n.imp[i].kids \cap n.imp[j].kids \subseteq n.reset
  BY DEF Recorded
<1>1. /\ s.imp[i].live => s.exp # "none"
      /\ ~s.imp[i].live => s.imp[i].kids = {}
      /\ \A t \in s.imp[i].kids : t \in s.reset \/ s.top[t].parent = s.exp
      /\ \A j \in LkImport \ {i} : s.imp[i].kids \cap s.imp[j].kids \subseteq s.reset
  BY DEF Recorded
<1>2. s.imp[i].kids \in SUBSET LkTop
  BY LkTyped DEF ImportShape
<1> QED
  BY <1>1, <1>2 DEF GivenParent

LEMMA GivenMapped ==
  ASSUME NEW s \in LkShape, NEW n, NEW ts \in SUBSET LkTop, NEW q \in LkTop \cup {"none"}, GivenParent(s, n, ts, q),
         ParentsMapped(s.top), q # "none" => s.top[q].mapped
  PROVE  ParentsMapped(n.top)
<1> SUFFICES ASSUME NEW t \in LkTop, n.top[t].parent # "none"
             PROVE  n.top[n.top[t].parent].mapped
  BY DEF ParentsMapped
<1>1. s.top[t].parent \in LkTop \cup {"none"}
  BY LkTyped DEF LkTopShape
<1>2. CASE t \in ts
  BY <1>2 DEF GivenParent
<1>3. CASE t \notin ts
  BY <1>1, <1>3 DEF GivenParent, ParentsMapped
<1> QED
  BY <1>2, <1>3

(* A step of the parents: what it keeps. *)
ParentStep(s, n) == n \in LkShape /\ ParentsInv(n) /\ n.tok = s.tok /\ n.lost = s.lost

LEMMA ParentSet ==
  ASSUME NEW s \in LkShape, ParentsInv(s), NEW t \in LkTop, NEW p \in LkTop \cup {"none"}, ~Loop(s, t, p)
  PROVE  ParentStep(s, wlr_xdg_toplevel_set_parent(s, {t}, p))
<1> DEFINE n == wlr_xdg_toplevel_set_parent(s, {t}, p)
           q == MappedOrNone(s, p)
<1>1. GivenParent(s, n, {t}, q) /\ q \in LkTop \cup {"none"} /\ (q # "none" => s.top[q].mapped) /\ q \in {p, "none"}
  BY ParentGiven DEF MappedOrNone
<1> HIDE DEF n, q
<1>2. PICK A \in SUBSET LkTop : Above(s.top, t, p, A)
  BY NotALoop
<1>3. /\ n.top[t].parent = p \/ n.top[t].parent = "none"
      /\ \A u \in LkTop \ {t} : n.top[u].parent = s.top[u].parent
  BY <1>1 DEF GivenParent
<1>4. Loopless(n.top)
  BY <1>2, <1>3, LongerChain DEF ParentsInv
<1>5. Recorded(n.top, n.exp, n.imp, n.reset)
  BY <1>1, GivenRecorded DEF ParentsInv
<1>6. ParentsMapped(n.top)
  BY <1>1, GivenMapped DEF ParentsInv
<1> QED
  BY <1>1, <1>4, <1>5, <1>6 DEF ParentStep, ParentsInv, GivenParent, n

LEMMA ParentsLost ==
  ASSUME NEW s \in LkShape, ParentsInv(s), NEW n, NEW ts \in SUBSET LkTop, GivenParent(s, n, ts, "none")
  PROVE  ParentStep(s, n)
<1>1. Shortcut(s.top, n.top)
  BY DEF Shortcut, GivenParent
<1>2. Loopless(n.top)
  BY <1>1, ShorterChains DEF ParentsInv
<1>3. Recorded(n.top, n.exp, n.imp, n.reset)
  BY GivenRecorded DEF ParentsInv
<1>4. ParentsMapped(n.top)
  <2> SUFFICES ASSUME NEW t \in LkTop, n.top[t].parent # "none"
               PROVE  n.top[n.top[t].parent].mapped
    BY DEF ParentsMapped
  <2>1. n.top[t].parent = s.top[t].parent /\ s.top[t].parent \in LkTop \cup {"none"}
    BY LkTyped DEF GivenParent, LkTopShape
  <2>2. s.top[s.top[t].parent].mapped
    BY <2>1 DEF ParentsInv, ParentsMapped
  <2> QED
    BY <2>1, <2>2 DEF GivenParent
<1> QED
  BY <1>2, <1>3, <1>4 DEF ParentStep, ParentsInv, GivenParent

(* No toplevel has the parent t, which is not mapped. *)
Orphaned(s, t) == ~s.top[t].mapped /\ \A u \in LkTop : s.top[u].parent # t

LEMMA ToplevelUnmapped ==
  ASSUME NEW s \in LkShape, ParentsInv(s), NEW t \in LkTop
  PROVE  LET n == UnmapToplevel(s, t) IN ParentStep(s, n) /\ Orphaned(n, t) /\ n.exp = s.exp
<1> DEFINE x == [s.top[t] EXCEPT !.mapped = FALSE]
           T == [s.top EXCEPT ![t] = x]
           a == [s EXCEPT !.top = T]
           ks == Kids(a, t)
           p == a.top[t].parent
           n == wlr_xdg_toplevel_set_parent(a, ks, p)
           m == UnmapToplevel(s, t)
<1>t. s.top \in [LkTop -> LkTopShape] /\ s.top[t] \in LkTopShape
  BY LkTyped
<1>1. CASE ~s.top[t].mapped
  <2>1. m = s
    BY <1>1 DEF UnmapToplevel
  <2>2. Orphaned(s, t)
    BY <1>1, LinksAssumption DEF Orphaned, ParentsInv, ParentsMapped
  <2> QED
    BY <2>1, <2>2 DEF ParentStep
<1>2. CASE s.top[t].mapped
  <2>1. m = n
    <3>1. [s EXCEPT !.top[t].mapped = FALSE] = a
      BY <1>t DEF LkShape
    <3> QED
      BY <1>2, <3>1 DEF UnmapToplevel, handle_parent_unmap
  <2>2. x \in LkTopShape /\ x.on = s.top[t].on /\ x.parent = s.top[t].parent /\ x.mapped = FALSE
    BY <1>t DEF LkTopShape
  <2> HIDE DEF x
  <2>3. T \in [LkTop -> LkTopShape] /\ T[t] = x /\ \A u \in LkTop \ {t} : T[u] = s.top[u]
    BY <1>t, <2>2
  <2> HIDE DEF T
  <2>4. /\ a \in LkShape /\ a.top = T /\ a.exp = s.exp /\ a.imp = s.imp /\ a.reset = s.reset /\ a.kept = s.kept
        /\ a.tok = s.tok /\ a.lost = s.lost
    BY <2>3 DEF LkShape
  <2> HIDE DEF a
  <2>5. \A u \in LkTop : a.top[u].parent = s.top[u].parent
    BY <2>2, <2>3, <2>4
  <2>6. ks \in SUBSET LkTop /\ (\A u \in LkTop : u \in ks <=> s.top[u].parent = t)
    BY <2>5 DEF Kids
  <2>7. p = s.top[t].parent /\ p \in LkTop \cup {"none"} /\ p # t
    <3>1. PICK S \in SUBSET LkTop : Chain(s.top, t, S)
      BY DEF ParentsInv, Loopless
    <3> QED
      BY <1>t, <2>5, <3>1, LinksAssumption DEF Chain, LkTopShape
  <2> HIDE DEF ks, p
  <2>8. p # "none" => s.top[p].mapped /\ a.top[p].mapped
    BY <2>3, <2>4, <2>7 DEF ParentsInv, ParentsMapped
  <2>9. GivenParent(a, n, ks, p)
    <3>1. MappedOrNone(a, p) = p
      BY <2>8 DEF MappedOrNone
    <3>2. GivenParent(a, n, ks, MappedOrNone(a, p))
      BY <2>4, <2>6, <2>7, ParentGiven
    <3> HIDE DEF n
    <3> QED
      BY <3>1, <3>2
  <2> HIDE DEF n
  <2>10. Recorded(a.top, a.exp, a.imp, a.reset)
    <3>1. Recorded(s.top, s.exp, s.imp, s.reset)
      BY DEF ParentsInv
    <3>2. \A i \in LkImport : s.imp[i].kids \in SUBSET LkTop
      BY LkTyped DEF ImportShape
    <3> QED
      BY <2>4, <2>5, <3>1, <3>2 DEF Recorded
  <2>11. Recorded(n.top, n.exp, n.imp, n.reset)
    BY <2>4, <2>6, <2>9, <2>10, GivenRecorded
  <2>12. \A u \in LkTop : n.top[u].parent = IF u \in ks THEN p ELSE s.top[u].parent
    BY <2>5, <2>9 DEF GivenParent
  <2>13. \A u \in LkTop \ {t} : n.top[u].mapped = s.top[u].mapped
    BY <2>3, <2>4, <2>9 DEF GivenParent
  <2>14. n.top[t].mapped = FALSE
    BY <2>2, <2>3, <2>4, <2>9 DEF GivenParent
  <2>15. Shortcut(s.top, n.top)
    BY <2>6, <2>7, <2>12, LinksAssumption DEF Shortcut
  <2>16. Loopless(n.top)
    BY <2>15, ShorterChains DEF ParentsInv
  <2>17. Orphaned(n, t)
    BY <2>6, <2>7, <2>12, <2>14 DEF Orphaned
  <2>18. ParentsMapped(n.top)
    <3> SUFFICES ASSUME NEW u \in LkTop, n.top[u].parent # "none"
                 PROVE  n.top[n.top[u].parent].mapped
      BY DEF ParentsMapped
    <3>1. s.top[u].parent \in LkTop \cup {"none"} /\ (s.top[u].parent # "none" => s.top[s.top[u].parent].mapped)
      BY LkTyped DEF LkTopShape, ParentsInv, ParentsMapped
    <3>2. n.top[u].parent \in LkTop \ {t} /\ s.top[n.top[u].parent].mapped
      BY <2>7, <2>8, <2>12, <2>17, <3>1 DEF Orphaned
    <3> QED
      BY <2>13, <3>2
  <2> QED
    BY <2>1, <2>4, <2>9, <2>11, <2>16, <2>17, <2>18 DEF ParentStep, ParentsInv, GivenParent
<1> QED
  BY <1>1, <1>2

LEMMA ToplevelReset ==
  ASSUME NEW s \in LkShape, ParentsInv(s), NEW t \in LkTop, Orphaned(s, t)
  PROVE  LET n == reset_xdg_toplevel(s, t) IN
         ParentStep(s, n) /\ Orphaned(n, t) /\ n.exp = s.exp /\ n.top[t].parent = "none"
<1> DEFINE x == [s.top[t] EXCEPT !.parent = "none"]
           T == [s.top EXCEPT ![t] = x]
           R == IF \E i \in LkImport : t \in s.imp[i].kids THEN s.reset \cup {t} ELSE s.reset
           n == reset_xdg_toplevel(s, t)
<1>t. s.top \in [LkTop -> LkTopShape] /\ s.top[t] \in LkTopShape /\ s.reset \in SUBSET LkTop
  BY LkTyped
<1>1. n = [s EXCEPT !.top = T, !.reset = R]
  BY <1>t DEF reset_xdg_toplevel, LkShape
<1>2. x \in LkTopShape /\ x.on = s.top[t].on /\ x.parent = "none" /\ x.mapped = s.top[t].mapped
  BY <1>t DEF LkTopShape
<1> HIDE DEF x
<1>3. /\ T \in [LkTop -> LkTopShape] /\ T[t] = x /\ (\A u \in LkTop \ {t} : T[u] = s.top[u])
      /\ R \in SUBSET LkTop /\ s.reset \subseteq R /\ R \subseteq s.reset \cup {t}
      /\ \A i \in LkImport : t \in s.imp[i].kids => t \in R
  BY <1>t, <1>2
<1> HIDE DEF T, R, n
<1>4. /\ n \in LkShape /\ n.top = T /\ n.exp = s.exp /\ n.imp = s.imp /\ n.reset = R /\ n.kept = s.kept
      /\ n.tok = s.tok /\ n.lost = s.lost
  BY <1>1, <1>3 DEF LkShape
<1>5. \A u \in LkTop : n.top[u].parent = (IF u = t THEN "none" ELSE s.top[u].parent) /\ n.top[u].mapped = s.top[u].mapped
  BY <1>2, <1>3, <1>4
<1>6. Shortcut(s.top, n.top)
  BY <1>5 DEF Shortcut
<1>7. Loopless(n.top)
  BY <1>6, ShorterChains DEF ParentsInv
<1>8. ParentsMapped(n.top)
  <2>1. \A u \in LkTop : s.top[u].parent \in LkTop \cup {"none"}
    BY LkTyped DEF LkTopShape
  <2> QED
    BY <1>5, <2>1 DEF ParentsInv, ParentsMapped
<1>9. Recorded(n.top, n.exp, n.imp, n.reset)
  <2>1. Recorded(s.top, s.exp, s.imp, s.reset)
    BY DEF ParentsInv
  <2>2. \A i \in LkImport : s.imp[i].kids \in SUBSET LkTop
    BY LkTyped DEF ImportShape
  <2>3. \A i \in LkImport : \A u \in s.imp[i].kids : u \in n.reset \/ n.top[u].parent = n.exp
    BY <1>3, <1>4, <1>5, <2>1, <2>2 DEF Recorded
  <2> QED
    BY <1>3, <1>4, <2>1, <2>3 DEF Recorded
<1>10. Orphaned(n, t)
  BY <1>5, LinksAssumption DEF Orphaned
<1> QED
  BY <1>4, <1>5, <1>7, <1>8, <1>9, <1>10 DEF ParentStep, ParentsInv, n

(* The records of t go. *)
LEMMA RecordsGone ==
  ASSUME NEW s \in LkShape, ParentsInv(s), NEW t \in LkTop, s.top[t].parent = "none"
  PROVE  LET n == handle_child_xdg_toplevel_set_parent(s, {t}) IN
         ParentStep(s, n) /\ n.top = s.top /\ n.exp = s.exp /\ \A i \in LkImport : t \notin n.imp[i].kids
<1> DEFINE y(i) == [s.imp[i] EXCEPT !.kids = @ \ {t}]
           I == [i \in LkImport |-> y(i)]
           R == s.reset \ {t}
           n == handle_child_xdg_toplevel_set_parent(s, {t})
<1>1. n = [s EXCEPT !.imp = I, !.reset = R]
  BY DEF handle_child_xdg_toplevel_set_parent
<1>2. ASSUME NEW i \in LkImport
      PROVE  y(i) \in ImportShape /\ y(i).live = s.imp[i].live /\ y(i).kids = s.imp[i].kids \ {t}
  <2>1. s.imp[i] \in ImportShape
    BY LkTyped
  <2> QED
    BY <2>1 DEF ImportShape
<1> HIDE DEF y, n
<1>3. I \in [LkImport -> ImportShape] /\ R \in SUBSET LkTop /\ \A i \in LkImport : I[i] = y(i)
  BY <1>2, LkTyped
<1> HIDE DEF I
<1>4. /\ n \in LkShape /\ n.top = s.top /\ n.imp = I /\ n.reset = R /\ n.exp = s.exp /\ n.kept = s.kept /\ n.tok = s.tok
      /\ n.lost = s.lost
  BY <1>1, <1>3 DEF LkShape
<1>5. GivenParent(s, n, {t}, "none")
  BY <1>2, <1>3, <1>4 DEF GivenParent
<1>6. ParentStep(s, n)
  BY <1>5, ParentsLost
<1> QED
  BY <1>2, <1>3, <1>4, <1>6 DEF n

(* Imports go. *)
LEMMA ImportsGone ==
  ASSUME NEW s \in LkShape, ParentsInv(s), NEW is \in SUBSET LkImport
  PROVE  LET n == destroy_imported(s, is) IN
         /\ ParentStep(s, n) /\ n.exp = s.exp
         /\ \A i \in LkImport : n.imp[i].live = (s.imp[i].live /\ i \notin is) /\ (i \in is => n.imp[i].kids = {})
         /\ \A i \in is : \A t \in s.imp[i].kids : n.top[t].parent = "none"
<1> DEFINE K == UNION {s.imp[i].kids : i \in is}
           m == wlr_xdg_toplevel_set_parent(s, K, "none")
           I == [i \in LkImport |-> IF i \in is THEN NoImport ELSE m.imp[i]]
           n == destroy_imported(s, is)
<1>1. K \in SUBSET LkTop /\ \A i \in is : s.imp[i].kids \subseteq K
  <2>1. \A i \in is : s.imp[i].kids \in SUBSET LkTop
    BY LkTyped DEF ImportShape
  <2> QED
    BY <2>1
<1>2. GivenParent(s, m, K, "none")
  <2>1. MappedOrNone(s, "none") = "none"
    BY DEF MappedOrNone
  <2> HIDE DEF K
  <2>2. GivenParent(s, m, K, MappedOrNone(s, "none"))
    BY <1>1, ParentGiven
  <2> HIDE DEF m
  <2> QED
    BY <2>1, <2>2
<1>3. n = [m EXCEPT !.imp = I]
  BY DEF destroy_imported
<1> HIDE DEF K, m, n
<1>4. ParentStep(s, m)
  BY <1>1, <1>2, ParentsLost
<1>5. m \in LkShape /\ m.imp \in [LkImport -> ImportShape]
  BY <1>4, LkTyped DEF ParentStep
<1>6. I \in [LkImport -> ImportShape] /\ \A i \in LkImport : I[i] = IF i \in is THEN NoImport ELSE m.imp[i]
  BY <1>5, NoLinks
<1> HIDE DEF I
<1>7. /\ n \in LkShape /\ n.top = m.top /\ n.imp = I /\ n.reset = m.reset /\ n.exp = m.exp /\ n.kept = m.kept
      /\ n.tok = m.tok /\ n.lost = m.lost
  BY <1>3, <1>5, <1>6 DEF LkShape
<1>8. Recorded(n.top, n.exp, n.imp, n.reset)
  <2>1. Recorded(m.top, m.exp, m.imp, m.reset)
    BY <1>4 DEF ParentStep, ParentsInv
  <2> QED
    BY <1>6, <1>7, <2>1, NoLinks DEF Recorded
<1>9. ParentStep(s, n) /\ n.exp = s.exp
  BY <1>2, <1>4, <1>7, <1>8 DEF ParentStep, ParentsInv, GivenParent
<1>10. \A i \in LkImport : n.imp[i].live = (s.imp[i].live /\ i \notin is) /\ (i \in is => n.imp[i].kids = {})
  <2> SUFFICES ASSUME NEW i \in LkImport
               PROVE  n.imp[i].live = (s.imp[i].live /\ i \notin is) /\ (i \in is => n.imp[i].kids = {})
    OBVIOUS
  <2>1. s.imp[i] \in ImportShape /\ m.imp[i].live = s.imp[i].live
    BY <1>2, LkTyped DEF GivenParent
  <2>2. CASE i \in is
    BY <1>6, <1>7, <2>1, <2>2, NoLinks
  <2>3. CASE i \notin is
    BY <1>6, <1>7, <2>1, <2>3 DEF ImportShape
  <2> QED
    BY <2>2, <2>3
<1>11. \A i \in is : \A t \in s.imp[i].kids : n.top[t].parent = "none"
  BY <1>1, <1>2, <1>7 DEF GivenParent
<1> QED
  BY <1>9, <1>10, <1>11 DEF n

LEMMA ExportGone ==
  ASSUME NEW s \in LkShape, ParentsInv(s)
  PROVE  LET n == destroy_exported(s) IN
         /\ ParentStep(s, n)
         /\ \A i \in LkImport : ~n.imp[i].live /\ \A t \in s.imp[i].kids : n.top[t].parent = "none"
<1> DEFINE is == {i \in LkImport : s.imp[i].live}
           d == destroy_imported(s, is)
           n == destroy_exported(s)
<1>0. is \in SUBSET LkImport /\ \A i \in LkImport : i \in is <=> s.imp[i].live
  OBVIOUS
<1>1. n = [d EXCEPT !.exp = "none"]
  BY DEF destroy_exported
<1> HIDE DEF is, n
<1>2. /\ ParentStep(s, d) /\ d.exp = s.exp
      /\ \A i \in LkImport : d.imp[i].live = (s.imp[i].live /\ i \notin is) /\ (i \in is => d.imp[i].kids = {})
      /\ \A i \in is : \A t \in s.imp[i].kids : d.top[t].parent = "none"
  BY <1>0, ImportsGone
<1> HIDE DEF d
<1>3. /\ n \in LkShape /\ n.top = d.top /\ n.imp = d.imp /\ n.reset = d.reset /\ n.exp = "none" /\ n.kept = d.kept
      /\ n.tok = d.tok /\ n.lost = d.lost
  BY <1>1, <1>2 DEF LkShape, ParentStep
<1>4. \A i \in LkImport : ~s.imp[i].live => s.imp[i].kids = {}
  BY DEF ParentsInv, Recorded
<1>5. \A i \in LkImport : ~d.imp[i].live /\ d.imp[i].kids = {}
  BY <1>0, <1>2 DEF ParentStep, ParentsInv, Recorded
<1>6. Recorded(n.top, n.exp, n.imp, n.reset)
  BY <1>3, <1>5 DEF Recorded
<1> QED
  BY <1>0, <1>2, <1>3, <1>4, <1>5, <1>6 DEF ParentStep, ParentsInv, n

(* No import went with a child that kept its parent.                        *)
LEMMA NoneKept ==
  ASSUME NEW s \in LkShape, NEW u, ParentStep(s, u),
         \A i \in LkImport : s.imp[i].live /\ ~u.imp[i].live => \A t \in s.imp[i].kids : u.top[t].parent = "none"
  PROVE  ParentStep(s, Kept(s, u))
<1> DEFINE k == u.kept \/ \E i \in LkImport : /\ s.imp[i].live /\ ~u.imp[i].live
                                             /\ \E t \in s.imp[i].kids : u.top[t].parent # "none"
           n == Kept(s, u)
<1>1. n = [u EXCEPT !.kept = k]
  BY DEF Kept
<1>2. k = FALSE
  BY DEF ParentStep, ParentsInv, LkShape
<1> HIDE DEF k, n
<1>3. /\ n \in LkShape /\ n.top = u.top /\ n.imp = u.imp /\ n.reset = u.reset /\ n.exp = u.exp /\ n.kept = FALSE
      /\ n.tok = u.tok /\ n.lost = u.lost
  BY <1>1, <1>2 DEF ParentStep, LkShape
<1> QED
  BY <1>3 DEF ParentStep, ParentsInv, n

LEMMA TokensRest ==
  ASSUME LkInv, ParentStep(lnk, lnk')
  PROVE  LkInv'
BY DEF LkInv, ParentStep, TokensInv

LEMMA MapKept ==
  ASSUME LkInv, NEW t \in LkTop, Map(t)
  PROVE  LkInv'
<1> DEFINE x == [lnk.top[t] EXCEPT !.on = TRUE, !.mapped = lnk.top[t].on]
           T == [lnk.top EXCEPT ![t] = x]
<1>t. lnk \in LkShape /\ lnk.top \in [LkTop -> LkTopShape] /\ lnk.top[t] \in LkTopShape
  BY LkTyped DEF LkInv
<1>1. lnk' = [lnk EXCEPT !.top = T]
  BY <1>t DEF Map, LkShape
<1>2. x \in LkTopShape /\ x.parent = lnk.top[t].parent
  BY <1>t DEF LkTopShape
<1> HIDE DEF x
<1>3. T \in [LkTop -> LkTopShape] /\ T[t] = x /\ \A u \in LkTop \ {t} : T[u] = lnk.top[u]
  BY <1>t, <1>2
<1> HIDE DEF T
<1>4. /\ lnk' \in LkShape /\ lnk'.top = T /\ lnk'.exp = lnk.exp /\ lnk'.imp = lnk.imp /\ lnk'.reset = lnk.reset
      /\ lnk'.kept = lnk.kept /\ lnk'.tok = lnk.tok /\ lnk'.lost = lnk.lost
  BY <1>t, <1>1, <1>3 DEF LkShape
<1>5. \A u \in LkTop : T[u].parent = lnk.top[u].parent /\ (lnk.top[u].mapped => T[u].mapped)
  BY <1>2, <1>3 DEF Map
<1>6. ParentsInv(lnk)
  BY DEF LkInv
<1>7. Loopless(T)
  <2>1. Shortcut(lnk.top, T)
    BY <1>5 DEF Shortcut
  <2> QED
    BY <1>6, <2>1, ShorterChains DEF ParentsInv
<1>8. ParentsMapped(T)
  <2>1. \A u \in LkTop : lnk.top[u].parent \in LkTop \cup {"none"}
    BY <1>t DEF LkTopShape
  <2> QED
    BY <1>5, <1>6, <2>1 DEF ParentsInv, ParentsMapped
<1>9. Recorded(T, lnk.exp, lnk.imp, lnk.reset)
  <2>1. \A i \in LkImport : lnk.imp[i].kids \in SUBSET LkTop
    BY <1>t, LkTyped DEF ImportShape
  <2> QED
    BY <1>5, <1>6, <2>1 DEF ParentsInv, Recorded
<1>10. ParentStep(lnk, lnk')
  BY <1>4, <1>6, <1>7, <1>8, <1>9 DEF ParentStep, ParentsInv
<1> QED
  BY <1>10, TokensRest

LEMMA UnmapKept ==
  ASSUME LkInv, NEW t \in LkTop, Unmap(t)
  PROVE  LkInv'
<1> DEFINE a == UnmapToplevel(lnk, t)
           n == reset_xdg_toplevel(a, t)
<1>1. lnk' = n /\ lnk \in LkShape /\ ParentsInv(lnk)
  BY DEF Unmap, LkInv
<1>2. ParentStep(lnk, a) /\ Orphaned(a, t)
  BY <1>1, ToplevelUnmapped
<1> HIDE DEF a
<1>3. ParentStep(a, n)
  BY <1>2, ToplevelReset DEF ParentStep
<1> HIDE DEF n
<1>4. ParentStep(lnk, lnk')
  BY <1>1, <1>2, <1>3 DEF ParentStep
<1> QED
  BY <1>4, TokensRest

LEMMA RequestedParent ==
  ASSUME LkInv, NEW t \in LkTop, NEW p \in LkTop \cup {"none"}, xdg_toplevel_handle_set_parent(t, p)
  PROVE  LkInv'
<1> DEFINE n == wlr_xdg_toplevel_set_parent(lnk, {t}, p)
<1>1. lnk' = n /\ lnk \in LkShape /\ ParentsInv(lnk) /\ ~Loop(lnk, t, p)
  BY DEF xdg_toplevel_handle_set_parent, LkInv
<1>2. ParentStep(lnk, n)
  BY <1>1, ParentSet
<1> QED
  BY <1>1, <1>2, TokensRest

LEMMA NoLoopAtNone ==
  ASSUME NEW s, NEW t \in LkTop
  PROVE  ~Loop(s, t, "none")
<1>1. {} \in SUBSET LkTop
  OBVIOUS
<1> QED
  BY <1>1 DEF Loop, Ancestors

LEMMA ExportKept ==
  ASSUME LkInv, NEW t \in LkTop, xdg_exporter_handle_export(t)
  PROVE  LkInv'
<1>t. lnk \in LkShape /\ ParentsInv(lnk)
  BY DEF LkInv
<1>1. lnk.exp = "none" /\ lnk' = [lnk EXCEPT !.exp = t]
  BY DEF xdg_exporter_handle_export
<1>2. /\ lnk' \in LkShape /\ lnk'.top = lnk.top /\ lnk'.exp = t /\ lnk'.imp = lnk.imp /\ lnk'.reset = lnk.reset
      /\ lnk'.kept = lnk.kept /\ lnk'.tok = lnk.tok /\ lnk'.lost = lnk.lost
  BY <1>t, <1>1 DEF LkShape
<1>3. \A i \in LkImport : ~lnk.imp[i].live /\ lnk.imp[i].kids = {}
  BY <1>t, <1>1 DEF ParentsInv, Recorded
<1>4. Recorded(lnk'.top, lnk'.exp, lnk'.imp, lnk'.reset)
  BY <1>2, <1>3 DEF Recorded
<1>5. ParentStep(lnk, lnk')
  BY <1>t, <1>2, <1>4 DEF ParentStep, ParentsInv
<1> QED
  BY <1>5, TokensRest

LEMMA ExportDestroyed ==
  ASSUME LkInv, xdg_exported_handle_resource_destroy
  PROVE  LkInv'
<1> DEFINE u == destroy_exported(lnk)
<1>1. lnk' = Kept(lnk, u) /\ lnk \in LkShape /\ ParentsInv(lnk)
  BY DEF xdg_exported_handle_resource_destroy, LkInv
<1>2. /\ ParentStep(lnk, u)
      /\ \A i \in LkImport : ~u.imp[i].live /\ \A t \in lnk.imp[i].kids : u.top[t].parent = "none"
  BY <1>1, ExportGone
<1> HIDE DEF u
<1>3. ParentStep(lnk, Kept(lnk, u))
  BY <1>1, <1>2, NoneKept
<1> QED
  BY <1>1, <1>3, TokensRest

LEMMA ImportKept ==
  ASSUME LkInv, NEW i \in LkImport, xdg_importer_handle_import(i)
  PROVE  LkInv'
<1>t. lnk \in LkShape /\ ParentsInv(lnk) /\ lnk.imp \in [LkImport -> ImportShape] /\ lnk.imp[i] \in ImportShape
  BY LkTyped DEF LkInv
<1> DEFINE x == [lnk.imp[i] EXCEPT !.live = TRUE]
           I == [lnk.imp EXCEPT ![i] = x]
<1>1. lnk.exp # "none" /\ ~lnk.imp[i].live /\ lnk' = [lnk EXCEPT !.imp = I]
  BY <1>t DEF xdg_importer_handle_import, LkShape
<1>2. x \in ImportShape /\ x.kids = lnk.imp[i].kids /\ x.live = TRUE
  BY <1>t DEF ImportShape
<1> HIDE DEF x
<1>3. I \in [LkImport -> ImportShape] /\ I[i] = x /\ \A j \in LkImport \ {i} : I[j] = lnk.imp[j]
  BY <1>t, <1>2
<1> HIDE DEF I
<1>4. /\ lnk' \in LkShape /\ lnk'.top = lnk.top /\ lnk'.exp = lnk.exp /\ lnk'.imp = I /\ lnk'.reset = lnk.reset
      /\ lnk'.kept = lnk.kept /\ lnk'.tok = lnk.tok /\ lnk'.lost = lnk.lost
  BY <1>t, <1>1, <1>3 DEF LkShape
<1>5. \A j \in LkImport : I[j].kids = lnk.imp[j].kids /\ (~I[j].live => ~lnk.imp[j].live)
  BY <1>2, <1>3
<1>6. Recorded(lnk.top, lnk.exp, I, lnk.reset)
  BY <1>t, <1>1, <1>5 DEF ParentsInv, Recorded
<1>7. ParentStep(lnk, lnk')
  BY <1>t, <1>4, <1>6 DEF ParentStep, ParentsInv
<1> QED
  BY <1>7, TokensRest

LEMMA ImportDestroyed ==
  ASSUME LkInv, NEW i \in LkImport, xdg_imported_handle_resource_destroy(i)
  PROVE  LkInv'
<1> DEFINE u == destroy_imported(lnk, {i})
<1>1. lnk' = Kept(lnk, u) /\ lnk \in LkShape /\ ParentsInv(lnk) /\ {i} \in SUBSET LkImport
  BY DEF xdg_imported_handle_resource_destroy, LkInv
<1>2. /\ ParentStep(lnk, u)
      /\ \A j \in LkImport : u.imp[j].live = (lnk.imp[j].live /\ j \notin {i}) /\ (j \in {i} => u.imp[j].kids = {})
      /\ \A j \in {i} : \A t \in lnk.imp[j].kids : u.top[t].parent = "none"
  BY <1>1, ImportsGone
<1> HIDE DEF u
<1>3. \A j \in LkImport : lnk.imp[j].live /\ ~u.imp[j].live => \A t \in lnk.imp[j].kids : u.top[t].parent = "none"
  BY <1>2
<1>4. ParentStep(lnk, Kept(lnk, u))
  BY <1>1, <1>2, <1>3, NoneKept
<1> QED
  BY <1>1, <1>4, TokensRest

LEMMA ImportedParent ==
  ASSUME LkInv, NEW i \in LkImport, NEW t \in LkTop, xdg_imported_handle_set_parent_of(i, t)
  PROVE  LkInv'
<1>t. lnk \in LkShape /\ ParentsInv(lnk) /\ lnk.imp[i] \in ImportShape /\ lnk.exp \in LkTop /\ lnk.imp[i].live
      /\ lnk.top \in [LkTop -> LkTopShape]
  BY LkTyped DEF LkInv, ParentsInv, Recorded, xdg_imported_handle_set_parent_of
<1>1. CASE ~lnk.top[lnk.exp].mapped
  <2> DEFINE n == wlr_xdg_toplevel_set_parent(lnk, {t}, "none")
  <2>1. lnk' = n
    BY <1>1 DEF xdg_imported_handle_set_parent_of
  <2>2. ParentStep(lnk, n)
    BY <1>t, ParentSet, NoLoopAtNone
  <2> QED
    BY <2>1, <2>2, TokensRest
<1>2. CASE lnk.top[lnk.exp].mapped /\ t \in lnk.imp[i].kids
  <2> DEFINE g == lnk.ignored \/ lnk.top[t].parent # lnk.exp
  <2>1. lnk' = [lnk EXCEPT !.ignored = g] /\ g \in BOOLEAN
    BY <1>t, <1>2 DEF xdg_imported_handle_set_parent_of
  <2> HIDE DEF g
  <2>2. ParentStep(lnk, lnk')
    BY <1>t, <2>1 DEF ParentStep, ParentsInv, LkShape
  <2> QED
    BY <2>2, TokensRest
<1>3. CASE lnk.top[lnk.exp].mapped /\ t \notin lnk.imp[i].kids /\ Loop(lnk, t, lnk.exp)
  <2>1. lnk' = [lnk EXCEPT !.blamed = TRUE]
    BY <1>t, <1>3 DEF xdg_imported_handle_set_parent_of
  <2>2. ParentStep(lnk, lnk')
    BY <1>t, <2>1 DEF ParentStep, ParentsInv, LkShape
  <2> QED
    BY <2>2, TokensRest
<1>4. CASE lnk.top[lnk.exp].mapped /\ t \notin lnk.imp[i].kids /\ ~Loop(lnk, t, lnk.exp)
  <2> DEFINE p == lnk.exp
             a == wlr_xdg_toplevel_set_parent(lnk, {t}, p)
             x == [a.imp[i] EXCEPT !.kids = @ \cup {t}]
             I == [a.imp EXCEPT ![i] = x]
  <2>0. p \in LkTop \cup {"none"} /\ {t} \in SUBSET LkTop /\ p # "none" /\ lnk.top[p].mapped /\ p = lnk.exp
    BY <1>t, <1>4, LinksAssumption
  <2>1. lnk' = [a EXCEPT !.imp[i].kids = @ \cup {t}]
    BY <1>4 DEF xdg_imported_handle_set_parent_of
  <2> HIDE DEF p
  <2>2. ParentStep(lnk, a)
    BY <1>t, <1>4, <2>0, ParentSet
  <2>3. GivenParent(lnk, a, {t}, p)
    <3>1. MappedOrNone(lnk, p) = p
      BY <2>0 DEF MappedOrNone
    <3>2. GivenParent(lnk, a, {t}, MappedOrNone(lnk, p))
      BY <1>t, <2>0, ParentGiven
    <3> HIDE DEF a
    <3> QED
      BY <3>1, <3>2
  <2> HIDE DEF a
  <2>4. a \in LkShape /\ a.imp \in [LkImport -> ImportShape] /\ a.imp[i] \in ImportShape
    BY <2>2, LkTyped DEF ParentStep
  <2>5. lnk' = [a EXCEPT !.imp = I]
    BY <2>1, <2>4 DEF LkShape
  <2>6. x \in ImportShape /\ x.live = a.imp[i].live /\ x.kids = a.imp[i].kids \cup {t}
    BY <2>4 DEF ImportShape
  <2> HIDE DEF x
  <2>7. I \in [LkImport -> ImportShape] /\ I[i] = x /\ \A j \in LkImport \ {i} : I[j] = a.imp[j]
    BY <2>4, <2>6
  <2> HIDE DEF I
  <2>8. /\ lnk' \in LkShape /\ lnk'.top = a.top /\ lnk'.exp = a.exp /\ lnk'.imp = I /\ lnk'.reset = a.reset
        /\ lnk'.kept = a.kept /\ lnk'.tok = a.tok /\ lnk'.lost = a.lost
    BY <2>4, <2>5, <2>7 DEF LkShape
  <2>9. /\ a.top[t].parent = a.exp /\ (\A j \in LkImport : t \notin a.imp[j].kids) /\ a.imp[i].live
    BY <1>t, <2>0, <2>3 DEF GivenParent
  <2>10. Recorded(a.top, a.exp, I, a.reset)
    <3>1. Recorded(a.top, a.exp, a.imp, a.reset)
      BY <2>2 DEF ParentStep, ParentsInv
    <3> SUFFICES ASSUME NEW k \in LkImport
                 PROVE  /\ I[k].live => a.exp # "none"
                        /\ ~I[k].live => I[k].kids = {}
                        /\ \A u \in I[k].kids : u \in a.reset \/ a.top[u].parent = a.exp
                        /\ \A j \in LkImport \ {k} : I[k].kids \cap I[j].kids \subseteq a.reset
      BY DEF Recorded
    <3>4. /\ a.imp[k].live => a.exp # "none"
          /\ ~a.imp[k].live => a.imp[k].kids = {}
          /\ \A u \in a.imp[k].kids : u \in a.reset \/ a.top[u].parent = a.exp
          /\ \A j \in LkImport \ {k} : a.imp[k].kids \cap a.imp[j].kids \subseteq a.reset
      BY <3>1 DEF Recorded
    <3>2. CASE k = i
      <4>1. I[k].live = a.imp[k].live /\ I[k].kids = a.imp[k].kids \cup {t} /\ a.imp[k].live
        BY <2>6, <2>7, <2>9, <3>2
      <4>2. \A j \in LkImport \ {k} : I[j].kids = a.imp[j].kids /\ t \notin I[j].kids
        BY <2>7, <2>9, <3>2
      <4> QED
        BY <2>9, <3>4, <4>1, <4>2
    <3>3. CASE k # i
      <4>1. I[k] = a.imp[k] /\ t \notin I[k].kids
        BY <2>7, <2>9, <3>3
      <4>2. \A j \in LkImport : I[j].kids \subseteq a.imp[j].kids \cup {t}
        BY <2>6, <2>7
      <4> QED
        BY <3>4, <4>1, <4>2
    <3> QED
      BY <3>2, <3>3
  <2>11. ParentStep(lnk, lnk')
    BY <2>2, <2>8, <2>10 DEF ParentStep, ParentsInv
  <2> QED
    BY <2>11, TokensRest
<1> QED
  BY <1>1, <1>2, <1>3, <1>4

LEMMA ToplevelDestroyed ==
  ASSUME LkInv, NEW t \in LkTop, ToplevelDestroy(t)
  PROVE  LkInv'
<1> DEFINE a == UnmapToplevel(lnk, t)
           b == reset_xdg_toplevel(a, t)
           c == handle_child_xdg_toplevel_set_parent(b, {t})
           s == [c EXCEPT !.top[t] = NoLkTop]
           T == [c.top EXCEPT ![t] = NoLkTop]
<1>1. lnk' = (IF s.exp = t THEN destroy_exported(s) ELSE s) /\ lnk \in LkShape /\ ParentsInv(lnk)
  BY DEF ToplevelDestroy, LkInv
<1>2. ParentStep(lnk, a) /\ Orphaned(a, t)
  BY <1>1, ToplevelUnmapped
<1> HIDE DEF a
<1>3. ParentStep(a, b) /\ Orphaned(b, t) /\ b.top[t].parent = "none"
  BY <1>2, ToplevelReset DEF ParentStep
<1> HIDE DEF b
<1>4. ParentStep(b, c) /\ c.top = b.top /\ \A i \in LkImport : t \notin c.imp[i].kids
  BY <1>3, RecordsGone DEF ParentStep
<1> HIDE DEF c
<1>5. c \in LkShape /\ ParentsInv(c) /\ c.top \in [LkTop -> LkTopShape]
  BY <1>4, LkTyped DEF ParentStep
<1>6. s = [c EXCEPT !.top = T]
  BY <1>5 DEF LkShape
<1>7. T \in [LkTop -> LkTopShape] /\ T[t] = NoLkTop /\ \A u \in LkTop \ {t} : T[u] = c.top[u]
  BY <1>5, NoLinks
<1> HIDE DEF T, s
<1>8. /\ s \in LkShape /\ s.top = T /\ s.exp = c.exp /\ s.imp = c.imp /\ s.reset = c.reset
      /\ s.kept = c.kept /\ s.tok = c.tok /\ s.lost = c.lost
  BY <1>5, <1>6, <1>7 DEF LkShape
<1>9. \A u \in LkTop : T[u].parent = c.top[u].parent /\ T[u].parent # t
  BY <1>3, <1>4, <1>7, NoLinks, LinksAssumption DEF Orphaned
<1>10. Loopless(T)
  <2>1. Shortcut(c.top, T)
    BY <1>9 DEF Shortcut
  <2> QED
    BY <1>5, <2>1, ShorterChains DEF ParentsInv
<1>11. ParentsMapped(T)
  <2>1. \A u \in LkTop : c.top[u].parent \in LkTop \cup {"none"}
    BY <1>5 DEF LkTopShape
  <2> QED
    BY <1>5, <1>7, <1>9, <2>1 DEF ParentsInv, ParentsMapped
<1>12. Recorded(T, c.exp, c.imp, c.reset)
  <2>1. \A i \in LkImport : c.imp[i].kids \in SUBSET LkTop
    BY <1>5, LkTyped DEF ImportShape
  <2> QED
    BY <1>5, <1>9, <2>1 DEF ParentsInv, Recorded
<1>13. ParentStep(lnk, s)
  BY <1>2, <1>3, <1>4, <1>5, <1>8, <1>10, <1>11, <1>12 DEF ParentStep, ParentsInv
<1>14. CASE s.exp = t
  <2> DEFINE n == destroy_exported(s)
  <2>1. lnk' = n
    BY <1>1, <1>14
  <2>2. ParentStep(s, n)
    BY <1>13, ExportGone DEF ParentStep
  <2> HIDE DEF n
  <2>3. ParentStep(lnk, lnk')
    BY <1>13, <2>1, <2>2 DEF ParentStep
  <2> QED
    BY <2>3, TokensRest
<1>15. CASE s.exp # t
  <2>1. ParentStep(lnk, lnk')
    BY <1>1, <1>13, <1>15
  <2> QED
    BY <2>1, TokensRest
<1> QED
  BY <1>14, <1>15

(* Tokens: what they become, and what the ghosts do. *)
TokenStep(T, u) == lnk' = [lnk EXCEPT !.tok = T, !.unchecked = u]

LEMMA TokensStep ==
  ASSUME LkInv, NEW T \in [LkToken -> TokenShape], NEW u \in BOOLEAN, TokenStep(T, u),
         \A k \in LkToken : TokenSound(T[k])
  PROVE  LkInv'
<1>t. lnk \in LkShape /\ ParentsInv(lnk) /\ ~lnk.lost
  BY DEF LkInv, TokensInv
<1>1. /\ lnk' \in LkShape /\ lnk'.top = lnk.top /\ lnk'.exp = lnk.exp /\ lnk'.imp = lnk.imp /\ lnk'.reset = lnk.reset
      /\ lnk'.kept = lnk.kept /\ lnk'.tok = T /\ lnk'.lost = lnk.lost
  BY <1>t DEF LkShape, TokenStep
<1> QED
  BY <1>t, <1>1 DEF LkInv, ParentsInv, TokensInv

(* One token changes. *)
LEMMA TokenKept ==
  ASSUME LkInv, NEW k \in LkToken, NEW q \in TokenShape, NEW u \in BOOLEAN, TokenSound(q),
         lnk' = [lnk EXCEPT !.tok[k] = q, !.unchecked = u]
  PROVE  LkInv'
<1> DEFINE T == [lnk.tok EXCEPT ![k] = q]
<1>t. lnk \in LkShape /\ lnk.tok \in [LkToken -> TokenShape] /\ \A j \in LkToken : TokenSound(lnk.tok[j])
  BY LkTyped DEF LkInv, TokensInv
<1>1. TokenStep(T, u)
  BY <1>t DEF TokenStep, LkShape
<1>2. T \in [LkToken -> TokenShape] /\ \A j \in LkToken : TokenSound(T[j])
  BY <1>t
<1> HIDE DEF T
<1> QED
  BY <1>1, <1>2, TokensStep

LEMMA TokensKnown ==
  ASSUME LkInv
  PROVE  /\ lnk \in LkShape /\ lnk.unchecked \in BOOLEAN /\ lnk.tok \in [LkToken -> TokenShape]
         /\ \A k \in LkToken : lnk.tok[k] \in TokenShape /\ TokenSound(lnk.tok[k])
BY LkTyped DEF LkInv, TokensInv

LEMMA TokenGone ==
  ASSUME LkInv, NEW k \in LkToken, lnk' = wlr_xdg_activation_token_v1_destroy(lnk, k)
  PROVE  LkInv'
<1>1. lnk' = [lnk EXCEPT !.tok[k] = NoToken, !.unchecked = lnk.unchecked]
  BY TokensKnown DEF wlr_xdg_activation_token_v1_destroy, LkShape
<1> QED
  BY ZenonT(60), <1>1, TokensKnown, NoLinks, TokenKept

LEMMA TokenAsked ==
  ASSUME LkInv, NEW k \in LkToken, activation_handle_get_activation_token(k)
  PROVE  LkInv'
<1> DEFINE q == [NoToken EXCEPT !.st = "open", !.bound = TRUE]
<1>1. lnk' = [lnk EXCEPT !.tok[k] = q, !.unchecked = lnk.unchecked]
  BY TokensKnown DEF activation_handle_get_activation_token, LkShape
<1>2. q \in TokenShape /\ TokenSound(q)
  BY DEF NoToken, TokenShape, TokenSound
<1> HIDE DEF q
<1> QED
  BY ZenonT(60), <1>1, <1>2, TokensKnown, TokenKept

LEMMA TokenAdded ==
  ASSUME LkInv, NEW k \in LkToken, NEW timer \in BOOLEAN, wlr_xdg_activation_v1_add_token(k, timer)
  PROVE  LkInv'
<1> DEFINE q == [NoToken EXCEPT !.st = "issued", !.timer = timer]
<1>1. lnk' = [lnk EXCEPT !.tok[k] = q, !.unchecked = lnk.unchecked]
  BY TokensKnown DEF wlr_xdg_activation_v1_add_token, LkShape
<1>2. q \in TokenShape /\ TokenSound(q)
  BY DEF NoToken, TokenShape, TokenSound
<1> HIDE DEF q
<1> QED
  BY ZenonT(60), <1>1, <1>2, TokensKnown, TokenKept

LEMMA SerialShown ==
  ASSUME LkInv, NEW k \in LkToken, NEW good \in BOOLEAN, token_handle_set_serial(k, good)
  PROVE  LkInv'
<1> DEFINE x == lnk.tok[k]
           b == ~good \/ x.surface = "other"
           q == [x EXCEPT !.seat = TRUE, !.serial = good, !.bad = b]
<1>1. lnk' = [lnk EXCEPT !.tok[k] = q, !.unchecked = lnk.unchecked]
  BY TokensKnown DEF token_handle_set_serial, LkShape
<1>2. x \in TokenShape /\ TokenSound(x) /\ x.st = "open" /\ b \in BOOLEAN
  BY TokensKnown DEF token_handle_set_serial
<1>3. q \in TokenShape /\ TokenSound(q)
  <2> HIDE DEF x
  <2> QED
    BY <1>2 DEF TokenShape, TokenSound
<1> HIDE DEF q
<1> QED
  BY ZenonT(60), <1>1, <1>3, TokensKnown, TokenKept

LEMMA SurfaceShown ==
  ASSUME LkInv, NEW k \in LkToken, NEW f \in {"focused", "other"}, token_handle_set_surface(k, f)
  PROVE  LkInv'
<1> DEFINE x == lnk.tok[k]
           b == x.seat /\ (~x.serial \/ f = "other")
           q == [x EXCEPT !.surface = f, !.bad = b]
<1>1. lnk' = [lnk EXCEPT !.tok[k] = q, !.unchecked = lnk.unchecked]
  BY TokensKnown DEF token_handle_set_surface, LkShape
<1>2. x \in TokenShape /\ TokenSound(x) /\ x.st = "open"
  BY TokensKnown DEF token_handle_set_surface
<1>3. q \in TokenShape /\ TokenSound(q)
  <2> HIDE DEF x
  <2>1. b \in BOOLEAN
    BY <1>2 DEF TokenShape
  <2> QED
    BY <1>2, <2>1 DEF TokenShape, TokenSound
<1> HIDE DEF q
<1> QED
  BY ZenonT(60), <1>1, <1>3, TokensKnown, TokenKept

LEMMA TokenCommitted ==
  ASSUME LkInv, NEW k \in LkToken, token_handle_commit(k)
  PROVE  LkInv'
<1> DEFINE x == lnk.tok[k]
           refused == x.seat /\ (~x.serial \/ x.surface = "other")
           q == [x EXCEPT !.st = "issued", !.bound = FALSE, !.timer = TRUE, !.done = TRUE]
           u == lnk.unchecked \/ x.bad
<1>1. lnk' = IF refused THEN wlr_xdg_activation_token_v1_destroy(lnk, k)
             ELSE [lnk EXCEPT !.tok[k] = q, !.unchecked = u]
  BY TokensKnown DEF token_handle_commit, LkShape
<1>2. x \in TokenShape /\ TokenSound(x) /\ x.st = "open"
  BY TokensKnown DEF token_handle_commit
<1>3. CASE refused
  <2>1. lnk' = wlr_xdg_activation_token_v1_destroy(lnk, k)
    BY <1>1, <1>3
  <2> QED
    BY <2>1, TokenGone
<1>4. CASE ~refused
  <2>1. lnk' = [lnk EXCEPT !.tok[k] = q, !.unchecked = u]
    BY <1>1, <1>4
  <2>2. q \in TokenShape /\ TokenSound(q)
    <3> HIDE DEF x
    <3> QED
      BY <1>2, <1>4 DEF TokenShape, TokenSound
  <2>3. u \in BOOLEAN
    BY <1>2, TokensKnown DEF TokenShape
  <2> HIDE DEF q, u
  <2> QED
    BY ZenonT(60), <2>1, <2>2, <2>3, TokensKnown, TokenKept
<1> QED
  BY <1>3, <1>4

LEMMA TokenObjectGone ==
  ASSUME LkInv, NEW k \in LkToken, token_handle_resource_destroy(k)
  PROVE  LkInv'
<1>1. lnk.tok[k] \in TokenShape /\ TokenSound(lnk.tok[k]) /\ lnk.tok[k].bound /\ lnk.tok[k].st # "issued"
  BY TokensKnown DEF token_handle_resource_destroy, TokenSound
<1>2. lnk \in LkShape /\ ~lnk.lost /\ lnk.lost \in BOOLEAN
  BY LkTyped DEF LkInv, TokensInv
<1>3. (lnk.lost \/ lnk.tok[k].st = "issued") = lnk.lost
  BY <1>1, <1>2
<1> DEFINE m == wlr_xdg_activation_token_v1_destroy(lnk, k)
<1>4. lnk' = [m EXCEPT !.lost = @ \/ lnk.tok[k].st = "issued"] /\ m = [lnk EXCEPT !.tok[k] = NoToken]
  BY DEF token_handle_resource_destroy, wlr_xdg_activation_token_v1_destroy
<1> HIDE DEF m
<1>5. m.lost = lnk.lost
  BY <1>2, <1>4 DEF LkShape
<1>6. lnk' = m
  BY <1>2, <1>3, <1>4, <1>5 DEF LkShape
<1> QED
  BY <1>6, TokenGone DEF m

(* All tokens change.                                                       *)
LEMMA EachTokenKept ==
  ASSUME LkInv, NEW T, lnk' = [lnk EXCEPT !.tok = T],
         T \in [LkToken -> TokenShape], \A k \in LkToken : TokenSound(T[k])
  PROVE  LkInv'
<1>1. TokenStep(T, lnk.unchecked)
  BY TokensKnown DEF TokenStep, LkShape
<1> QED
  BY <1>1, TokensKnown, TokensStep

LEMMA SeatGone ==
  ASSUME LkInv, token_handle_seat_destroy
  PROVE  LkInv'
<1> DEFINE q(k) == [lnk.tok[k] EXCEPT !.seat = FALSE, !.serial = TRUE]
           T == [k \in LkToken |-> q(k)]
<1>1. lnk' = [lnk EXCEPT !.tok = T]
  BY ZenonT(60) DEF token_handle_seat_destroy
<1>2. ASSUME NEW k \in LkToken
      PROVE  q(k) \in TokenShape /\ TokenSound(q(k))
  <2> DEFINE x == lnk.tok[k]
  <2>1. x \in TokenShape /\ TokenSound(x)
    BY TokensKnown
  <2>2. q(k) = [x EXCEPT !.seat = FALSE, !.serial = TRUE]
    OBVIOUS
  <2> HIDE DEF x, q
  <2> QED
    BY <2>1, <2>2 DEF TokenShape, TokenSound
<1> HIDE DEF q
<1>3. T \in [LkToken -> TokenShape] /\ \A k \in LkToken : TokenSound(T[k])
  BY <1>2
<1> HIDE DEF T
<1> QED
  BY <1>1, <1>3, EachTokenKept

LEMMA LinkedSurfaceGone ==
  ASSUME LkInv, NEW f \in {"focused", "other"}, token_handle_surface_destroy(f)
  PROVE  LkInv'
<1> DEFINE q(k) == [lnk.tok[k] EXCEPT !.surface = IF @ = f THEN "none" ELSE @]
           T == [k \in LkToken |-> q(k)]
<1>1. lnk' = [lnk EXCEPT !.tok = T]
  BY DEF token_handle_surface_destroy
<1>2. ASSUME NEW k \in LkToken
      PROVE  q(k) \in TokenShape /\ TokenSound(q(k))
  <2> DEFINE x == lnk.tok[k]
             y == IF x.surface = f THEN "none" ELSE x.surface
  <2>1. x \in TokenShape /\ TokenSound(x)
    BY TokensKnown
  <2>2. q(k) = [x EXCEPT !.surface = y]
    OBVIOUS
  <2> HIDE DEF x, q
  <2>3. y \in {"none", x.surface} /\ y \in {"none", "focused", "other"}
    BY <2>1 DEF TokenShape
  <2> HIDE DEF y
  <2> QED
    BY <2>1, <2>2, <2>3 DEF TokenShape, TokenSound
<1> HIDE DEF q
<1>3. T \in [LkToken -> TokenShape] /\ \A k \in LkToken : TokenSound(T[k])
  BY <1>2
<1> HIDE DEF T
<1> QED
  BY <1>1, <1>3, EachTokenKept

LEMMA FocusMoved ==
  ASSUME LkInv, FocusMoves
  PROVE  LkInv'
<1> DEFINE other(f) == IF f = "focused" THEN "other" ELSE IF f = "other" THEN "focused" ELSE f
           y(k) == [lnk.tok[k] EXCEPT !.surface = other(@)]
           q(k) == IF y(k).st = "open"
                   THEN [y(k) EXCEPT !.bad = y(k).seat /\ (~y(k).serial \/ y(k).surface = "other")] ELSE y(k)
           T == [k \in LkToken |-> q(k)]
<1>1. lnk' = [lnk EXCEPT !.tok = T]
  BY ZenonT(60) DEF FocusMoves
<1>2. ASSUME NEW k \in LkToken
      PROVE  q(k) \in TokenShape /\ TokenSound(q(k))
  <2> DEFINE x == lnk.tok[k]
             z == y(k)
             g == other(x.surface)
             b == z.seat /\ (~z.serial \/ z.surface = "other")
  <2>1. x \in TokenShape /\ TokenSound(x)
    BY TokensKnown
  <2>2. z = [x EXCEPT !.surface = g] /\ q(k) = IF z.st = "open" THEN [z EXCEPT !.bad = b] ELSE z
    OBVIOUS
  <2> HIDE DEF x, q, z
  <2>3. g \in {"none", "focused", "other"} /\ (x.surface = "none" => g = "none")
    BY <2>1 DEF TokenShape
  <2> HIDE DEF g, other
  <2>4. z \in TokenShape /\ z.st = x.st /\ z.bad = x.bad /\ z.seat = x.seat /\ z.bound = x.bound /\ z.done = x.done
        /\ z.timer = x.timer /\ z.surface = g
    BY <2>1, <2>2, <2>3 DEF TokenShape
  <2>5. b \in BOOLEAN
    BY <2>4 DEF TokenShape
  <2>6. CASE z.st = "open"
    <3>1. q(k) = [z EXCEPT !.bad = b]
      BY <2>2, <2>6
    <3>2. q(k) \in TokenShape /\ q(k).st = "open" /\ q(k).bad = b /\ q(k).seat = z.seat /\ q(k).serial = z.serial
          /\ q(k).surface = z.surface /\ q(k).done = z.done /\ q(k).timer = z.timer
      BY <2>4, <2>5, <2>6, <3>1 DEF TokenShape
    <3> QED
      BY <2>1, <2>4, <3>2 DEF TokenSound
  <2>7. CASE z.st # "open"
    <3>1. q(k) = z
      BY <2>2, <2>7
    <3> QED
      BY <2>1, <2>3, <2>4, <2>7, <3>1 DEF TokenSound
  <2> QED
    BY <2>6, <2>7
<1> HIDE DEF q
<1>3. T \in [LkToken -> TokenShape] /\ \A k \in LkToken : TokenSound(T[k])
  BY <1>2
<1> HIDE DEF T
<1> QED
  BY <1>1, <1>3, EachTokenKept

LEMMA LkKept ==
  ASSUME LkInv, [LkNext]_lnk
  PROVE  LkInv'
<1>1. CASE UNCHANGED lnk
  BY <1>1 DEF LkInv
<1>2. CASE xdg_exported_handle_resource_destroy \/ token_handle_seat_destroy \/ FocusMoves
  BY <1>2, ExportDestroyed, SeatGone, FocusMoved
<1>3. ASSUME NEW t \in LkTop,
             \/ Map(t) \/ Unmap(t) \/ ToplevelDestroy(t) \/ xdg_exporter_handle_export(t)
             \/ \E p \in LkTop \cup {"none"} : xdg_toplevel_handle_set_parent(t, p)
             \/ \E i \in LkImport : xdg_imported_handle_set_parent_of(i, t)
      PROVE  LkInv'
  BY <1>3, MapKept, UnmapKept, ToplevelDestroyed, ExportKept, RequestedParent, ImportedParent
<1>4. ASSUME NEW i \in LkImport,
             xdg_importer_handle_import(i) \/ xdg_imported_handle_resource_destroy(i)
      PROVE  LkInv'
  BY <1>4, ImportKept, ImportDestroyed
<1>5. ASSUME NEW k \in LkToken,
             \/ activation_handle_get_activation_token(k) \/ token_handle_commit(k)
             \/ token_handle_resource_destroy(k) \/ token_handle_timeout(k)
             \/ activation_handle_activate(k)
             \/ \E b \in BOOLEAN : token_handle_set_serial(k, b) \/ wlr_xdg_activation_v1_add_token(k, b)
             \/ \E f \in {"focused", "other"} : token_handle_set_surface(k, f)
      PROVE  LkInv'
  <2>1. CASE token_handle_timeout(k) \/ activation_handle_activate(k)
    BY <2>1, TokenGone DEF token_handle_timeout, activation_handle_activate
  <2>2. CASE \E b \in BOOLEAN : token_handle_set_serial(k, b) \/ wlr_xdg_activation_v1_add_token(k, b)
    BY <2>2, SerialShown, TokenAdded
  <2>3. CASE \E f \in {"focused", "other"} : token_handle_set_surface(k, f)
    BY <2>3, SurfaceShown
  <2> QED
    BY <1>5, <2>1, <2>2, <2>3, TokenAsked, TokenCommitted, TokenObjectGone
<1>6. ASSUME NEW f \in {"focused", "other"}, token_handle_surface_destroy(f)
      PROVE  LkInv'
  BY <1>6, LinkedSurfaceGone
<1> QED
  BY <1>1, <1>2, <1>3, <1>4, <1>5, <1>6 DEF LkNext

(* A token is used once or times out, a client gets one only while the      *)
(* serial and the surface it shows are right, and the parents toplevels get *)
(* across clients are recorded, mapped and make no loop (Windows,           *)
(* WindowLinksSound).                                                       *)
THEOREM WindowLinksAreSound == LkSpec => []WindowLinksSound
<1>1. LkInit => LkInv
  BY LkStarts
<1>2. LkInv /\ [LkNext]_lnk => LkInv'
  BY LkKept
<1>3. LkInv => WindowLinksSound
  BY LkSoundness
<1> QED
  BY <1>1, <1>2, <1>3, PTL DEF LkSpec

-----------------------------------------------------------------------------
(* Both, next to the other shells: the part that is chosen moves.           *)
SharingInv ==
  /\ part = "lists" => WlInv
  /\ part = "links" => LkInv

LEMMA SharingStart == ShellsInit => SharingInv
BY WlStarts, LkStarts DEF ShellsInit, SharingInv

LEMMA SharingMove ==
  ASSUME [ShellsNext]_ShellVars
  PROVE  /\ part' = part
         /\ part = "lists" => [WlNext]_wls
         /\ part = "links" => [LkNext]_lnk
<1>1. CASE UNCHANGED ShellVars
  BY <1>1 DEF ShellVars
<1>2. CASE ShellsNext
  BY <1>2 DEF ShellsNext
<1> QED
  BY <1>1, <1>2

LEMMA SharingKept == SharingInv /\ [ShellsNext]_ShellVars => SharingInv'
<1> SUFFICES ASSUME SharingInv, [ShellsNext]_ShellVars PROVE SharingInv'
  OBVIOUS
<1>1. part' = part
  BY SharingMove
<1>2. part = "lists" => WlInv'
  BY SharingMove, WlKept DEF SharingInv
<1>3. part = "links" => LkInv'
  BY SharingMove, LkKept DEF SharingInv
<1> QED
  BY <1>1, <1>2, <1>3 DEF SharingInv

(* What clients are told of each other's windows is what there is: lists of *)
(* toplevels and workspaces with their handles and queued requests, parents *)
(* set across clients without a loop, and activation tokens, whichever of   *)
(* the client, the toplevel, the group or the output goes first             *)
(* (wlr_foreign_toplevel_management_v1.c, wlr_ext_workspace_v1.c,           *)
(* wlr_xdg_foreign_registry.c, wlr_xdg_activation_v1.c).                    *)
THEOREM WindowsAreShared == ShellsSpec => []WindowsShared
<1>1. ShellsInit => SharingInv
  BY SharingStart
<1>2. SharingInv /\ [ShellsNext]_ShellVars => SharingInv'
  BY SharingKept
<1>3. SharingInv => WindowsShared
  BY WlSoundness, LkSoundness DEF SharingInv, WindowsShared
<1> QED
  BY <1>1, <1>2, <1>3, PTL DEF ShellsSpec

-----------------------------------------------------------------------------
(* Data for an X11 requestor (Xwm).                                         *)
OutShape ==
  [left : Nat, total : Nat, pipe : Nat, closed : BOOLEAN, live : BOOLEAN, incr : BOOLEAN, set : BOOLEAN,
   flush : BOOLEAN, fd : BOOLEAN, src : BOOLEAN, data : Nat, prop : Nat \cup {Absent, IncrType}, evs : Nat,
   phase : {"asked", "told", "incr", "done", "failed"}, got : Nat]

(* No byte is lost or there twice. *)
Conserved(s) == s.phase # "failed" => s.got + Held(s.prop) + s.data + s.pipe + s.left = s.total
(* Nothing more comes. *)
Drained(s) == s.left = 0 /\ s.pipe = 0 /\ s.closed
(* Before the first answer. *)
Asking(s) ==
  /\ s.phase = "asked" /\ s.prop = Absent /\ s.evs = 0 /\ ~s.set /\ ~s.flush /\ s.fd /\ s.src
(* In chunks: set says that the property was not deleted yet, or that the   *)
(* deletion is on its way; the pipe is read unless a chunk waits for it.    *)
Chunked(s) ==
  /\ s.phase \in {"told", "incr", "done"} /\ (s.phase = "told" <=> s.prop = IncrType)
  /\ s.set <=> s.prop # Absent \/ s.evs # 0
  /\ s.evs = 0 \/ (s.evs = 1 /\ s.prop = Absent)
  /\ s.src <=> s.fd /\ ~s.flush
  /\ s.flush => s.set
  /\ s.prop = IncrType => s.flush
  /\ s.flush /\ s.fd => s.data > 0
  /\ ~s.fd => s.flush /\ Drained(s)
  /\ s.prop = 0 \/ s.phase = "done" => ~s.fd /\ s.data = 0
  /\ s.phase = "done" => s.prop \in {0, Absent}
(* After the end. *)
Over(s) ==
  /\ ~s.src /\ s.phase # "asked"
  /\ s.phase # "failed" => Drained(s) /\ s.data = 0
  /\ s.phase = "done" => s.prop \in {0, Absent}
  /\ s.phase = "incr" => s.prop = 0
  /\ s.phase = "told" => s.prop \in Nat
OutGood(s) ==
  /\ s \in OutShape /\ Conserved(s) /\ (s.closed => s.left = 0)
  /\ s.live /\ ~s.incr => Asking(s)
  /\ s.live /\ s.incr => Chunked(s)
  /\ ~s.live => Over(s)
OutInv == OutGood(xout)

(* The marks are no sizes. *)
LEMMA Marks ==
  /\ Absent # IncrType /\ Absent \notin Nat /\ IncrType \notin Nat
  /\ Held(Absent) = 0 /\ Held(IncrType) = 0 /\ \A n \in Nat : Held(n) = n
<1>1. Absent # IncrType /\ Absent \notin Nat /\ IncrType \notin Nat
  BY DEF Absent, IncrType
<1> QED
  BY <1>1 DEF Held

LEMMA OutSoundness ==
  ASSUME OutInv
  PROVE  OutComplete
BY Marks DEF OutInv, OutGood, OutShape, Conserved, Drained, Asking, Chunked, Over, OutComplete

LEMMA OutStarts ==
  ASSUME NEW n \in Nat
  PROVE  OutGood(OutTransfer(n))
<1> DEFINE s == OutTransfer(n)
<1>1. s \in OutShape
  BY DEF OutTransfer, OutShape
<1>2. /\ s.left = n /\ s.total = n /\ s.pipe = 0 /\ s.closed = FALSE /\ s.live = TRUE /\ s.incr = FALSE
      /\ s.set = FALSE /\ s.flush = FALSE /\ s.fd = TRUE /\ s.src = TRUE /\ s.data = 0 /\ s.prop = Absent
      /\ s.evs = 0 /\ s.phase = "asked" /\ s.got = 0
  BY DEF OutTransfer
<1> HIDE DEF s
<1>3. Conserved(s)
  BY <1>2, Marks DEF Conserved
<1>4. Asking(s)
  BY <1>2 DEF Asking
<1>5. OutGood(s)
  BY <1>1, <1>2, <1>3, <1>4 DEF OutGood
<1> QED
  BY <1>5 DEF s

(* The loop reads the pipe: what was read waits, goes to the property or    *)
(* ends the transfer.                                                       *)
LEMMA SourceRead ==
  ASSUME NEW s, OutGood(s), s.live, s.src,
         NEW len \in Nat, len <= s.pipe, len = 0 => s.pipe = 0 /\ s.closed
  PROVE  OutGood(xwm_data_source_read(s, len))
<1> USE XSelectionAssumption, Marks
<1> DEFINE new == [s EXCEPT !.pipe = @ - len, !.data = @ + len]
           n == xwm_data_source_read(s, len)
<1>1. /\ s \in OutShape /\ Conserved(s) /\ (s.closed => s.left = 0)
      /\ (~s.incr => Asking(s)) /\ (s.incr => Chunked(s))
  BY DEF OutGood
<1>2. /\ new \in OutShape /\ new.pipe = s.pipe - len /\ new.data = s.data + len /\ new.prop = s.prop
      /\ new.evs = s.evs /\ new.total = s.total /\ new.left = s.left /\ new.closed = s.closed
      /\ new.live = s.live /\ new.incr = s.incr /\ new.set = s.set /\ new.flush = s.flush
      /\ new.fd = s.fd /\ new.src = s.src /\ new.phase = s.phase /\ new.got = s.got
  <2>1. s.pipe - len \in Nat /\ s.data + len \in Nat
    BY <1>1 DEF OutShape
  <2> QED
    BY <1>1, <2>1 DEF OutShape
<1>3. s.phase # "failed" /\ s.fd /\ ~s.flush /\ s.phase # "told" /\ (~s.incr => ~s.set) /\ (~s.set => s.prop = Absent)
  BY <1>1 DEF Asking, Chunked
<1>4. s.got + Held(s.prop) + new.data + new.pipe + s.left = s.total
  BY <1>1, <1>2, <1>3 DEF Conserved, OutShape
<1> HIDE DEF new
<1>5. CASE new.data >= Chunk /\ ~s.incr
  <2>1. n = [new EXCEPT !.prop = IncrType, !.incr = TRUE, !.set = TRUE, !.flush = TRUE, !.src = FALSE,
                        !.phase = "told"]
    BY <1>2, <1>5 DEF xwm_data_source_read, xwm_selection_send_notify, new, OutShape
  <2> HIDE DEF n
  <2>2. /\ n \in OutShape /\ n.prop = IncrType /\ n.incr = TRUE /\ n.set = TRUE /\ n.flush = TRUE
        /\ n.src = FALSE /\ n.phase = "told" /\ n.pipe = new.pipe /\ n.data = new.data
        /\ n.evs = s.evs /\ n.total = s.total /\ n.left = s.left /\ n.closed = s.closed
        /\ n.live = s.live /\ n.fd = s.fd /\ n.got = s.got
    BY <1>2, <2>1 DEF OutShape
  <2>3. Conserved(n)
    BY <1>1, <1>2, <1>3, <1>4, <1>5, <2>2 DEF Conserved, Asking, OutShape
  <2>4. Chunked(n)
    BY <1>1, <1>2, <1>3, <1>5, <2>2 DEF Chunked, Asking, OutShape
  <2>5. OutGood(n)
    BY <1>1, <2>2, <2>3, <2>4 DEF OutGood
  <2> QED
    BY <2>5 DEF n
<1>6. CASE new.data >= Chunk /\ s.incr /\ s.set
  <2>1. n = [new EXCEPT !.flush = TRUE, !.src = FALSE]
    BY <1>2, <1>6 DEF xwm_data_source_read, new
  <2> HIDE DEF n
  <2>2. /\ n \in OutShape /\ n.prop = s.prop /\ n.incr = s.incr /\ n.set = s.set /\ n.flush = TRUE
        /\ n.src = FALSE /\ n.phase = s.phase /\ n.pipe = new.pipe /\ n.data = new.data
        /\ n.evs = s.evs /\ n.total = s.total /\ n.left = s.left /\ n.closed = s.closed
        /\ n.live = s.live /\ n.fd = s.fd /\ n.got = s.got
    BY <1>2, <2>1 DEF OutShape
  <2>3. Conserved(n)
    BY <1>4, <2>2 DEF Conserved
  <2>4. Chunked(n)
    BY <1>1, <1>2, <1>3, <1>6, <2>2 DEF Chunked, OutShape
  <2>5. OutGood(n)
    BY <1>1, <1>6, <2>2, <2>3, <2>4 DEF OutGood
  <2> QED
    BY <2>5 DEF n
<1>7. CASE new.data >= Chunk /\ s.incr /\ ~s.set
  <2>1. n = [new EXCEPT !.prop = new.data, !.set = TRUE, !.data = 0]
    BY <1>2, <1>7 DEF xwm_data_source_read, xwm_selection_flush_source_data, new
  <2> HIDE DEF n
  <2>2. /\ n \in OutShape /\ n.prop = new.data /\ n.incr = s.incr /\ n.set = TRUE /\ n.flush = s.flush
        /\ n.src = s.src /\ n.phase = s.phase /\ n.pipe = new.pipe /\ n.data = 0
        /\ n.evs = s.evs /\ n.total = s.total /\ n.left = s.left /\ n.closed = s.closed
        /\ n.live = s.live /\ n.fd = s.fd /\ n.got = s.got
    BY <1>2, <2>1 DEF OutShape
  <2>3. Conserved(n)
    BY <1>1, <1>2, <1>3, <1>4, <1>7, <2>2 DEF Conserved, OutShape
  <2>4. Chunked(n)
    BY <1>1, <1>2, <1>3, <1>7, <2>2 DEF Chunked, OutShape
  <2>5. OutGood(n)
    BY <1>1, <1>7, <2>2, <2>3, <2>4 DEF OutGood
  <2> QED
    BY <2>5 DEF n
<1>8. CASE ~(new.data >= Chunk) /\ len > 0
  <2>1. n = new
    BY <1>8 DEF xwm_data_source_read, new
  <2> HIDE DEF n
  <2>3. Conserved(n)
    BY <1>2, <1>4, <2>1 DEF Conserved
  <2>4. s.incr => Chunked(n)
    BY <1>1, <1>2, <1>3, <1>8, <2>1 DEF Chunked, OutShape
  <2>5. ~s.incr => Asking(n)
    BY <1>1, <1>2, <2>1 DEF Asking
  <2>6. OutGood(n)
    BY <1>1, <1>2, <2>1, <2>3, <2>4, <2>5 DEF OutGood
  <2> QED
    BY <2>6 DEF n
<1>9. CASE ~(new.data >= Chunk) /\ len = 0 /\ ~s.incr
  <2>1. n = [new EXCEPT !.prop = new.data, !.set = TRUE, !.data = 0, !.phase = "told",
                        !.live = FALSE, !.src = FALSE, !.fd = FALSE]
    BY <1>2, <1>9 DEF xwm_data_source_read, destroy_outgoing, xwm_selection_send_notify,
                      xwm_selection_flush_source_data, new, OutShape
  <2> HIDE DEF n
  <2>2. /\ n \in OutShape /\ n.prop = new.data /\ n.data = 0 /\ n.src = FALSE /\ n.live = FALSE
        /\ n.phase = "told" /\ n.pipe = new.pipe /\ n.total = s.total /\ n.left = s.left
        /\ n.closed = s.closed /\ n.got = s.got
    BY <1>2, <2>1 DEF OutShape
  <2>3. Conserved(n)
    BY <1>1, <1>2, <1>3, <1>4, <1>9, <2>2 DEF Conserved, OutShape
  <2>4. Over(n)
    BY <1>1, <1>2, <1>9, <2>2 DEF Over, Drained, OutShape
  <2>5. OutGood(n)
    BY <1>1, <2>2, <2>3, <2>4 DEF OutGood
  <2> QED
    BY <2>5 DEF n
<1>10. CASE ~(new.data >= Chunk) /\ len = 0 /\ s.incr
  <2> DEFINE f == IF s.set THEN new ELSE [new EXCEPT !.prop = new.data, !.set = TRUE, !.data = 0]
  <2>1. n = [f EXCEPT !.flush = TRUE, !.src = FALSE, !.fd = FALSE]
    BY <1>2, <1>10 DEF xwm_data_source_read, xwm_selection_flush_source_data, new
  <2>2. /\ f \in OutShape /\ f.set = TRUE /\ f.incr = s.incr /\ f.phase = s.phase /\ f.pipe = new.pipe
        /\ f.evs = s.evs /\ f.total = s.total /\ f.left = s.left /\ f.closed = s.closed
        /\ f.live = s.live /\ f.got = s.got
        /\ s.set => f.prop = s.prop /\ f.data = new.data
        /\ ~s.set => f.prop = new.data /\ f.data = 0
    BY <1>2 DEF OutShape
  <2> HIDE DEF n, f
  <2>3. /\ n \in OutShape /\ n.set = TRUE /\ n.incr = s.incr /\ n.phase = s.phase /\ n.pipe = new.pipe
        /\ n.evs = s.evs /\ n.total = s.total /\ n.left = s.left /\ n.closed = s.closed
        /\ n.live = s.live /\ n.got = s.got /\ n.flush = TRUE /\ n.src = FALSE /\ n.fd = FALSE
        /\ n.prop = f.prop /\ n.data = f.data
    BY <2>1, <2>2 DEF OutShape
  <2>4. Conserved(n)
    BY <1>1, <1>2, <1>3, <1>4, <1>10, <2>2, <2>3 DEF Conserved, OutShape
  <2>5. Chunked(n)
    BY <1>1, <1>2, <1>3, <1>10, <2>2, <2>3 DEF Chunked, Drained, OutShape
  <2>6. OutGood(n)
    BY <1>1, <1>10, <2>3, <2>4, <2>5 DEF OutGood
  <2> QED
    BY <2>6 DEF n
<1> QED
  BY <1>5, <1>6, <1>7, <1>8, <1>9, <1>10

LEMMA OutKept ==
  ASSUME OutInv, [OutNext]_xout
  PROVE  OutInv'
<1> USE XSelectionAssumption, Marks DEF OutInv
<1>1. CASE WlWrite
  <2>0. xout.left \in Nat /\ xout.left - 1 \in Nat /\ xout.pipe \in Nat /\ xout.pipe + 1 \in Nat
    BY <1>1 DEF WlWrite, OutGood, OutShape
  <2>1. /\ xout' \in OutShape /\ xout'.left = xout.left - 1 /\ xout'.pipe = xout.pipe + 1
        /\ xout'.closed = xout.closed /\ xout'.live = xout.live /\ xout'.incr = xout.incr
        /\ xout'.set = xout.set /\ xout'.flush = xout.flush /\ xout'.fd = xout.fd /\ xout'.src = xout.src
        /\ xout'.data = xout.data /\ xout'.prop = xout.prop /\ xout'.evs = xout.evs
        /\ xout'.phase = xout.phase /\ xout'.got = xout.got /\ xout'.total = xout.total
    BY <1>1, <2>0 DEF WlWrite, OutGood, OutShape
  <2>2. ~Drained(xout) /\ ~xout'.closed
    BY <1>1, <2>1 DEF WlWrite, Drained, OutGood, OutShape
  <2>3. Conserved(xout')
    BY <2>1 DEF OutGood, OutShape, Conserved
  <2> QED
    BY <2>1, <2>2, <2>3 DEF OutGood, OutShape, Asking, Chunked, Over
<1>2. CASE WlClose
  BY <1>2 DEF WlClose, OutGood, OutShape, Conserved, Drained, Asking, Chunked, Over
<1>4. CASE SourceError
  BY <1>4 DEF SourceError, destroy_outgoing, xwm_selection_send_notify, OutGood, OutShape, Conserved, Drained, Asking, Chunked, Over
<1>5. CASE xwm_handle_selection_property_notify
  <2> DEFINE st == [xout EXCEPT !.evs = @ - 1]
  <2>1. /\ st \in OutShape /\ st.evs = xout.evs - 1 /\ st.total = xout.total
        /\ st.left = xout.left /\ st.pipe = xout.pipe /\ st.closed = xout.closed /\ st.live = xout.live
        /\ st.incr = xout.incr /\ st.set = xout.set /\ st.flush = xout.flush /\ st.fd = xout.fd
        /\ st.src = xout.src /\ st.data = xout.data /\ st.prop = xout.prop
        /\ st.phase = xout.phase /\ st.got = xout.got
    BY <1>5 DEF xwm_handle_selection_property_notify, OutGood, OutShape
  <2>2. xout' = IF st.live /\ st.incr THEN xwm_send_incr_chunk(st) ELSE st
    BY <1>5 DEF xwm_handle_selection_property_notify
  <2> HIDE DEF st
  <2>3. CASE ~(st.live /\ st.incr)
    BY <1>5, <2>1, <2>2, <2>3
       DEF xwm_handle_selection_property_notify, OutGood, OutShape, Conserved, Drained, Asking, Over
  <2>4. CASE st.live /\ st.incr
    <3> DEFINE n == xwm_selection_flush_source_data([st EXCEPT !.flush = FALSE])
    <3>0. /\ n \in OutShape /\ n.prop = st.data /\ n.data = 0 /\ n.set = TRUE /\ n.flush = FALSE
          /\ n.evs = st.evs /\ n.total = st.total /\ n.left = st.left /\ n.pipe = st.pipe
          /\ n.closed = st.closed /\ n.live = st.live /\ n.incr = st.incr /\ n.fd = st.fd
          /\ n.src = st.src /\ n.phase = st.phase /\ n.got = st.got
      BY <2>1 DEF xwm_selection_flush_source_data, OutShape
    <3> HIDE DEF n
    <3>1. st.prop = Absent /\ st.evs = 0 /\ st.phase \in {"incr", "done"} /\ Chunked(xout) /\ Conserved(xout)
      BY <1>5, <2>1, <2>4 DEF xwm_handle_selection_property_notify, OutGood, OutShape, Chunked
    <3>2. CASE ~st.flush
      BY <2>1, <2>2, <2>4, <3>1, <3>2 DEF xwm_send_incr_chunk, OutGood, OutShape, Conserved, Drained, Chunked
    <3>3. CASE st.flush /\ st.fd
      <4>2. xout' = [n EXCEPT !.src = TRUE]
        BY <2>2, <2>4, <3>3 DEF xwm_send_incr_chunk, n
      <4>3. /\ xout' \in OutShape /\ xout'.prop = st.data /\ xout'.data = 0 /\ xout'.set = TRUE
            /\ xout'.flush = FALSE /\ xout'.src = TRUE /\ xout'.evs = st.evs /\ xout'.total = st.total
            /\ xout'.left = st.left /\ xout'.pipe = st.pipe /\ xout'.closed = st.closed
            /\ xout'.live = st.live /\ xout'.incr = st.incr /\ xout'.fd = st.fd
            /\ xout'.phase = st.phase /\ xout'.got = st.got
        BY <3>0, <4>2 DEF OutShape
      <4>4. st.data \in Nat /\ st.data > 0
        BY <2>1, <3>1, <3>3 DEF Chunked, OutShape
      <4>5. Conserved(xout')
        BY <2>1, <3>1, <4>3, <4>4 DEF Conserved, OutShape
      <4>6. Chunked(xout')
        BY <2>1, <3>1, <3>3, <4>3, <4>4 DEF Chunked, OutShape
      <4> QED
        BY <2>1, <2>4, <4>3, <4>5, <4>6 DEF OutGood
    <3>4. CASE st.flush /\ ~st.fd /\ st.data > 0
      <4>1. xout' = [n EXCEPT !.flush = TRUE]
        BY <2>2, <2>4, <3>4 DEF xwm_send_incr_chunk, n
      <4>2. /\ xout' \in OutShape /\ xout'.prop = st.data /\ xout'.data = 0 /\ xout'.set = TRUE
            /\ xout'.flush = TRUE /\ xout'.src = st.src /\ xout'.evs = st.evs /\ xout'.total = st.total
            /\ xout'.left = st.left /\ xout'.pipe = st.pipe /\ xout'.closed = st.closed
            /\ xout'.live = st.live /\ xout'.incr = st.incr /\ xout'.fd = st.fd
            /\ xout'.phase = st.phase /\ xout'.got = st.got
        BY <3>0, <4>1 DEF OutShape
      <4>3. st.data \in Nat
        BY <2>1 DEF OutShape
      <4>4. Conserved(xout')
        BY <2>1, <3>1, <4>2, <4>3 DEF Conserved, OutShape
      <4>5. Chunked(xout')
        BY <2>1, <3>1, <3>4, <4>2, <4>3 DEF Chunked, OutShape, Drained
      <4> QED
        BY <2>1, <2>4, <4>2, <4>4, <4>5 DEF OutGood
    <3>5. CASE st.flush /\ ~st.fd /\ ~(st.data > 0)
      <4>1. xout' = destroy_outgoing(n)
        BY <2>2, <2>4, <3>5 DEF xwm_send_incr_chunk, n
      <4>2. /\ xout' \in OutShape /\ xout'.prop = st.data /\ xout'.data = 0
            /\ xout'.src = FALSE /\ xout'.total = st.total
            /\ xout'.left = st.left /\ xout'.pipe = st.pipe /\ xout'.closed = st.closed
            /\ xout'.live = FALSE /\ xout'.phase = st.phase /\ xout'.got = st.got
        BY <3>0, <4>1 DEF OutShape, destroy_outgoing
      <4>3. st.data = 0 /\ Drained(st)
        BY <2>1, <3>1, <3>5 DEF OutShape, Chunked, Drained
      <4>4. Conserved(xout')
        BY <2>1, <3>1, <4>2, <4>3 DEF Conserved, OutShape
      <4>5. Over(xout')
        BY <2>1, <3>1, <4>2, <4>3 DEF Over, Drained
      <4> QED
        BY <2>1, <2>4, <4>2, <4>3, <4>4, <4>5 DEF OutGood, Drained
    <3> QED
      BY <3>2, <3>3, <3>4, <3>5
  <2> QED
    BY <2>3, <2>4
<1>6. CASE RequestorRead
  <2> DEFINE e == xout.evs + 1
             g == IF xout.prop = IncrType THEN xout.got ELSE xout.got + xout.prop
             p == IF xout.phase = "done" THEN "done"
                  ELSE IF xout.prop = IncrType \/ (xout.phase = "incr" /\ xout.prop > 0) THEN "incr" ELSE "done"
  <2>1. xout' = [xout EXCEPT !.prop = Absent, !.evs = e, !.got = g, !.phase = p]
    BY <1>6 DEF RequestorRead
  <2>2. /\ xout \in OutShape /\ xout.prop # Absent /\ xout.phase \in {"told", "incr", "done"}
        /\ xout.prop # IncrType => xout.prop \in Nat
    BY <1>6 DEF RequestorRead, OutGood, OutShape
  <2>3. e \in Nat /\ e = xout.evs + 1 /\ g \in Nat /\ p \in {"incr", "done"} /\ g = xout.got + Held(xout.prop)
    BY <2>2 DEF OutShape
  <2>4. /\ p = "done" => \/ xout.phase = "done"
                         \/ xout.prop # IncrType /\ (xout.phase = "told" \/ xout.prop = 0)
        /\ p = "incr" => xout.prop = IncrType \/ (xout.phase = "incr" /\ xout.prop # 0)
    BY <2>2
  <2> HIDE DEF e, g, p
  <2>5. /\ xout' \in OutShape /\ xout'.prop = Absent /\ xout'.evs = e /\ xout'.got = g
        /\ xout'.phase = p /\ xout'.set = xout.set /\ xout'.flush = xout.flush /\ xout'.fd = xout.fd
        /\ xout'.src = xout.src /\ xout'.live = xout.live /\ xout'.incr = xout.incr
        /\ xout'.closed = xout.closed /\ xout'.left = xout.left /\ xout'.pipe = xout.pipe
        /\ xout'.data = xout.data /\ xout'.total = xout.total
    BY <2>1, <2>2, <2>3 DEF OutShape
  <2>6. Conserved(xout')
    BY <2>2, <2>3, <2>5 DEF OutGood, OutShape, Conserved
  <2>7. CASE xout.live
    <3>1. xout.incr /\ Chunked(xout)
      BY <2>2, <2>7 DEF OutGood, Asking
    <3>2. xout.evs = 0 /\ xout'.evs = 1 /\ xout'.set /\ xout.set
      BY <2>2, <2>3, <2>5, <3>1 DEF Chunked, OutShape
    <3>3. p = "done" => ~xout.fd /\ xout.data = 0
      BY <2>4, <3>1 DEF Chunked
    <3>4. Chunked(xout')
      BY <2>2, <2>3, <2>5, <3>1, <3>2, <3>3 DEF Chunked, Drained
    <3> QED
      BY <2>5, <2>6, <2>7, <3>1, <3>4 DEF OutGood
  <2>8. CASE ~xout.live
    <3>1. Over(xout)
      BY <2>8 DEF OutGood
    <3>2. p # "incr"
      BY <2>2, <2>4, <3>1 DEF Over
    <3>3. Over(xout')
      BY <2>2, <2>3, <2>5, <3>1, <3>2 DEF Over, Drained
    <3> QED
      BY <2>5, <2>6, <2>8, <3>3 DEF OutGood
  <2> QED
    BY <2>7, <2>8 DEF OutGood, OutShape
<1>7. CASE RequestorDestroyed
  BY <1>7 DEF RequestorDestroyed, destroy_outgoing, OutGood, OutShape, Conserved, Drained, Asking, Chunked, Over
<1>3. CASE SourceReadable
  <2>1. PICK len \in Nat : /\ len <= xout.pipe /\ (len = 0 => xout.pipe = 0 /\ xout.closed)
                          /\ xout' = xwm_data_source_read(xout, len)
    BY <1>3 DEF SourceReadable, OutGood, OutShape
  <2>2. xout \in OutShape /\ xout.live /\ xout.src /\ (xout.closed => xout.left = 0)
    BY <1>3 DEF SourceReadable, OutGood
  <2> QED
    BY <2>1, <2>2, SourceRead
<1>8. CASE UNCHANGED xout
  BY <1>8
<1> QED
  BY <1>1, <1>2, <1>3, <1>4, <1>5, <1>6, <1>7, <1>8 DEF OutNext

-----------------------------------------------------------------------------
(* Data of an X11 owner (Xwm).                                              *)
InEvents == {<<>>, <<"new">>, <<"notify">>, <<"new", "notify">>, <<"none">>}
InShape ==
  [left : Nat, total : Nat, mode : {"asked", "whole", "incr", "sent", "refused"},
   prop : Nat \cup {Absent, IncrType}, evs : InEvents, live : BOOLEAN, incr : BOOLEAN,
   reply : Nat \cup {Absent}, src : BOOLEAN, got : Nat, ended : BOOLEAN, lost : BOOLEAN]

(* No byte is lost or there twice, unless a write failed. *)
Owed(s) == IF s.reply # Absent THEN s.reply ELSE Held(s.prop)
Balanced(s) == ~s.lost /\ s.mode # "refused" => s.got + Owed(s) + s.left = s.total
(* Where a transfer is that has not ended: asked for, answered, refused, a  *)
(* chunk is there, being written, or awaited.                               *)
Idling(s) == s.reply = Absent /\ ~s.src
Stage(s) ==
  \/ s.mode = "asked" /\ s.evs = <<>> /\ s.prop = Absent /\ ~s.incr /\ Idling(s)
  \/ /\ s.mode \in {"whole", "incr"} /\ s.evs \in {<<"new", "notify">>, <<"notify">>} /\ ~s.incr /\ Idling(s)
     /\ s.mode = "whole" => s.left = 0 /\ s.prop \in Nat
     /\ s.mode = "incr" => s.prop = IncrType
  \/ s.mode = "refused" /\ s.evs = <<"none">> /\ ~s.incr /\ Idling(s)
  \/ /\ s.mode \in {"incr", "sent"} /\ s.evs = <<"new">> /\ s.incr /\ s.prop \in Nat /\ Idling(s)
     /\ s.mode = "sent" <=> s.prop = 0
     /\ s.mode = "sent" => s.left = 0
  \/ /\ s.mode \in {"whole", "incr"} /\ s.evs = <<>> /\ s.src /\ s.reply \in Nat
     /\ s.mode = "whole" => s.left = 0 /\ ~s.incr
     /\ s.mode = "incr" => s.incr /\ s.prop # Absent
  \/ s.mode = "incr" /\ s.evs = <<>> /\ s.incr /\ s.prop = Absent /\ Idling(s)
InGood(s) ==
  /\ s \in InShape /\ Balanced(s) /\ s.got <= s.total
  /\ s.live => Stage(s) /\ ~s.ended /\ ~s.lost
  /\ ~s.live => s.evs = <<>> /\ Idling(s) /\ s.prop = Absent /\ s.mode # "asked"
  /\ s.ended => s.got = s.total /\ ~s.lost
InInv == InGood(xin)

LEMMA InSoundness ==
  ASSUME InInv
  PROVE  InComplete
<1>1. InGood(xin)
  BY DEF InInv
<1>2. /\ Balanced(xin) /\ (xin.ended => xin.got = xin.total) /\ xin.got <= xin.total
      /\ (xin.lost => ~xin.live /\ ~xin.ended)
  BY <1>1 DEF InGood
<1>3. xin.live => (xin.src <=> xin.reply # Absent)
  BY <1>1, Marks DEF InGood, Stage, Idling
<1>4. xin.live /\ xin.mode \in {"whole", "sent", "refused"} /\ xin.evs = <<>> => xin.src
  BY <1>1 DEF InGood, Stage
<1>5. xin.live \in BOOLEAN
  BY <1>1 DEF InGood, InShape
<1> QED
  BY <1>2, <1>3, <1>4, <1>5 DEF InComplete, Balanced, Owed

LEMMA InStarts ==
  ASSUME NEW n \in Nat
  PROVE  InGood(InTransfer(n))
<1> DEFINE s == InTransfer(n)
<1>1. s \in InShape
  BY DEF InTransfer, InShape, InEvents
<1>2. /\ s.left = n /\ s.total = n /\ s.mode = "asked" /\ s.prop = Absent /\ s.evs = <<>> /\ s.live = TRUE
      /\ s.incr = FALSE /\ s.reply = Absent /\ s.src = FALSE /\ s.got = 0 /\ s.ended = FALSE /\ s.lost = FALSE
  BY DEF InTransfer
<1> HIDE DEF s
<1>3. Balanced(s)
  BY <1>2, Marks DEF Balanced, Owed
<1>4. Stage(s)
  BY <1>2 DEF Stage, Idling
<1>5. InGood(s)
  BY <1>1, <1>2, <1>3, <1>4 DEF InGood
<1> QED
  BY <1>5 DEF s

(* A reply that is to be written. *)
Replying(s) ==
  /\ s \in InShape /\ s.live /\ s.reply \in Nat /\ s.evs = <<>> /\ ~s.ended /\ ~s.lost
  /\ s.mode \in {"whole", "incr"} /\ s.got + s.reply + s.left = s.total
  /\ s.mode = "whole" => s.left = 0 /\ ~s.incr
  /\ s.mode = "incr" => s.incr /\ s.prop # Absent

(* The transfer goes before its end. *)
LEMMA InDropped ==
  ASSUME NEW s, s \in InShape, s.evs = <<>>, s.ended = FALSE, s.mode # "asked", s.got <= s.total, NEW l \in BOOLEAN,
         l \/ s.mode = "refused"
  PROVE  InGood([xwm_selection_transfer_destroy(s) EXCEPT !.lost = l])
<1> DEFINE n == [xwm_selection_transfer_destroy(s) EXCEPT !.lost = l]
<1>1. /\ n \in InShape /\ n.reply = Absent /\ n.mode = s.mode /\ n.prop = Absent /\ n.evs = <<>>
      /\ n.live = FALSE /\ n.src = FALSE /\ n.ended = FALSE /\ n.lost = l
      /\ n.got = s.got /\ n.total = s.total
  BY DEF InShape, xwm_selection_transfer_destroy
<1> HIDE DEF n
<1>2. InGood(n)
  BY <1>1 DEF InGood, Balanced, Idling
<1> QED
  BY <1>2 DEF n

LEMMA ReplyWritten ==
  ASSUME NEW s, Replying(s), NEW len \in Nat \cup {Failed}, len <= s.reply
  PROVE  InGood(write_selection_property_to_wl_client(s, len))
<1> USE Marks
<1>1. CASE len = Failed
  <2>1. write_selection_property_to_wl_client(s, len) = [xwm_selection_transfer_destroy(s) EXCEPT !.lost = TRUE]
    BY <1>1 DEF write_selection_property_to_wl_client
  <2>2. /\ s \in InShape /\ s.evs = <<>> /\ s.ended = FALSE /\ s.mode # "asked"
        /\ s.got \in Nat /\ s.reply \in Nat /\ s.left \in Nat /\ s.total \in Nat
        /\ s.got + s.reply + s.left = s.total
    BY DEF Replying, InShape
  <2>3. s.got <= s.total
    BY ONLY <2>2
  <2> QED
    BY <2>1, <2>2, <2>3, InDropped
<1>2. CASE len \in Nat
  <2> DEFINE g == s.got + len
             r == s.reply - len
             new == [s EXCEPT !.got = g, !.reply = r]
             n == write_selection_property_to_wl_client(s, len)
  <2>1. s \in InShape /\ s.live = TRUE /\ s.evs = <<>> /\ s.ended = FALSE /\ s.lost = FALSE
    BY DEF Replying, InShape
  <2>2. g \in Nat /\ r \in Nat /\ g + r + s.left = s.total /\ g <= s.total /\ (~(len < s.reply) => r = 0)
    <3>1. s.got \in Nat /\ s.reply \in Nat /\ s.left \in Nat /\ s.total \in Nat /\ s.got + s.reply + s.left = s.total
      BY DEF Replying, InShape
    <3> QED
      BY ONLY <3>1, <1>2, len <= s.reply
  <2>3. n = IF len < s.reply THEN [new EXCEPT !.src = TRUE]
            ELSE IF s.incr THEN xwm_notify_ready_for_next_incr_chunk(new)
            ELSE [xwm_selection_transfer_destroy(new) EXCEPT !.ended = TRUE]
    BY <1>2 DEF write_selection_property_to_wl_client, Failed
  <2> HIDE DEF g, r, n
  <2>4. /\ new \in InShape /\ new.got = g /\ new.reply = r /\ new.left = s.left /\ new.total = s.total
        /\ new.mode = s.mode /\ new.prop = s.prop /\ new.evs = <<>> /\ new.live = TRUE
        /\ new.incr = s.incr /\ new.src = s.src /\ new.ended = FALSE /\ new.lost = FALSE
    BY <2>1, <2>2 DEF InShape
  <2> HIDE DEF new
  <2>5. CASE len < s.reply
    <3>1. /\ n \in InShape /\ n.got = g /\ n.reply = r /\ n.left = s.left /\ n.total = s.total
          /\ n.mode = s.mode /\ n.prop = s.prop /\ n.evs = <<>> /\ n.live = TRUE
          /\ n.incr = s.incr /\ n.src = TRUE /\ n.ended = FALSE /\ n.lost = FALSE
      BY <2>3, <2>4, <2>5 DEF InShape
    <3>2. Balanced(n)
      BY <2>2, <3>1 DEF Balanced, Owed
    <3>3. Stage(n)
      BY <2>2, <3>1 DEF Stage, Replying
    <3>4. InGood(n)
      BY <2>2, <3>1, <3>2, <3>3 DEF InGood
    <3> QED
      BY <3>4 DEF n
  <2>6. CASE ~(len < s.reply) /\ s.incr
    <3>1. /\ n \in InShape /\ n.got = g /\ n.reply = Absent /\ n.left = s.left /\ n.total = s.total
          /\ n.mode = s.mode /\ n.prop = Absent /\ n.evs = <<>> /\ n.live = TRUE
          /\ n.incr = s.incr /\ n.src = FALSE /\ n.ended = FALSE /\ n.lost = FALSE
      BY <2>3, <2>4, <2>6 DEF InShape, xwm_notify_ready_for_next_incr_chunk
    <3>2. Balanced(n)
      BY <2>2, <2>6, <3>1 DEF Balanced, Owed
    <3>3. Stage(n)
      BY <2>6, <3>1 DEF Stage, Idling, Replying
    <3>4. InGood(n)
      BY <2>2, <3>1, <3>2, <3>3 DEF InGood
    <3> QED
      BY <3>4 DEF n
  <2>7. CASE ~(len < s.reply) /\ ~s.incr
    <3>1. /\ n \in InShape /\ n.got = g /\ n.reply = Absent /\ n.left = s.left /\ n.total = s.total
          /\ n.mode = s.mode /\ n.prop = Absent /\ n.evs = <<>> /\ n.live = FALSE
          /\ n.src = FALSE /\ n.ended = TRUE /\ n.lost = FALSE
      BY <2>3, <2>4, <2>7 DEF InShape, xwm_selection_transfer_destroy
    <3>2. Balanced(n)
      BY <2>2, <2>7, <3>1 DEF Balanced, Owed
    <3>3. s.mode = "whole" /\ s.left = 0
      BY <2>7 DEF Replying
    <3>4. n.got = n.total
      BY <2>2, <2>7, <3>1, <3>3
    <3>5. InGood(n)
      BY <2>2, <3>1, <3>2, <3>3, <3>4 DEF InGood, Idling
    <3> QED
      BY <3>5 DEF n
  <2> QED
    BY <2>5, <2>6, <2>7
<1> QED
  BY <1>1, <1>2

LEMMA InQueues ==
  /\ Tail(<<"new">>) = <<>> /\ Tail(<<"notify">>) = <<>> /\ Tail(<<"none">>) = <<>>
  /\ Tail(<<"new", "notify">>) = <<"notify">>
  /\ Head(<<"new">>) = "new" /\ Head(<<"notify">>) = "notify" /\ Head(<<"none">>) = "none"
  /\ Head(<<"new", "notify">>) = "new"
  /\ <<>> \o <<"new", "notify">> = <<"new", "notify">> /\ Append(<<>>, "none") = <<"none">>
  /\ Append(<<>>, "new") = <<"new">>
  /\ <<"new">> # <<>> /\ <<"notify">> # <<>> /\ <<"none">> # <<>> /\ <<"new", "notify">> # <<>>
OBVIOUS

(* The window manager reads an event. *)
LEMMA EventRead ==
  ASSUME NEW s, InGood(s), s.evs # <<>>, NEW len,
         LET st == [s EXCEPT !.evs = Tail(s.evs)] IN len \in Bytes(st)
  PROVE  s.live /\ InGood(xwm_handle_selection_notify([s EXCEPT !.evs = Tail(s.evs)], Head(s.evs), len))
<1> USE Marks
<1> DEFINE q == Tail(s.evs)
           st == [s EXCEPT !.evs = q]
           n == xwm_handle_selection_notify(st, Head(s.evs), len)
<1>1. s.live = TRUE /\ s \in InShape /\ Balanced(s) /\ Stage(s) /\ s.ended = FALSE /\ s.lost = FALSE
      /\ s.got <= s.total
  BY DEF InGood, InShape
<1>2. s.evs \in InEvents /\ q \in InEvents
  BY <1>1, InQueues DEF InShape, InEvents
<1>3. Head(s.evs) = "new" /\ ~s.incr => q = <<"notify">> /\ s.evs = <<"new", "notify">>
  BY <1>1, InQueues DEF Stage
<1> HIDE DEF q
<1>4. /\ st \in InShape /\ st.evs = q /\ st.left = s.left /\ st.total = s.total /\ st.mode = s.mode
      /\ st.prop = s.prop /\ st.live = TRUE /\ st.incr = s.incr /\ st.reply = s.reply /\ st.src = s.src
      /\ st.got = s.got /\ st.ended = FALSE /\ st.lost = FALSE
  BY <1>1, <1>2 DEF InShape
<1>5. len \in Bytes(st)
  BY DEF q
<1> HIDE DEF st
<1>6. CASE s.evs = <<"new", "notify">>
  <2>1. n = st /\ q = <<"notify">> /\ ~s.incr /\ s.evs # <<>>
    BY <1>1, <1>4, <1>6, InQueues DEF Stage, xwm_handle_selection_notify, q
  <2>2. Balanced(st)
    BY <1>1, <1>4 DEF Balanced, Owed
  <2>3. Stage(st)
    BY <1>1, <1>4, <1>6, <2>1, InQueues DEF Stage, Idling
  <2>4. InGood(st)
    BY <1>1, <1>4, <2>2, <2>3 DEF InGood
  <2> QED
    BY <1>1, <2>1, <2>4 DEF st, q
<1>7. CASE s.evs = <<"none">>
  <2>1. n = xwm_selection_transfer_destroy(st) /\ q = <<>> /\ s.mode = "refused"
    BY <1>1, <1>7, InQueues DEF Stage, xwm_handle_selection_notify, q
  <2>2. InGood([xwm_selection_transfer_destroy(st) EXCEPT !.lost = FALSE])
    BY <1>1, <1>4, <2>1, InDropped
  <2>3. [xwm_selection_transfer_destroy(st) EXCEPT !.lost = FALSE] = xwm_selection_transfer_destroy(st)
    BY <1>4 DEF xwm_selection_transfer_destroy, InShape
  <2> QED
    BY <1>1, <2>1, <2>2, <2>3 DEF st, q
<1>8. CASE s.evs = <<"notify">>
  <2>1. /\ n = xwm_selection_transfer_get_data(st, len) /\ q = <<>> /\ ~s.incr /\ Idling(s)
        /\ s.mode \in {"whole", "incr"} /\ (s.mode = "whole" => s.left = 0 /\ s.prop \in Nat)
        /\ (s.mode = "incr" => s.prop = IncrType)
    BY <1>1, <1>8, InQueues DEF Stage, xwm_handle_selection_notify, q
  <2>2. CASE s.mode = "incr"
    <3>1. n = [st EXCEPT !.prop = Absent, !.incr = TRUE]
      BY <1>4, <2>1, <2>2 DEF xwm_selection_transfer_get_data
    <3> HIDE DEF n
    <3>2. /\ n \in InShape /\ n.evs = <<>> /\ n.left = s.left /\ n.total = s.total /\ n.mode = "incr"
          /\ n.prop = Absent /\ n.live = TRUE /\ n.incr = TRUE /\ n.reply = Absent /\ n.src = FALSE
          /\ n.got = s.got /\ n.ended = FALSE /\ n.lost = FALSE
      BY ZenonT(60), <1>4, <2>1, <2>2, <3>1 DEF InShape, Idling
    <3>3. Balanced(n)
      BY <1>1, <2>1, <2>2, <3>2 DEF Balanced, Owed, Idling
    <3>4. Stage(n)
      BY <3>2 DEF Stage, Idling
    <3>5. InGood(n)
      BY <1>1, <3>2, <3>3, <3>4 DEF InGood
    <3> QED
      BY <1>1, <3>5 DEF n, st, q
  <2>3. CASE s.mode = "whole"
    <3> DEFINE r == [st EXCEPT !.reply = st.prop, !.prop = Absent]
    <3>1. n = write_selection_property_to_wl_client(r, len)
      BY <1>4, <2>1, <2>3 DEF xwm_selection_transfer_get_data
    <3>2. /\ r \in InShape /\ r.evs = <<>> /\ r.left = s.left /\ r.total = s.total /\ r.mode = "whole"
          /\ r.prop = Absent /\ r.live = TRUE /\ r.incr = s.incr /\ r.reply = s.prop
          /\ r.got = s.got /\ r.ended = FALSE /\ r.lost = FALSE
      BY <1>4, <2>1, <2>3 DEF InShape, Idling
    <3> HIDE DEF r
    <3>3. Replying(r)
      BY <1>1, <2>1, <2>3, <3>2 DEF Replying, Balanced, Owed, Idling
    <3>4. len \in Nat \cup {Failed} /\ len <= r.reply
      BY <1>4, <1>5, <2>1, <2>3, <3>2 DEF Bytes, Written, Failed
    <3>5. InGood(write_selection_property_to_wl_client(r, len))
      BY <3>3, <3>4, ReplyWritten
    <3> QED
      BY <1>1, <3>1, <3>5 DEF n, st, q
  <2> QED
    BY <2>1, <2>2, <2>3
<1>9. CASE s.evs = <<"new">>
  <2>1. /\ n = xwm_get_incr_chunk(st, len) /\ q = <<>> /\ s.incr = TRUE /\ Idling(s)
        /\ s.mode \in {"incr", "sent"} /\ (s.mode = "sent" <=> s.prop = 0)
        /\ (s.mode = "sent" => s.left = 0) /\ s.prop \in Nat
    BY <1>1, <1>4, <1>9, InQueues DEF Stage, InShape, xwm_handle_selection_notify, q
  <2>2. CASE s.mode = "sent"
    <3>1. n = [xwm_selection_transfer_destroy(st) EXCEPT !.ended = TRUE]
      BY <1>4, <2>1, <2>2 DEF xwm_get_incr_chunk, Idling
    <3> HIDE DEF n
    <3>2. /\ n \in InShape /\ n.evs = <<>> /\ n.left = s.left /\ n.total = s.total /\ n.mode = "sent"
          /\ n.prop = Absent /\ n.live = FALSE /\ n.reply = Absent /\ n.src = FALSE
          /\ n.got = s.got /\ n.ended = TRUE /\ n.lost = FALSE
      <4>1. q = <<>>
        BY <2>1
      <4> QED
        BY ONLY <1>4, <2>2, <3>1, <4>1 DEF InShape, xwm_selection_transfer_destroy
    <3>3. s.got = s.total /\ s.left = 0 /\ s.got \in Nat
      BY <1>1, <2>1, <2>2 DEF Balanced, Owed, Idling, InShape
    <3>4. Balanced(n)
      BY <3>2, <3>3 DEF Balanced, Owed
    <3>5. InGood(n)
      BY <1>1, <3>2, <3>3, <3>4 DEF InGood, Idling
    <3> QED
      BY <1>1, <3>5 DEF n, st, q
  <2>3. CASE s.mode = "incr"
    <3> DEFINE r == [st EXCEPT !.reply = st.prop]
    <3>1. n = write_selection_property_to_wl_client(r, len)
      BY <1>4, <2>1, <2>3 DEF xwm_get_incr_chunk, Idling
    <3>2. /\ r \in InShape /\ r.evs = <<>> /\ r.left = s.left /\ r.total = s.total /\ r.mode = "incr"
          /\ r.prop = s.prop /\ r.live = TRUE /\ r.incr = s.incr /\ r.reply = s.prop
          /\ r.got = s.got /\ r.ended = FALSE /\ r.lost = FALSE
      BY <1>4, <2>1, <2>3 DEF InShape, Idling
    <3> HIDE DEF r
    <3>3. Replying(r)
      BY <1>1, <2>1, <2>3, <3>2 DEF Replying, Balanced, Owed, Idling
    <3>4. len \in Nat \cup {Failed} /\ len <= r.reply
      BY <1>4, <1>5, <2>1, <2>3, <3>2 DEF Bytes, Written, Failed
    <3>5. InGood(write_selection_property_to_wl_client(r, len))
      BY <3>3, <3>4, ReplyWritten
    <3> QED
      BY <1>1, <3>1, <3>5 DEF n, st, q
  <2> QED
    BY <2>1, <2>2, <2>3
<1> QED
  BY <1>2, <1>6, <1>7, <1>8, <1>9 DEF InEvents

LEMMA InKept ==
  ASSUME InInv, [InNext]_xin
  PROVE  InInv'
<1> USE XSelectionAssumption, Marks DEF InInv
<1>0. xin \in InShape /\ Balanced(xin) /\ (xin.ended => xin.got = xin.total) /\ xin.got <= xin.total
  BY DEF InGood
<1>1. CASE OwnerAnswers
  <2>1. /\ xin.mode = "asked" /\ xin.live = TRUE /\ xin.evs = <<>> /\ xin.prop = Absent /\ xin.incr = FALSE
        /\ xin.reply = Absent /\ xin.src = FALSE /\ xin.ended = FALSE /\ xin.lost = FALSE
    BY <1>1 DEF OwnerAnswers, InGood, Stage, Idling, InShape
  <2>2. CASE xin' = [xin EXCEPT !.mode = "whole", !.prop = xin.left, !.left = 0, !.evs = <<"new", "notify">>]
    <3>1. /\ xin' \in InShape /\ xin'.mode = "whole" /\ xin'.prop = xin.left /\ xin'.left = 0
          /\ xin'.evs = <<"new", "notify">> /\ xin'.live = TRUE /\ xin'.incr = FALSE /\ xin'.reply = Absent
          /\ xin'.src = FALSE /\ xin'.ended = FALSE /\ xin'.lost = FALSE /\ xin'.got = xin.got
          /\ xin'.total = xin.total
      BY <1>0, <2>1, <2>2 DEF InShape, InEvents
    <3>2. xin.left \in Nat
      BY <1>0 DEF InShape
    <3>3. Balanced(xin')
      BY <1>0, <2>1, <3>1, <3>2 DEF Balanced, Owed, InShape
    <3>4. Stage(xin')
      BY <3>1, <3>2 DEF Stage, Idling
    <3> QED
      BY <1>0, <3>1, <3>3, <3>4 DEF InGood
  <2>3. CASE xin' = [xin EXCEPT !.mode = "incr", !.prop = IncrType, !.evs = <<"new", "notify">>]
    <3>1. /\ xin' \in InShape /\ xin'.mode = "incr" /\ xin'.prop = IncrType /\ xin'.left = xin.left
          /\ xin'.evs = <<"new", "notify">> /\ xin'.live = TRUE /\ xin'.incr = FALSE /\ xin'.reply = Absent
          /\ xin'.src = FALSE /\ xin'.ended = FALSE /\ xin'.lost = FALSE /\ xin'.got = xin.got
          /\ xin'.total = xin.total
      BY <1>0, <2>1, <2>3 DEF InShape, InEvents
    <3>3. Balanced(xin')
      BY <1>0, <2>1, <3>1 DEF Balanced, Owed, InShape
    <3>4. Stage(xin')
      BY <3>1 DEF Stage, Idling
    <3> QED
      BY <1>0, <3>1, <3>3, <3>4 DEF InGood
  <2>4. CASE xin' = [xin EXCEPT !.mode = "refused", !.evs = <<"none">>]
    <3>1. /\ xin' \in InShape /\ xin'.mode = "refused" /\ xin'.evs = <<"none">> /\ xin'.live = TRUE
          /\ xin'.incr = FALSE /\ xin'.reply = Absent /\ xin'.src = FALSE /\ xin'.ended = FALSE
          /\ xin'.lost = FALSE /\ xin'.got = xin.got /\ xin'.total = xin.total
      BY <1>0, <2>1, <2>4 DEF InShape, InEvents
    <3> QED
      BY <1>0, <3>1 DEF InGood, Balanced, Stage, Idling
  <2> QED
    BY <1>1, <2>1, <2>2, <2>3, <2>4, InQueues DEF OwnerAnswers
<1>2. CASE OwnerChunk
  <2>1. /\ xin.mode = "incr" /\ xin.live = TRUE /\ xin.evs = <<>> /\ xin.prop = Absent /\ xin.incr = TRUE
        /\ xin.reply = Absent /\ xin.src = FALSE /\ xin.ended = FALSE /\ xin.lost = FALSE
    BY <1>2 DEF OwnerChunk, InGood, Stage, Idling, InShape
  <2>2. PICK n \in 0..Chunk :
          /\ n <= xin.left /\ (n = 0 <=> xin.left = 0)
          /\ xin' = [xin EXCEPT !.prop = n, !.left = @ - n, !.evs = Append(@, "new"),
                                !.mode = IF n = 0 THEN "sent" ELSE @]
    BY ZenonT(60), <1>2 DEF OwnerChunk
  <2> DEFINE m == IF n = 0 THEN "sent" ELSE "incr"
             l == xin.left - n
  <2>3. /\ n \in Nat /\ l \in Nat /\ l + n = xin.left /\ m \in {"sent", "incr"} /\ (m = "sent" <=> n = 0)
        /\ (n = 0 => l = 0)
    BY <1>0, <2>2 DEF InShape
  <2>4. xin' = [xin EXCEPT !.prop = n, !.left = l, !.evs = <<"new">>, !.mode = m]
    BY <2>1, <2>2, InQueues
  <2> HIDE DEF m, l
  <2>5. /\ xin' \in InShape /\ xin'.mode = m /\ xin'.prop = n /\ xin'.left = l
        /\ xin'.evs = <<"new">> /\ xin'.live = TRUE /\ xin'.incr = TRUE /\ xin'.reply = Absent
        /\ xin'.src = FALSE /\ xin'.ended = FALSE /\ xin'.lost = FALSE /\ xin'.got = xin.got
        /\ xin'.total = xin.total
    BY <1>0, <2>1, <2>3, <2>4 DEF InShape, InEvents
  <2>6. Balanced(xin')
    BY <1>0, <2>1, <2>3, <2>5 DEF Balanced, Owed, InShape
  <2>7. Stage(xin')
    BY <2>3, <2>5 DEF Stage, Idling
  <2> QED
    BY <1>0, <2>5, <2>6, <2>7 DEF InGood
<1>3. CASE InEvent
  <2>1. xin.evs # <<>> /\ xin.live
    BY <1>3 DEF InEvent, InGood
  <2>2. [xin EXCEPT !.evs = Tail(@)].live = xin.live
    BY <1>0 DEF InShape
  <2>3. PICK len \in Bytes([xin EXCEPT !.evs = Tail(@)]) :
          xin' = xwm_handle_selection_notify([xin EXCEPT !.evs = Tail(@)], Head(xin.evs), len)
    BY <1>3, <2>1, <2>2 DEF InEvent
  <2> QED
    BY <2>1, <2>3, EventRead
<1>4. CASE FdWritable
  <2>1. PICK len \in Written(xin.reply) : xin' = write_selection_property_to_wl_client(xin, len)
    BY <1>4 DEF FdWritable
  <2>2. xin.live /\ xin.src
    BY <1>4 DEF FdWritable
  <2>3. Replying(xin)
    BY <1>0, <2>2 DEF InGood, Stage, Idling, Replying, Balanced, Owed
  <2>4. len \in Nat \cup {Failed} /\ len <= xin.reply
    BY <2>1, <2>3 DEF Written, Failed, Replying
  <2> QED
    BY <2>1, <2>3, <2>4, ReplyWritten
<1>5. CASE UNCHANGED xin
  BY <1>5
<1> QED
  BY <1>1, <1>2, <1>3, <1>4, <1>5 DEF InNext

-----------------------------------------------------------------------------
(* Drags over X11 windows (XwaylandServer).                                 *)
DragShape ==
  [drag : BOOLEAN, over : DragWin \cup {Nobody}, source : BOOLEAN, acc : BOOLEAN, act : BOOLEAN,
   df : DragWin \cup {Nobody}, pf : DragWin \cup {Nobody}, win : SUBSET DragWin,
   told : DragWin \cup {Nobody}, dropped : DragWin \cup {Nobody}, null : BOOLEAN, foreign : BOOLEAN]
(* The focus is what the drag is over; who may finish was dropped on. *)
DragGood(s) ==
  /\ s \in DragShape /\ s.told = s.df /\ s.df = s.over /\ (~s.drag => s.over = Nobody)
  /\ s.df \in s.win \cup {Nobody} /\ s.pf \in s.win \cup {Nobody}
  /\ s.pf # Nobody => s.pf = s.dropped
  /\ ~s.null /\ ~s.foreign
DragInv == DragGood(xdrag)

LEMMA DragSoundness ==
  ASSUME DragInv
  PROVE  XdndSound
BY DEF DragInv, DragGood, XdndSound

LEMMA DragStarts == DragInit => DragInv
<1> SUFFICES ASSUME DragInit PROVE DragInv
  OBVIOUS
<1>1. /\ xdrag \in DragShape /\ xdrag.told = Nobody /\ xdrag.df = Nobody /\ xdrag.over = Nobody
      /\ xdrag.pf = Nobody /\ xdrag.null = FALSE /\ xdrag.foreign = FALSE
  BY DEF DragInit, DragState, DragShape
<1> QED
  BY <1>1 DEF DragInv, DragGood

(* What stays when the focus changes. *)
Refocused(s, n, w) ==
  /\ n.df = w /\ n.drag = s.drag /\ n.source = s.source /\ n.pf = s.pf /\ n.win = s.win
  /\ n.dropped = s.dropped

LEMMA FocusSet ==
  ASSUME NEW s, DragGood(s), NEW w \in s.win \cup {Nobody}, s.drag
  PROVE  DragGood(seat_handle_drag_focus(s, w)) /\ Refocused(s, seat_handle_drag_focus(s, w), w)
<1> DEFINE a == IF w # Nobody THEN FALSE ELSE s.acc
           o == [s EXCEPT !.over = w, !.acc = a]
           b == IF o.df # Nobody THEN FALSE ELSE o.act
           z == o.null \/ (o.df # Nobody /\ ~o.drag)
           t == [o EXCEPT !.told = w]
           n == [t EXCEPT !.df = w, !.act = b, !.null = z]
<1>1. CASE w = s.over
  BY <1>1 DEF seat_handle_drag_focus, DragGood, Refocused
<1>2. CASE w # s.over
  <2>1. s \in DragShape /\ w \in DragWin \cup {Nobody} /\ a \in BOOLEAN
    BY DEF DragGood, DragShape
  <2> HIDE DEF a
  <2>2. /\ o \in DragShape /\ o.over = w /\ o.df = s.df /\ o.drag = s.drag /\ o.source = s.source
        /\ o.pf = s.pf /\ o.win = s.win /\ o.dropped = s.dropped /\ o.null = s.null /\ o.foreign = s.foreign
    BY <2>1 DEF DragShape
  <2>3. seat_handle_drag_focus(s, w) = xwm_set_drag_focus(o, w)
    BY <1>2 DEF seat_handle_drag_focus, a
  <2> HIDE DEF o
  <2>4. w # o.df /\ b \in BOOLEAN /\ z = FALSE
    BY <1>2, <2>2 DEF DragGood, DragShape
  <2>5. /\ t \in DragShape /\ t.over = w /\ t.told = w /\ t.drag = s.drag /\ t.source = s.source /\ t.act = o.act
        /\ t.pf = s.pf /\ t.win = s.win /\ t.dropped = s.dropped /\ t.null = o.null /\ t.foreign = s.foreign
    BY <2>1, <2>2 DEF DragShape
  <2>a. xwm_set_drag_focus(o, w) = [t EXCEPT !.df = w, !.act = IF o.df # Nobody THEN FALSE ELSE @,
                                             !.null = @ \/ (o.df # Nobody /\ ~o.drag)]
    BY <2>4 DEF xwm_set_drag_focus, xwm_dnd_send_event
  <2> HIDE DEF t
  <2> DEFINE tact == t.act
             tnull == t.null
  <2>c. xwm_set_drag_focus(o, w) = [t EXCEPT !.df = w, !.act = IF o.df # Nobody THEN FALSE ELSE tact,
                                             !.null = tnull \/ (o.df # Nobody /\ ~o.drag)]
    BY <2>a
  <2>d. tact = o.act /\ tnull = o.null
    BY <2>5
  <2> HIDE DEF tact, tnull
  <2>b. xwm_set_drag_focus(o, w) = n
    BY <2>c, <2>d
  <2> HIDE DEF b, z
  <2>6. /\ n \in DragShape /\ n.over = w /\ n.df = w /\ n.told = w /\ n.drag = s.drag /\ n.source = s.source
        /\ n.pf = s.pf /\ n.win = s.win /\ n.dropped = s.dropped /\ n.null = FALSE /\ n.foreign = s.foreign
    <3>1. z \in BOOLEAN /\ Nobody \in DragWin \cup {Nobody}
      BY <2>4
    <3>2. n \in DragShape
      BY ONLY ZenonT(60), <2>1, <2>4, <2>5, <3>1 DEF DragShape
    <3> QED
      BY ONLY <2>4, <2>5, <3>1 DEF DragShape
  <2> HIDE DEF n
  <2>7. DragGood(n) /\ Refocused(s, n, w)
    BY <2>6 DEF DragGood, Refocused
  <2> QED
    BY <2>3, <2>b, <2>7
<1> QED
  BY <1>1, <1>2

LEMMA DragEnded ==
  ASSUME NEW s, DragGood(s)
  PROVE  LET n == seat_handle_drag_destroy(s) IN
         DragGood(n) /\ n.df = Nobody /\ n.drag = FALSE /\ n.pf = s.pf /\ n.win = s.win /\ n.dropped = s.dropped
                     /\ n.source = s.source
<1> DEFINE f == seat_handle_drag_focus(s, Nobody)
           n == seat_handle_drag_destroy(s)
<1>1. DragGood(f) /\ Refocused(s, f, Nobody)
  <2>1. CASE s.drag
    BY <2>1, FocusSet
  <2>2. CASE ~s.drag
    BY <2>2 DEF seat_handle_drag_focus, DragGood, Refocused
  <2> QED
    BY <2>1, <2>2
<1>2. n = [f EXCEPT !.drag = FALSE]
  BY DEF seat_handle_drag_destroy
<1> HIDE DEF f, n
<1>3. /\ n \in DragShape /\ n.over = f.over /\ n.df = f.df /\ n.told = f.told /\ n.drag = FALSE
      /\ n.source = f.source /\ n.pf = f.pf /\ n.win = f.win /\ n.dropped = f.dropped /\ n.null = f.null
      /\ n.foreign = f.foreign
  BY <1>1, <1>2 DEF DragGood, DragShape
<1>4. DragGood(n)
  BY <1>1, <1>3 DEF DragGood, Refocused
<1> QED
  BY <1>1, <1>3, <1>4 DEF Refocused, n

LEMMA DragSourceGone ==
  ASSUME NEW s, DragGood(s)
  PROVE  LET n == seat_handle_drag_source_destroy(s) IN
         DragGood(n) /\ n.df = Nobody /\ n.drag = FALSE /\ n.pf = Nobody /\ n.win = s.win /\ n.dropped = s.dropped
<1> DEFINE f == IF s.drag THEN seat_handle_drag_destroy(s) ELSE s
           n == seat_handle_drag_source_destroy(s)
<1>1. DragGood(f) /\ f.df = Nobody /\ f.drag = FALSE /\ f.win = s.win /\ f.dropped = s.dropped
  <2>1. CASE s.drag
    BY <2>1, DragEnded
  <2>2. CASE ~s.drag
    BY <2>2 DEF DragGood, DragShape
  <2> QED
    BY <2>1, <2>2
<1>2. n = [f EXCEPT !.source = FALSE, !.df = Nobody, !.pf = Nobody, !.acc = FALSE, !.act = FALSE]
  BY DEF seat_handle_drag_source_destroy
<1> HIDE DEF f, n
<1>3. /\ n \in DragShape /\ n.over = f.over /\ n.df = Nobody /\ n.told = f.told /\ n.drag = FALSE
      /\ n.pf = Nobody /\ n.win = f.win /\ n.dropped = f.dropped /\ n.null = f.null
      /\ n.foreign = f.foreign
  BY <1>1, <1>2 DEF DragGood, DragShape
<1>4. DragGood(n)
  BY <1>1, <1>3 DEF DragGood
<1> QED
  BY <1>1, <1>3, <1>4 DEF n

LEMMA DragKept ==
  ASSUME DragInv, [DragNext]_xdrag
  PROVE  DragInv'
<1> USE DEF DragInv
<1>1. CASE xwm_seat_handle_start_drag
  <2> DEFINE s == IF xdrag.source THEN seat_handle_drag_source_destroy(xdrag) ELSE xdrag
  <2>1. DragGood(s) /\ s.df = Nobody
    <3>1. CASE xdrag.source
      BY <3>1, DragSourceGone
    <3>2. CASE ~xdrag.source
      BY <1>1, <3>2 DEF xwm_seat_handle_start_drag, DragGood
    <3> QED
      BY <3>1, <3>2
  <2>2. xdrag' = [s EXCEPT !.drag = TRUE, !.source = TRUE, !.df = Nobody, !.pf = Nobody, !.dropped = Nobody]
    BY <1>1 DEF xwm_seat_handle_start_drag
  <2> HIDE DEF s
  <2>3. /\ xdrag' \in DragShape /\ xdrag'.over = s.over /\ xdrag'.df = Nobody /\ xdrag'.told = s.told
        /\ xdrag'.drag = TRUE /\ xdrag'.pf = Nobody /\ xdrag'.win = s.win /\ xdrag'.null = s.null
        /\ xdrag'.foreign = s.foreign
    BY ZenonT(60), <2>1, <2>2 DEF DragGood, DragShape
  <2> QED
    BY <2>1, <2>3 DEF DragGood
<1>2. CASE ButtonReleased
  <2>1. CASE xdrag.over # Nobody /\ xdrag.acc /\ xdrag.act
    <3> DEFINE p == [xdrag EXCEPT !.pf = xdrag.df, !.dropped = xdrag.df]
    <3>1. /\ p \in DragShape /\ p.over = xdrag.over /\ p.df = xdrag.df /\ p.told = xdrag.told
          /\ p.drag = xdrag.drag /\ p.pf = xdrag.df /\ p.dropped = xdrag.df /\ p.win = xdrag.win
          /\ p.null = xdrag.null /\ p.foreign = xdrag.foreign
      BY DEF DragGood, DragShape
    <3>2. xdrag' = seat_handle_drag_destroy(p)
      BY <1>2, <2>1 DEF ButtonReleased
    <3> HIDE DEF p
    <3>3. DragGood(p)
      BY <3>1 DEF DragGood
    <3> QED
      BY <3>2, <3>3, DragEnded
  <2>2. CASE ~(xdrag.over # Nobody /\ xdrag.acc /\ xdrag.act)
    BY <1>2, <2>2, DragSourceGone DEF ButtonReleased
  <2> QED
    BY <2>1, <2>2
<1>3. CASE SourceGone
  BY <1>3, DragSourceGone DEF SourceGone
<1>4. ASSUME NEW w \in xdrag.win \cup {Nobody}, DragEnter(w)
      PROVE  DragInv'
  BY <1>4, FocusSet DEF DragEnter
<1>5. ASSUME NEW w \in xdrag.win, XdndFinished(w)
      PROVE  DragInv'
  <2> DEFINE s == seat_handle_drag_source_destroy(xdrag)
             z == s.foreign \/ w # xdrag.dropped
  <2>1. DragGood(s)
    BY DragSourceGone
  <2>2. xdrag' = [s EXCEPT !.foreign = z]
    BY <1>5 DEF XdndFinished
  <2> HIDE DEF s
  <2>3. z = FALSE
    BY <1>5, <2>1 DEF XdndFinished, DragGood, DragShape
  <2> HIDE DEF z
  <2>4. /\ xdrag' \in DragShape /\ xdrag'.over = s.over /\ xdrag'.df = s.df /\ xdrag'.told = s.told
        /\ xdrag'.drag = s.drag /\ xdrag'.pf = s.pf /\ xdrag'.win = s.win /\ xdrag'.null = s.null
        /\ xdrag'.foreign = FALSE /\ xdrag'.dropped = s.dropped
    BY <2>1, <2>2, <2>3 DEF DragGood, DragShape
  <2> QED
    BY <2>1, <2>4 DEF DragGood
<1>6. ASSUME NEW w \in xdrag.win, NEW b \in BOOLEAN, XdndStatus(w, b)
      PROVE  DragInv'
  <2>1. /\ xdrag' \in DragShape /\ xdrag'.over = xdrag.over /\ xdrag'.df = xdrag.df
        /\ xdrag'.told = xdrag.told /\ xdrag'.drag = xdrag.drag /\ xdrag'.pf = xdrag.pf
        /\ xdrag'.win = xdrag.win /\ xdrag'.null = xdrag.null /\ xdrag'.foreign = xdrag.foreign
        /\ xdrag'.dropped = xdrag.dropped
    BY ZenonT(60), <1>6 DEF XdndStatus, DragGood, DragShape
  <2> QED
    BY <2>1 DEF DragGood
<1>7. ASSUME NEW w \in xdrag.win, DragWindowDestroyed(w)
      PROVE  DragInv'
  <2>1. PICK first \in BOOLEAN :
          LET st == IF first /\ xdrag.over = w THEN seat_handle_drag_focus(xdrag, Nobody) ELSE xdrag
              left == IF st.df = w THEN xwm_set_drag_focus(st, Nobody) ELSE st
              new == IF left.over = w THEN seat_handle_drag_focus(left, Nobody) ELSE left
          IN xdrag' = [new EXCEPT !.win = @ \ {w}, !.pf = IF @ = w THEN Nobody ELSE @]
    BY ZenonT(60), <1>7 DEF DragWindowDestroyed
  <2> DEFINE st == IF first /\ xdrag.over = w THEN seat_handle_drag_focus(xdrag, Nobody) ELSE xdrag
             left == IF st.df = w THEN xwm_set_drag_focus(st, Nobody) ELSE st
             new == IF left.over = w THEN seat_handle_drag_focus(left, Nobody) ELSE left
  <2>2. DragGood(st) /\ st.win = xdrag.win
    <3>1. CASE first /\ xdrag.over = w /\ xdrag.drag
      BY <3>1, FocusSet DEF Refocused
    <3>2. CASE first /\ xdrag.over = w /\ ~xdrag.drag
      BY <3>2 DEF DragGood, seat_handle_drag_focus
    <3>3. CASE ~(first /\ xdrag.over = w)
      BY <3>3
    <3> QED
      BY <3>1, <3>2, <3>3
  <2>3. xdrag' = [new EXCEPT !.win = @ \ {w}, !.pf = IF @ = w THEN Nobody ELSE @]
    BY <2>1
  <2> HIDE DEF st
  <2>4. DragGood(new) /\ new.win = xdrag.win /\ (new.df # w \/ w = Nobody)
    <3>1. CASE st.df # w
      BY <2>2, <3>1 DEF DragGood
    <3>2. CASE st.df = w /\ w = Nobody
      BY ZenonT(60), <2>2, <3>2 DEF DragGood, seat_handle_drag_focus, xwm_set_drag_focus
    <3>3. CASE st.df = w /\ w # Nobody
      <4> DEFINE t == [st EXCEPT !.told = Nobody]
                 z == t.null \/ (st.df # Nobody /\ ~st.drag)
                 m == [t EXCEPT !.df = Nobody, !.act = FALSE, !.null = z]
                 a == IF Nobody # Nobody THEN FALSE ELSE m.acc
                 n == [m EXCEPT !.over = Nobody, !.acc = a]
      <4>1. /\ t \in DragShape /\ t.over = w /\ t.told = Nobody /\ t.drag = TRUE /\ t.pf = st.pf
            /\ t.win = st.win /\ t.dropped = st.dropped /\ t.null = FALSE /\ t.foreign = FALSE
        BY <2>2, <3>3 DEF DragGood, DragShape
      <4>2. left = [t EXCEPT !.df = Nobody, !.act = IF st.df # Nobody THEN FALSE ELSE @,
                             !.null = @ \/ (st.df # Nobody /\ ~st.drag)]
        BY <3>3 DEF xwm_set_drag_focus, xwm_dnd_send_event
      <4>3. z = FALSE
        BY <2>2, <3>3, <4>1 DEF DragGood, DragShape
      <4> HIDE DEF t
      <4>4. left = m
        BY <3>3, <4>1, <4>2 DEF DragShape
      <4> HIDE DEF z, left
      <4>5. /\ m \in DragShape /\ m.over = w /\ m.told = Nobody /\ m.df = Nobody /\ m.drag = TRUE
            /\ m.pf = st.pf /\ m.win = st.win /\ m.dropped = st.dropped /\ m.null = FALSE /\ m.foreign = FALSE
        BY <4>1, <4>3 DEF DragShape
      <4> HIDE DEF m
      <4>6. new = n
        BY <3>3, <4>4, <4>5 DEF seat_handle_drag_focus, xwm_set_drag_focus
      <4>7. a \in BOOLEAN
        BY <4>5 DEF DragShape
      <4> HIDE DEF a
      <4>8. /\ n \in DragShape /\ n.over = Nobody /\ n.told = Nobody /\ n.df = Nobody /\ n.drag = TRUE
            /\ n.pf = st.pf /\ n.win = st.win /\ n.dropped = st.dropped /\ n.null = FALSE /\ n.foreign = FALSE
        BY <4>5, <4>7 DEF DragShape
      <4> HIDE DEF n, new
      <4> QED
        BY <2>2, <3>3, <4>6, <4>8 DEF DragGood
    <3> QED
      BY <3>1, <3>2, <3>3
  <2> HIDE DEF left, new
  <2> DEFINE v == new.win \ {w}
             p == IF new.pf = w THEN Nobody ELSE new.pf
  <2>5. xdrag' = [new EXCEPT !.win = v, !.pf = p]
    BY <2>3, <2>4 DEF DragGood, DragShape
  <2>6. v \in SUBSET DragWin /\ p \in DragWin \cup {Nobody} /\ p \in v \cup {Nobody}
        /\ (p # Nobody => p = new.dropped) /\ new.df \in v \cup {Nobody}
    BY <2>4 DEF DragGood, DragShape
  <2> HIDE DEF v, p
  <2>7. /\ xdrag' \in DragShape /\ xdrag'.over = new.over /\ xdrag'.df = new.df /\ xdrag'.told = new.told
        /\ xdrag'.drag = new.drag /\ xdrag'.pf = p /\ xdrag'.win = v /\ xdrag'.null = new.null
        /\ xdrag'.foreign = new.foreign /\ xdrag'.dropped = new.dropped
    BY <2>4, <2>5, <2>6 DEF DragGood, DragShape
  <2> QED
    BY <2>4, <2>6, <2>7 DEF DragGood
<1>8. CASE UNCHANGED xdrag
  BY <1>8
<1> QED
  BY <1>1, <1>2, <1>3, <1>4, <1>5, <1>6, <1>7, <1>8 DEF DragNext

-----------------------------------------------------------------------------
(* The Xwayland process (XwaylandServer).                                   *)
ServerShape ==
  [lazy : BOOLEAN, display : BOOLEAN, listening : BOOLEAN, idle : BOOLEAN, pipe : BOOLEAN,
   client : {"none", "live", "gone"}, fds : SUBSET {"wm"}, proc : BOOLEAN, ready : BOOLEAN, xwm : BOOLEAN,
   xwmSeat : BOOLEAN, seat : BOOLEAN, alive : BOOLEAN, young : BOOLEAN, shell : BOOLEAN,
   starts : Nat, double : BOOLEAN]
(* Nothing is left of a process. *)
NoProcess(s) == s.client = "none" /\ ~s.pipe /\ ~s.ready
ServerGood(s) ==
  /\ s \in ServerShape
  /\ s.pipe => s.client # "none" /\ ~s.listening /\ ~s.ready
  /\ s.client = "gone" => s.pipe
  /\ s.client # "none" => s.display /\ ~s.listening /\ ~s.idle
  /\ s.ready => s.client = "live" /\ s.fds = {}
  /\ s.listening => ~s.idle
  /\ ~s.display => NoProcess(s) /\ ~s.listening /\ ~s.idle
  /\ ~s.alive => ~s.display
  /\ s.xwm => (s.xwmSeat <=> s.seat)
ServerInv == ServerGood(xsrv)

LEMMA ServerSoundness ==
  ASSUME ServerInv
  PROVE  ServerSound
BY DEF ServerInv, ServerGood, ServerShape, NoProcess, ServerSound

LEMMA ServerStarts ==
  ASSUME NEW lazy \in BOOLEAN
  PROVE  ServerGood(Server(lazy))
<1> DEFINE s == Server(lazy)
<1>1. s \in ServerShape
  BY DEF Server, ServerShape
<1>2. /\ s.display = TRUE /\ s.listening = lazy /\ s.idle = ~lazy /\ s.pipe = FALSE /\ s.client = "none"
      /\ s.ready = FALSE /\ s.xwm = FALSE /\ s.alive = TRUE
  BY DEF Server
<1> HIDE DEF s
<1>3. ServerGood(s)
  BY <1>1, <1>2 DEF ServerGood
<1> QED
  BY <1>3 DEF s

(* The fields that a process does not change. *)
SameOwner(s, n) ==
  /\ n.display = s.display /\ n.idle = s.idle /\ n.alive = s.alive /\ n.seat = s.seat
  /\ n.xwm = s.xwm /\ n.xwmSeat = s.xwmSeat

LEMMA ProcessFinished ==
  ASSUME NEW s \in ServerShape, s.display
  PROVE  LET n == server_finish_process(s) IN
         /\ n \in ServerShape /\ NoProcess(n) /\ n.listening = FALSE /\ SameOwner(s, n)
         /\ n.young = s.young /\ n.lazy = s.lazy
<1> DEFINE d == s.double \/ s.client = "gone"
           n == server_finish_process(s)
<1>1. n = [s EXCEPT !.listening = FALSE, !.client = "none", !.pipe = FALSE, !.fds = {},
                    !.ready = FALSE, !.double = d, !.shell = FALSE, !.proc = FALSE]
  BY DEF server_finish_process
<1>2. d \in BOOLEAN /\ {} \in SUBSET {"wm"}
  BY DEF ServerShape
<1> HIDE DEF d, n
<1>3. n \in ServerShape
  BY <1>1, <1>2, ZenonT(60) DEF ServerShape
<1>4. /\ n.client = "none" /\ n.pipe = FALSE /\ n.ready = FALSE /\ n.listening = FALSE /\ n.display = s.display
      /\ n.idle = s.idle /\ n.alive = s.alive /\ n.seat = s.seat /\ n.xwm = s.xwm /\ n.xwmSeat = s.xwmSeat
      /\ n.young = s.young /\ n.lazy = s.lazy
  BY <1>1 DEF ServerShape
<1> QED
  BY <1>3, <1>4 DEF NoProcess, SameOwner, n

(* A process may be started. *)
Startable(s) ==
  /\ s \in ServerShape /\ NoProcess(s) /\ s.display /\ s.alive /\ ~s.listening /\ ~s.idle
  /\ s.xwm => (s.xwmSeat <=> s.seat)

LEMMA FinishedGood ==
  ASSUME NEW s \in ServerShape, s.display, s.alive, ~s.idle, s.xwm => (s.xwmSeat <=> s.seat)
  PROVE  ServerGood(server_finish_process(s))
<1> DEFINE n == server_finish_process(s)
<1>1. n \in ServerShape /\ NoProcess(n) /\ n.listening = FALSE /\ SameOwner(s, n)
  BY ProcessFinished
<1> HIDE DEF n
<1>2. ServerGood(n)
  BY <1>1 DEF ServerGood, NoProcess, SameOwner
<1> QED
  BY <1>2 DEF n

LEMMA Started ==
  ASSUME NEW s, Startable(s), NEW f \in Failures
  PROVE  ServerGood(server_start(s, f))
<1> DEFINE k == s.starts + 1
           b == [s EXCEPT !.starts = k, !.young = TRUE]
           c == [b EXCEPT !.client = "live"]
           p == [c EXCEPT !.pipe = TRUE, !.shell = TRUE]
           n == [p EXCEPT !.proc = TRUE, !.fds = {"wm"}]
<1>0. k \in Nat /\ s \in ServerShape
  BY DEF Startable, ServerShape
<1>1. /\ f = "socket" => server_start(s, f) = server_finish_process(b)
      /\ f = "pipe" => server_start(s, f) = server_finish_process(c)
      /\ f = "fork" => server_start(s, f) = server_finish_process(p)
      /\ f = "no" => server_start(s, f) = n
  BY DEF server_start
<1> HIDE DEF k
<1>2. b \in ServerShape /\ SameOwner(s, b) /\ b.listening = s.listening /\ b.ready = s.ready
  BY <1>0 DEF ServerShape, SameOwner
<1> HIDE DEF b
<1>3. c \in ServerShape /\ SameOwner(s, c) /\ c.listening = s.listening /\ c.ready = s.ready /\ c.client = "live"
  BY <1>2 DEF ServerShape, SameOwner
<1> HIDE DEF c
<1>4. p \in ServerShape /\ SameOwner(s, p) /\ p.listening = s.listening /\ p.ready = s.ready /\ p.client = "live"
  BY <1>3 DEF ServerShape, SameOwner
<1> HIDE DEF p
<1>5. n \in ServerShape /\ SameOwner(s, n) /\ n.listening = s.listening /\ n.ready = s.ready /\ n.client = "live"
  BY <1>4 DEF ServerShape, SameOwner
<1> HIDE DEF n
<1>6. ServerGood(n)
  BY <1>5 DEF ServerGood, Startable, SameOwner, NoProcess
<1>7. ServerGood(server_finish_process(b)) /\ ServerGood(server_finish_process(c))
      /\ ServerGood(server_finish_process(p))
  BY <1>2, <1>3, <1>4, FinishedGood DEF Startable, SameOwner
<1> QED
  BY <1>1, <1>6, <1>7 DEF Failures

LEMMA ServerKept ==
  ASSUME ServerInv, [ServerNext]_xsrv
  PROVE  ServerInv'
<1> USE DEF ServerInv
<1>0. xsrv \in ServerShape
  BY DEF ServerGood
<1>1. CASE handle_idle
  <2> DEFINE s == [xsrv EXCEPT !.idle = FALSE]
  <2>1. PICK f \in Failures : xsrv' = server_start(s, f)
    BY <1>1 DEF handle_idle
  <2>2. /\ s \in ServerShape /\ s.client = xsrv.client /\ s.pipe = xsrv.pipe /\ s.ready = xsrv.ready
        /\ s.display = xsrv.display /\ s.alive = xsrv.alive /\ s.listening = xsrv.listening /\ s.idle = FALSE
        /\ s.xwm = xsrv.xwm /\ s.xwmSeat = xsrv.xwmSeat /\ s.seat = xsrv.seat
    BY <1>0 DEF ServerShape
  <2>3. xsrv.idle
    BY <1>1 DEF handle_idle
  <2> HIDE DEF s
  <2>4. Startable(s)
    BY <1>0, <2>2, <2>3 DEF ServerGood, Startable, NoProcess, ServerShape
  <2> QED
    BY <2>1, <2>4, Started
<1>2. CASE xwayland_socket_connected
  <2> DEFINE s == [xsrv EXCEPT !.listening = FALSE]
  <2>1. PICK f \in Failures : xsrv' = server_start(s, f)
    BY <1>2 DEF xwayland_socket_connected
  <2>2. /\ s \in ServerShape /\ s.client = xsrv.client /\ s.pipe = xsrv.pipe /\ s.ready = xsrv.ready
        /\ s.display = xsrv.display /\ s.alive = xsrv.alive /\ s.listening = FALSE /\ s.idle = xsrv.idle
        /\ s.xwm = xsrv.xwm /\ s.xwmSeat = xsrv.xwmSeat /\ s.seat = xsrv.seat
    BY <1>0 DEF ServerShape
  <2>3. xsrv.listening
    BY <1>2 DEF xwayland_socket_connected
  <2> HIDE DEF s
  <2>4. Startable(s)
    BY <1>0, <2>2, <2>3 DEF ServerGood, Startable, NoProcess, ServerShape
  <2> QED
    BY <2>1, <2>4, Started
<1>3. CASE xserver_handle_ready
  <2>0. xsrv.pipe /\ xsrv.display /\ xsrv.alive /\ ~xsrv.idle /\ xsrv.client # "none" /\ ~xsrv.listening
    BY <1>0, <1>3 DEF xserver_handle_ready, ServerGood, NoProcess, ServerShape
  <2>1. ASSUME NEW ok \in BOOLEAN, xsrv.client = "live",
               xsrv' = xwayland_mark_ready([xsrv EXCEPT !.pipe = FALSE, !.ready = TRUE], ok)
        PROVE  ServerInv'
    <3> DEFINE s == [xsrv EXCEPT !.pipe = FALSE, !.ready = TRUE]
               z == ok /\ s.seat
    <3>1. /\ s \in ServerShape /\ s.client = "live" /\ s.pipe = FALSE /\ s.ready = TRUE
          /\ s.display = xsrv.display /\ s.alive = xsrv.alive /\ s.listening = xsrv.listening
          /\ s.idle = xsrv.idle /\ s.seat = xsrv.seat
      BY <1>0, <2>1 DEF ServerShape
    <3>2. xsrv' = [s EXCEPT !.fds = {}, !.xwm = ok, !.xwmSeat = z] /\ z \in BOOLEAN /\ z = (ok /\ s.seat)
      BY <2>1, <3>1 DEF xwayland_mark_ready, ServerShape
    <3> HIDE DEF s, z
    <3>3. /\ xsrv' \in ServerShape /\ xsrv'.client = "live" /\ xsrv'.pipe = FALSE /\ xsrv'.ready = TRUE
          /\ xsrv'.display = xsrv.display /\ xsrv'.alive = xsrv.alive /\ xsrv'.listening = xsrv.listening
          /\ xsrv'.idle = xsrv.idle /\ xsrv'.seat = s.seat /\ xsrv'.xwm = ok /\ xsrv'.xwmSeat = z
          /\ xsrv'.fds = {}
      BY ZenonT(60), <3>1, <3>2 DEF ServerShape
    <3> QED
      BY <2>0, <3>2, <3>3 DEF ServerGood
  <2>2. ASSUME xsrv' = server_finish_display(server_finish_process(xsrv))
        PROVE  ServerInv'
    <3> DEFINE s == server_finish_process(xsrv)
    <3>1. s \in ServerShape /\ NoProcess(s) /\ s.listening = FALSE /\ SameOwner(xsrv, s)
      BY <1>0, <2>0, ProcessFinished
    <3>2. xsrv' = [s EXCEPT !.display = FALSE]
      BY <2>2 DEF server_finish_display
    <3> HIDE DEF s
    <3>3. /\ xsrv' \in ServerShape /\ xsrv'.client = s.client /\ xsrv'.pipe = s.pipe /\ xsrv'.ready = s.ready
          /\ xsrv'.display = FALSE /\ xsrv'.alive = s.alive /\ xsrv'.listening = FALSE
          /\ xsrv'.idle = s.idle /\ xsrv'.seat = s.seat /\ xsrv'.xwm = s.xwm /\ xsrv'.xwmSeat = s.xwmSeat
      BY <3>1, <3>2 DEF ServerShape
    <3> QED
      BY <2>0, <3>1, <3>3 DEF ServerGood, NoProcess, SameOwner
  <2> QED
    BY <1>3, <2>1, <2>2 DEF xserver_handle_ready
<1>4. CASE ClientDies
  <2> DEFINE s == [xsrv EXCEPT !.proc = FALSE]
  <2>1. PICK f \in Failures : xsrv' = handle_client_destroy(s, f)
    BY <1>4 DEF ClientDies
  <2>2. /\ s \in ServerShape /\ s.client = "live" /\ s.pipe = xsrv.pipe /\ s.ready = xsrv.ready
        /\ s.display = xsrv.display /\ s.alive = xsrv.alive /\ s.listening = xsrv.listening
        /\ s.idle = xsrv.idle /\ s.xwm = xsrv.xwm /\ s.xwmSeat = xsrv.xwmSeat /\ s.seat = xsrv.seat
        /\ s.fds = xsrv.fds
    BY <1>0, <1>4 DEF ClientDies, ServerShape
  <2>3. xsrv.client = "live" /\ xsrv.display /\ xsrv.alive /\ ~xsrv.listening /\ ~xsrv.idle
    BY <1>0, <1>4 DEF ClientDies, ServerGood, ServerShape
  <2> HIDE DEF s
  <2>4. CASE s.pipe
    <3>1. xsrv' = [s EXCEPT !.client = "gone", !.proc = FALSE]
      BY <2>1, <2>4 DEF handle_client_destroy
    <3>2. /\ xsrv' \in ServerShape /\ xsrv'.client = "gone" /\ xsrv'.pipe = s.pipe /\ xsrv'.ready = s.ready
          /\ xsrv'.display = s.display /\ xsrv'.alive = s.alive /\ xsrv'.listening = s.listening
          /\ xsrv'.idle = s.idle /\ xsrv'.xwm = s.xwm /\ xsrv'.xwmSeat = s.xwmSeat /\ xsrv'.seat = s.seat
      BY <2>2, <3>1 DEF ServerShape
    <3> QED
      BY <2>2, <2>3, <2>4, <3>2 DEF ServerGood
  <2>5. CASE ~s.pipe
    <3> DEFINE g == [s EXCEPT !.client = "none"]
               d == server_finish_process(g)
    <3>1. /\ g \in ServerShape /\ g.display = xsrv.display /\ g.alive = xsrv.alive /\ g.idle = xsrv.idle
          /\ g.xwm = xsrv.xwm /\ g.xwmSeat = xsrv.xwmSeat /\ g.seat = xsrv.seat
      BY <2>2 DEF ServerShape
    <3>2. xsrv' = IF s.young THEN d ELSE IF s.lazy THEN server_start_lazy(d) ELSE server_start(d, f)
      BY <2>1, <2>5 DEF handle_client_destroy
    <3> HIDE DEF g
    <3>3. d \in ServerShape /\ NoProcess(d) /\ d.listening = FALSE /\ SameOwner(g, d)
      BY <2>3, <3>1, ProcessFinished
    <3>4. ServerGood(d)
      BY <2>3, <3>1, FinishedGood DEF ServerGood
    <3> HIDE DEF d
    <3>5. Startable(d)
      BY <2>3, <3>1, <3>3 DEF ServerGood, Startable, SameOwner
    <3>6. ServerGood(server_start_lazy(d))
      <4> DEFINE n == server_start_lazy(d)
      <4>1. /\ n \in ServerShape /\ n.client = d.client /\ n.pipe = d.pipe /\ n.ready = d.ready
            /\ n.display = d.display /\ n.alive = d.alive /\ n.listening = TRUE
            /\ n.idle = d.idle /\ n.xwm = d.xwm /\ n.xwmSeat = d.xwmSeat /\ n.seat = d.seat
        BY <3>3 DEF server_start_lazy, ServerShape
      <4> HIDE DEF n
      <4>2. ServerGood(n)
        BY <3>5, <4>1 DEF ServerGood, Startable, NoProcess
      <4> QED
        BY <4>2 DEF n
    <3>7. ServerGood(server_start(d, f))
      BY <3>5, Started
    <3> QED
      BY <3>2, <3>4, <3>6, <3>7
  <2> QED
    BY <2>4, <2>5
<1>5. CASE XwmHangup
  <2>1. /\ xsrv' \in ServerShape /\ xsrv'.client = xsrv.client /\ xsrv'.pipe = xsrv.pipe
        /\ xsrv'.ready = xsrv.ready /\ xsrv'.display = xsrv.display /\ xsrv'.alive = xsrv.alive
        /\ xsrv'.listening = xsrv.listening /\ xsrv'.idle = xsrv.idle /\ xsrv'.xwm = FALSE
        /\ xsrv'.fds = xsrv.fds
    BY <1>0, <1>5 DEF XwmHangup, ServerShape
  <2> QED
    BY <2>1 DEF ServerGood, NoProcess
<1>6. CASE TimePasses
  <2>1. /\ xsrv' \in ServerShape /\ xsrv'.client = xsrv.client /\ xsrv'.pipe = xsrv.pipe
        /\ xsrv'.ready = xsrv.ready /\ xsrv'.display = xsrv.display /\ xsrv'.alive = xsrv.alive
        /\ xsrv'.listening = xsrv.listening /\ xsrv'.idle = xsrv.idle /\ xsrv'.xwm = xsrv.xwm
        /\ xsrv'.fds = xsrv.fds /\ xsrv'.xwmSeat = xsrv.xwmSeat /\ xsrv'.seat = xsrv.seat
    BY <1>0, <1>6 DEF TimePasses, ServerShape
  <2> QED
    BY <2>1 DEF ServerGood, NoProcess
<1>7. ASSUME NEW b \in BOOLEAN, wlr_xwayland_set_seat(b)
      PROVE  ServerInv'
  <2> DEFINE z == xsrv.xwm /\ b
  <2>1. z \in BOOLEAN /\ (xsrv.xwm => z = b) /\ xsrv' = [xsrv EXCEPT !.seat = b, !.xwmSeat = z]
    BY <1>0, <1>7 DEF wlr_xwayland_set_seat, ServerShape
  <2> HIDE DEF z
  <2>2. /\ xsrv' \in ServerShape /\ xsrv'.client = xsrv.client /\ xsrv'.pipe = xsrv.pipe
        /\ xsrv'.ready = xsrv.ready /\ xsrv'.display = xsrv.display /\ xsrv'.alive = xsrv.alive
        /\ xsrv'.listening = xsrv.listening /\ xsrv'.idle = xsrv.idle /\ xsrv'.xwm = xsrv.xwm
        /\ xsrv'.fds = xsrv.fds /\ xsrv'.xwmSeat = z /\ xsrv'.seat = b
    BY <1>0, <2>1 DEF ServerShape
  <2> QED
    BY <2>1, <2>2 DEF ServerGood, NoProcess
<1>8. CASE wlr_xwayland_destroy
  <2> DEFINE s == server_finish_process(xsrv)
             d == server_finish_display(s)
  <2>1. s \in ServerShape /\ NoProcess(s)
    <3>1. CASE xsrv.display
      BY <1>0, <3>1, ProcessFinished
    <3>2. CASE ~xsrv.display
      BY <1>0, <3>2 DEF server_finish_process, ServerGood
    <3> QED
      BY <3>1, <3>2
  <2>2. xsrv' = [d EXCEPT !.alive = FALSE, !.idle = FALSE, !.listening = FALSE, !.seat = FALSE,
                          !.xwm = FALSE, !.xwmSeat = FALSE]
    BY <1>8 DEF wlr_xwayland_destroy
  <2> HIDE DEF s
  <2>3. d \in ServerShape /\ NoProcess(d) /\ d.display = FALSE
    BY <2>1 DEF server_finish_display, ServerShape, NoProcess
  <2> HIDE DEF d
  <2>4. /\ xsrv' \in ServerShape /\ xsrv'.client = d.client /\ xsrv'.pipe = d.pipe
        /\ xsrv'.ready = d.ready /\ xsrv'.display = FALSE /\ xsrv'.alive = FALSE
        /\ xsrv'.listening = FALSE /\ xsrv'.idle = FALSE /\ xsrv'.xwm = FALSE
    BY <2>2, <2>3 DEF ServerShape
  <2> QED
    BY <2>3, <2>4 DEF ServerGood, NoProcess
<1>9. CASE UNCHANGED xsrv
  BY <1>9
<1> QED
  BY <1>1, <1>2, <1>3, <1>4, <1>5, <1>6, <1>7, <1>8, <1>9 DEF ServerNext

-----------------------------------------------------------------------------
(* Who owns the selection (Xwm).                                            *)
Owners == {"none", "us", "client"}
OwnRequests == {"claim", "drop", "targets"}
OwnEvents == {<<"owner", w>> : w \in Owners} \cup {<<"targets", b>> : b \in BOOLEAN}
OwnShape ==
  [seat : {"none", "wl", "x11"}, owner : Owners, x : Owners, rq : Seq(OwnRequests), xq : Seq(OwnEvents),
   focus : BOOLEAN, denied : BOOLEAN, raced : BOOLEAN, dropped : BOOLEAN, claims : Nat]

Has(q, e) == \E i \in 1..Len(q) : q[i] = e
(* After every a in the queue comes a b. *)
Followed(q, a, b) == \A i \in 1..Len(q) : q[i] = a => \E j \in (i + 1)..Len(q) : q[j] = b
(* No owner is named between two places of the queue. *)
Silent(q, i, j) == \A k \in (i + 1)..(j - 1) : q[k][1] # "owner"
(* Who was named before the place i. *)
Before(q, o, i, w) ==
  \/ Silent(q, 0, i) /\ o = w
  \/ \E h \in 1..(i - 1) : q[h] = <<"owner", w>> /\ Silent(q, h, i)
(* When all is read, the owner is w. *)
Ends(q, o, w) == Before(q, o, Len(q) + 1, w)
Announces(q, w) == \E i \in 1..Len(q) : q[i] = <<"owner", w>> /\ Silent(q, i, Len(q) + 1)
(* The last news is that a client gave the selection up. *)
Leaves(q, o) ==
  \E i \in 1..Len(q) : q[i] = <<"owner", "none">> /\ Silent(q, i, Len(q) + 1) /\ Before(q, o, i, "client")

(* No Wayland client has the selection: what we claimed we will drop. *)
NotOurs(s) == s.seat # "wl" => Followed(s.rq, "claim", "drop") /\ (s.x = "us" => Has(s.rq, "drop"))
(* An X11 client has it, or the news that it gave it up is on its way. *)
Theirs(s) ==
  s.seat = "x11" => /\ ~Has(s.rq, "claim") /\ s.x # "us"
                    /\ s.x = "none" => Leaves(s.xq, s.owner)
(* A Wayland client has it: we will claim it, we have it, or a client that  *)
(* took it since is on its way to the seat, or left already.                *)
Ours(s) ==
  s.seat = "wl" =>
    /\ Followed(s.rq, "drop", "claim")
    /\ \/ s.denied \/ Has(s.rq, "claim") \/ s.x = "us"
       \/ s.x = "client" /\ (Announces(s.xq, "client") \/ Has(s.rq, "targets") \/ Has(s.xq, <<"targets", TRUE>>))
       \/ s.x = "none" /\ Leaves(s.xq, s.owner)
OwnGood(s) ==
  /\ s \in OwnShape /\ Ends(s.xq, s.owner, s.x)
  /\ ~s.raced /\ ~s.dropped => NotOurs(s) /\ Theirs(s) /\ Ours(s)
OwnInv == OwnGood(xown)

LEMMA OwnSoundness ==
  ASSUME OwnInv
  PROVE  OwnersAgree
<1> SUFFICES ASSUME xown.rq = <<>>, xown.xq = <<>>, ~xown.raced, ~xown.dropped
    PROVE /\ xown.owner = xown.x /\ (xown.seat = "x11" => xown.x = "client")
          /\ (xown.seat = "wl" => xown.x = "us" \/ xown.denied) /\ (xown.x = "us" => xown.seat = "wl")
  BY DEF OwnersAgree
<1>1. Len(xown.rq) = 0 /\ Len(xown.xq) = 0
  OBVIOUS
<1>2. /\ \A e : ~Has(xown.rq, e) /\ ~Has(xown.xq, e)
      /\ \A w : ~Announces(xown.xq, w)
      /\ \A o : ~Leaves(xown.xq, o)
      /\ \A o, w : Ends(xown.xq, o, w) => o = w
  BY <1>1 DEF Has, Announces, Leaves, Ends, Before
<1>3. xown \in OwnShape /\ NotOurs(xown) /\ Theirs(xown) /\ Ours(xown) /\ Ends(xown.xq, xown.owner, xown.x)
  BY DEF OwnInv, OwnGood
<1> QED
  BY <1>2, <1>3 DEF NotOurs, Theirs, Ours, OwnShape, Owners

LEMMA OwnStarts == OwnInit => OwnInv
<1> SUFFICES ASSUME OwnInit PROVE OwnInv
  OBVIOUS
<1>1. /\ xown.seat = "none" /\ xown.owner = "none" /\ xown.x = "none" /\ xown.rq = <<>> /\ xown.xq = <<>>
      /\ xown.focus = TRUE /\ xown.denied = FALSE /\ xown.raced = FALSE /\ xown.dropped = FALSE /\ xown.claims = 0
      /\ Len(xown.rq) = 0 /\ Len(xown.xq) = 0
  BY DEF OwnInit, OwnState
<1>2. xown \in OwnShape
  BY DEF OwnInit, OwnState, OwnShape, Owners
<1>3. Ends(xown.xq, xown.owner, xown.x)
  BY <1>1 DEF Ends, Before, Silent
<1>4. NotOurs(xown) /\ Theirs(xown) /\ Ours(xown)
  BY <1>1 DEF NotOurs, Theirs, Ours, Followed
<1> QED
  BY <1>2, <1>3, <1>4 DEF OwnInv, OwnGood

(* What a queue says when something is added to it. *)
LEMMA QueuedSilent ==
  ASSUME NEW S, NEW q \in Seq(S), NEW e \in S, NEW i \in Nat, NEW j \in 0..(Len(q) + 1), Silent(q, i, j)
  PROVE  Silent(Append(q, e), i, j)
BY DEF Silent

LEMMA QueuedBefore ==
  ASSUME NEW S, NEW q \in Seq(S), NEW e \in S, NEW o, NEW i \in 1..(Len(q) + 1), NEW w, Before(q, o, i, w)
  PROVE  Before(Append(q, e), o, i, w)
<1>1. CASE Silent(q, 0, i) /\ o = w
  BY <1>1, QueuedSilent DEF Before
<1>2. CASE \E h \in 1..(i - 1) : q[h] = <<"owner", w>> /\ Silent(q, h, i)
  <2>1. PICK h \in 1..(i - 1) : q[h] = <<"owner", w>> /\ Silent(q, h, i)
    BY <1>2
  <2>2. Append(q, e)[h] = q[h] /\ h \in Nat /\ i \in 0..(Len(q) + 1)
    OBVIOUS
  <2>3. Silent(Append(q, e), h, i)
    BY <2>1, <2>2, QueuedSilent
  <2> QED
    BY <2>1, <2>2, <2>3 DEF Before
<1> QED
  BY <1>1, <1>2 DEF Before

LEMMA OwnerNamed ==
  ASSUME NEW S, NEW q \in Seq(S), NEW o, NEW w, <<"owner", w>> \in S
  PROVE  LET n == Append(q, <<"owner", w>>)
         IN  Ends(n, o, w) /\ Announces(n, w) /\ (Ends(q, o, "client") /\ w = "none" => Leaves(n, o))
<1> DEFINE n == Append(q, <<"owner", w>>)
<1>1. Len(n) = Len(q) + 1 /\ n[Len(n)] = <<"owner", w>> /\ Len(n) \in 1..Len(n) /\ Len(n) \in 1..(Len(n) + 1 - 1)
  OBVIOUS
<1>2. Silent(n, Len(n), Len(n) + 1)
  BY <1>1 DEF Silent
<1>3. Ends(n, o, w) /\ Announces(n, w)
  BY <1>1, <1>2 DEF Ends, Before, Announces
<1>4. ASSUME Ends(q, o, "client") PROVE Before(n, o, Len(n), "client")
  BY <1>4, <1>1, QueuedBefore DEF Ends
<1> QED
  BY <1>1, <1>2, <1>3, <1>4 DEF Leaves

LEMMA TargetsQueued ==
  ASSUME NEW S, NEW q \in Seq(S), NEW e \in S, e[1] # "owner", NEW o, NEW w
  PROVE  LET n == Append(q, e)
         IN  /\ Ends(q, o, w) => Ends(n, o, w)
             /\ Announces(q, w) => Announces(n, w)
             /\ Leaves(q, o) => Leaves(n, o)
<1> DEFINE n == Append(q, e)
<1>1. /\ Len(n) = Len(q) + 1 /\ n[Len(n)] = e /\ Len(q) \in Nat
      /\ \A k \in 1..Len(q) : n[k] = q[k] /\ k \in 1..Len(n)
  OBVIOUS
<1> HIDE DEF n
<1>2. ASSUME NEW i \in Nat, Silent(q, i, Len(q) + 1) PROVE Silent(n, i, Len(n) + 1)
  BY <1>1, <1>2 DEF Silent
<1>3. ASSUME Ends(q, o, w) PROVE Ends(n, o, w)
  <2>1. CASE Silent(q, 0, Len(q) + 1) /\ o = w
    BY <2>1, <1>2 DEF Ends, Before
  <2>2. CASE \E h \in 1..(Len(q) + 1 - 1) : q[h] = <<"owner", w>> /\ Silent(q, h, Len(q) + 1)
    <3>1. PICK h \in 1..(Len(q) + 1 - 1) : q[h] = <<"owner", w>> /\ Silent(q, h, Len(q) + 1)
      BY <2>2
    <3>2. h \in 1..Len(q) /\ h \in Nat /\ h \in 1..(Len(n) + 1 - 1)
      BY <1>1
    <3> QED
      BY <3>1, <3>2, <1>1, <1>2 DEF Ends, Before
  <2> QED
    BY <1>3, <2>1, <2>2 DEF Ends, Before
<1>4. ASSUME Announces(q, w) PROVE Announces(n, w)
  BY <1>4, <1>1, <1>2 DEF Announces
<1>5. ASSUME Leaves(q, o) PROVE Leaves(n, o)
  <2>1. PICK i \in 1..Len(q) : q[i] = <<"owner", "none">> /\ Silent(q, i, Len(q) + 1) /\ Before(q, o, i, "client")
    BY <1>5 DEF Leaves
  <2>2. i \in Nat /\ i \in 1..(Len(q) + 1)
    BY <1>1
  <2>3. Before(n, o, i, "client")
    BY <2>1, <2>2, QueuedBefore DEF n
  <2> QED
    BY <2>1, <2>2, <2>3, <1>1, <1>2 DEF Leaves
<1> QED
  BY <1>3, <1>4, <1>5 DEF n

(* What a queue says when its first event is read. *)
LEMMA ReadSilent ==
  ASSUME NEW S, NEW q \in Seq(S), q # <<>>, NEW i \in Nat, NEW j \in 0..Len(q), Silent(q, i + 1, j + 1)
  PROVE  Silent(Tail(q), i, j)
<1>1. \A k \in 1..(Len(q) - 1) : Tail(q)[k] = q[k + 1]
  OBVIOUS
<1> SUFFICES ASSUME NEW k \in (i + 1)..(j - 1) PROVE Tail(q)[k][1] # "owner"
  BY DEF Silent
<1>2. k \in 1..(Len(q) - 1) /\ k + 1 \in (i + 1 + 1)..(j + 1 - 1)
  OBVIOUS
<1> QED
  BY <1>1, <1>2 DEF Silent

LEMMA OwnerReadBefore ==
  ASSUME NEW S, NEW q \in Seq(S), q # <<>>, NEW v, q[1] = <<"owner", v>>, NEW o, NEW i \in 2..(Len(q) + 1), NEW w,
         Before(q, o, i, w)
  PROVE  Before(Tail(q), v, i - 1, w)
<1>1. ~Silent(q, 0, i)
  <2>1. 1 \in (0 + 1)..(i - 1) /\ q[1][1] = "owner"
    OBVIOUS
  <2> QED
    BY <2>1 DEF Silent
<1>2. PICK h \in 1..(i - 1) : q[h] = <<"owner", w>> /\ Silent(q, h, i)
  BY <1>1 DEF Before
<1>3. h - 1 \in Nat /\ i - 1 \in 0..Len(q) /\ h - 1 + 1 = h /\ i - 1 + 1 = i
  OBVIOUS
<1>4. Silent(Tail(q), h - 1, i - 1)
  BY <1>2, <1>3, ReadSilent
<1>5. CASE h = 1
  <2>1. v = w /\ Silent(Tail(q), 0, i - 1)
    BY <1>2, <1>4, <1>5
  <2> QED
    BY <2>1 DEF Before
<1>6. CASE h # 1
  <2>1. h - 1 \in 1..(i - 1 - 1) /\ Tail(q)[h - 1] = q[h]
    BY <1>6
  <2> QED
    BY <1>2, <1>4, <2>1 DEF Before
<1> QED
  BY <1>5, <1>6

LEMMA TargetsReadBefore ==
  ASSUME NEW S, NEW q \in Seq(S), q # <<>>, q[1][1] # "owner", NEW o, NEW i \in 2..(Len(q) + 1), NEW w,
         Before(q, o, i, w)
  PROVE  Before(Tail(q), o, i - 1, w)
<1>0. i - 1 \in 0..Len(q) /\ i - 1 + 1 = i
  OBVIOUS
<1>1. CASE Silent(q, 0, i) /\ o = w
  <2>1. Silent(q, 0 + 1, i)
    BY <1>1 DEF Silent
  <2>2. Silent(Tail(q), 0, i - 1)
    BY <2>1, <1>0, ReadSilent
  <2> QED
    BY <1>1, <2>2 DEF Before
<1>2. CASE \E h \in 1..(i - 1) : q[h] = <<"owner", w>> /\ Silent(q, h, i)
  <2>1. PICK h \in 1..(i - 1) : q[h] = <<"owner", w>> /\ Silent(q, h, i)
    BY <1>2
  <2>2. h # 1
    BY <2>1
  <2>3. h - 1 \in 1..(i - 1 - 1) /\ Tail(q)[h - 1] = q[h] /\ h - 1 \in Nat /\ h - 1 + 1 = h
    BY <2>2
  <2>4. Silent(Tail(q), h - 1, i - 1)
    BY <2>1, <2>3, <1>0, ReadSilent
  <2> QED
    BY <2>1, <2>3, <2>4 DEF Before
<1> QED
  BY <1>1, <1>2 DEF Before

LEMMA OwnerRead ==
  ASSUME NEW S, NEW q \in Seq(S), q # <<>>, NEW v, q[1] = <<"owner", v>>, NEW o, NEW w
  PROVE  /\ Ends(q, o, w) => Ends(Tail(q), v, w)
         /\ Announces(q, w) => Announces(Tail(q), w) \/ v = w
         /\ Leaves(q, o) => Leaves(Tail(q), v) \/ (v = "none" /\ o = "client")
<1>1. /\ Len(Tail(q)) = Len(q) - 1 /\ Len(q) \in Nat \ {0} /\ Len(q) + 1 \in 2..(Len(q) + 1)
      /\ Len(q) + 1 - 1 = Len(Tail(q)) + 1 /\ Len(q) \in 0..Len(q) /\ Len(Tail(q)) + 1 = Len(q)
  OBVIOUS
<1>2. ASSUME Ends(q, o, w) PROVE Ends(Tail(q), v, w)
  BY <1>1, <1>2, OwnerReadBefore DEF Ends
<1>3. ASSUME NEW i \in 1..Len(q), i # 1, Silent(q, i, Len(q) + 1)
      PROVE /\ i - 1 \in 1..Len(Tail(q)) /\ Tail(q)[i - 1] = q[i] /\ Silent(Tail(q), i - 1, Len(Tail(q)) + 1)
            /\ i \in 2..(Len(q) + 1)
  <2>1. i - 1 \in Nat /\ i - 1 + 1 = i /\ i - 1 \in 1..Len(Tail(q)) /\ Tail(q)[i - 1] = q[i] /\ i \in 2..(Len(q) + 1)
    BY <1>3, <1>1
  <2>2. Silent(Tail(q), i - 1, Len(q))
    BY <1>1, <1>3, <2>1, ReadSilent
  <2> QED
    BY <1>1, <2>1, <2>2
<1>4. ASSUME Announces(q, w) PROVE Announces(Tail(q), w) \/ v = w
  <2>1. PICK i \in 1..Len(q) : q[i] = <<"owner", w>> /\ Silent(q, i, Len(q) + 1)
    BY <1>4 DEF Announces
  <2>2. CASE i = 1
    BY <2>1, <2>2
  <2>3. CASE i # 1
    BY <2>1, <2>3, <1>3 DEF Announces
  <2> QED
    BY <2>2, <2>3
<1>5. ASSUME Leaves(q, o) PROVE Leaves(Tail(q), v) \/ (v = "none" /\ o = "client")
  <2>1. PICK i \in 1..Len(q) : q[i] = <<"owner", "none">> /\ Silent(q, i, Len(q) + 1) /\ Before(q, o, i, "client")
    BY <1>5 DEF Leaves
  <2>2. CASE i = 1
    BY <2>1, <2>2 DEF Before
  <2>3. CASE i # 1
    <3>1. Before(Tail(q), v, i - 1, "client")
      BY <2>1, <2>3, <1>3, OwnerReadBefore
    <3> QED
      BY <2>1, <2>3, <3>1, <1>3 DEF Leaves
  <2> QED
    BY <2>2, <2>3
<1> QED
  BY <1>2, <1>4, <1>5

LEMMA TargetsRead ==
  ASSUME NEW S, NEW q \in Seq(S), q # <<>>, q[1][1] # "owner", NEW o, NEW w
  PROVE  /\ Ends(q, o, w) => Ends(Tail(q), o, w)
         /\ Announces(q, w) => Announces(Tail(q), w)
         /\ Leaves(q, o) => Leaves(Tail(q), o)
<1>1. /\ Len(Tail(q)) = Len(q) - 1 /\ Len(q) \in Nat \ {0} /\ Len(q) + 1 \in 2..(Len(q) + 1)
      /\ Len(q) + 1 - 1 = Len(Tail(q)) + 1 /\ Len(q) \in 0..Len(q) /\ Len(Tail(q)) + 1 = Len(q)
  OBVIOUS
<1>2. ASSUME Ends(q, o, w) PROVE Ends(Tail(q), o, w)
  BY <1>1, <1>2, TargetsReadBefore DEF Ends
<1>3. ASSUME NEW i \in 1..Len(q), NEW a, q[i] = <<"owner", a>>, Silent(q, i, Len(q) + 1)
      PROVE /\ i - 1 \in 1..Len(Tail(q)) /\ Tail(q)[i - 1] = q[i] /\ Silent(Tail(q), i - 1, Len(Tail(q)) + 1)
            /\ i \in 2..(Len(q) + 1)
  <2>0. i # 1
    BY <1>3
  <2>1. i - 1 \in Nat /\ i - 1 + 1 = i /\ i - 1 \in 1..Len(Tail(q)) /\ Tail(q)[i - 1] = q[i] /\ i \in 2..(Len(q) + 1)
    BY <2>0, <1>1
  <2>2. Silent(Tail(q), i - 1, Len(q))
    BY <1>1, <1>3, <2>1, ReadSilent
  <2> QED
    BY <1>1, <2>1, <2>2
<1>4. ASSUME Announces(q, w) PROVE Announces(Tail(q), w)
  BY <1>4, <1>3 DEF Announces
<1>5. ASSUME Leaves(q, o) PROVE Leaves(Tail(q), o)
  <2>1. PICK i \in 1..Len(q) : q[i] = <<"owner", "none">> /\ Silent(q, i, Len(q) + 1) /\ Before(q, o, i, "client")
    BY <1>5 DEF Leaves
  <2>2. Before(Tail(q), o, i - 1, "client")
    BY <2>1, <1>3, TargetsReadBefore
  <2> QED
    BY <2>1, <2>2, <1>3 DEF Leaves
<1> QED
  BY <1>2, <1>4, <1>5

(* What it holds. *)
LEMMA QueuedHas ==
  ASSUME NEW S, NEW q \in Seq(S), NEW e \in S, NEW a, NEW b
  PROVE  LET n == Append(q, e)
         IN  /\ Has(n, a) <=> Has(q, a) \/ a = e
             /\ e # a /\ Followed(q, a, b) => Followed(n, a, b)
             /\ e = b /\ a # b => Followed(n, a, b)
             /\ ~Has(q, a) => Followed(q, a, b)
<1> DEFINE n == Append(q, e)
<1>1. /\ Len(n) = Len(q) + 1 /\ n[Len(n)] = e /\ Len(q) \in Nat
      /\ \A k \in 1..Len(q) : n[k] = q[k] /\ k \in 1..Len(n)
      /\ \A k \in 1..Len(n) : k \in 1..Len(q) \/ k = Len(n)
  OBVIOUS
<1> HIDE DEF n
<1>2. Has(n, a) <=> Has(q, a) \/ a = e
  BY <1>1 DEF Has
<1>3. ASSUME e = b, a # b PROVE Followed(n, a, b)
  BY <1>1, <1>3 DEF Followed
<1>4. ASSUME e # a, Followed(q, a, b) PROVE Followed(n, a, b)
  <2> SUFFICES ASSUME NEW i \in 1..Len(n), n[i] = a PROVE \E j \in (i + 1)..Len(n) : n[j] = b
    BY DEF Followed
  <2>1. i \in 1..Len(q) /\ q[i] = a
    BY <1>1, <1>4
  <2>2. PICK j \in (i + 1)..Len(q) : q[j] = b
    BY <2>1, <1>4 DEF Followed
  <2>3. j \in (i + 1)..Len(n) /\ j \in 1..Len(q)
    BY <1>1
  <2> QED
    BY <1>1, <2>2, <2>3
<1> QED
  BY <1>2, <1>3, <1>4 DEF n, Has, Followed

LEMMA ReadHas ==
  ASSUME NEW S, NEW q \in Seq(S), q # <<>>, NEW a, NEW b
  PROVE  /\ Has(q, a) => Has(Tail(q), a) \/ q[1] = a
         /\ Has(Tail(q), a) => Has(q, a)
         /\ Followed(q, a, b) => Followed(Tail(q), a, b)
         /\ Followed(q, a, b) /\ q[1] = a => Has(Tail(q), b)
<1> DEFINE n == Tail(q)
<1>1. /\ Len(n) = Len(q) - 1 /\ Len(q) \in Nat \ {0} /\ 1 \in 1..Len(q)
      /\ \A k \in 1..Len(n) : n[k] = q[k + 1] /\ k + 1 \in 1..Len(q)
      /\ \A k \in 2..Len(q) : n[k - 1] = q[k] /\ k - 1 \in 1..Len(n)
  OBVIOUS
<1> HIDE DEF n
<1>2. ASSUME Has(q, a) PROVE Has(n, a) \/ q[1] = a
  <2>1. PICK i \in 1..Len(q) : q[i] = a
    BY <1>2 DEF Has
  <2>2. i = 1 \/ i \in 2..Len(q)
    OBVIOUS
  <2> QED
    BY <1>1, <2>1, <2>2 DEF Has
<1>3. Has(n, a) => Has(q, a)
  BY <1>1 DEF Has
<1>4. ASSUME Followed(q, a, b) PROVE Followed(n, a, b)
  <2> SUFFICES ASSUME NEW i \in 1..Len(n), n[i] = a PROVE \E j \in (i + 1)..Len(n) : n[j] = b
    BY DEF Followed
  <2>1. PICK j \in (i + 1 + 1)..Len(q) : q[j] = b
    BY <1>1, <1>4 DEF Followed
  <2>2. j \in 2..Len(q) /\ j - 1 \in (i + 1)..Len(n)
    BY <1>1
  <2> QED
    BY <1>1, <2>1, <2>2
<1>5. ASSUME Followed(q, a, b), q[1] = a PROVE Has(n, b)
  <2>1. PICK j \in (1 + 1)..Len(q) : q[j] = b
    BY <1>1, <1>5 DEF Followed
  <2> QED
    BY <1>1, <2>1 DEF Has
<1> QED
  BY <1>2, <1>3, <1>4, <1>5 DEF n

LEMMA SelectionSet ==
  ASSUME NEW s \in OwnShape, Ends(s.xq, s.owner, s.x), NEW source \in {"none", "wl"}
  PROVE  OwnGood(handle_seat_set_selection(s, source)) /\ handle_seat_set_selection(s, source).claims = s.claims
<1> DEFINE t == [s EXCEPT !.seat = source]
<1>1. /\ t \in OwnShape /\ t.seat = source /\ t.owner = s.owner /\ t.x = s.x /\ t.rq = s.rq /\ t.xq = s.xq
      /\ t.raced = s.raced /\ t.dropped = s.dropped /\ t.claims = s.claims
  BY DEF OwnShape
<1>2. handle_seat_set_selection(s, source) = xwm_selection_set_owner(t, source # "none")
  BY DEF handle_seat_set_selection
<1> HIDE DEF t
<1> DEFINE r == t.rq
           d == t.dropped
<1>3. r \in Seq(OwnRequests) /\ d \in BOOLEAN /\ t.x \in Owners /\ "drop" \in OwnRequests /\ "claim" \in OwnRequests
  BY <1>1 DEF OwnShape, OwnRequests
<1>4. CASE source = "wl"
  <2> DEFINE rr == Append(r, "claim")
             n == [t EXCEPT !.rq = rr]
  <2>1. xwm_selection_set_owner(t, source # "none") = n /\ rr \in Seq(OwnRequests)
    BY <1>3, <1>4 DEF xwm_selection_set_owner
  <2>2. Followed(rr, "drop", "claim") /\ Has(rr, "claim")
    BY <1>3, QueuedHas
  <2> HIDE DEF rr
  <2>3. n \in OwnShape /\ n.seat = "wl" /\ n.owner = t.owner /\ n.x = t.x /\ n.rq = rr /\ n.xq = t.xq /\ n.claims = t.claims
    BY <1>1, <1>4, <2>1 DEF OwnShape
  <2> HIDE DEF n
  <2>4. NotOurs(n) /\ Theirs(n) /\ Ours(n)
    BY <2>2, <2>3 DEF NotOurs, Theirs, Ours
  <2> QED
    BY <1>1, <1>2, <2>1, <2>3, <2>4 DEF OwnGood
<1>5. CASE source = "none" /\ t.owner = "us"
  <2> DEFINE rr == Append(r, "drop")
             n == [t EXCEPT !.rq = rr]
  <2>1. xwm_selection_set_owner(t, source # "none") = n /\ rr \in Seq(OwnRequests)
    BY <1>3, <1>5 DEF xwm_selection_set_owner
  <2>2. Followed(rr, "claim", "drop") /\ Has(rr, "drop")
    BY <1>3, QueuedHas
  <2> HIDE DEF rr
  <2>3. n \in OwnShape /\ n.seat = "none" /\ n.owner = t.owner /\ n.x = t.x /\ n.rq = rr /\ n.xq = t.xq /\ n.claims = t.claims
    BY <1>1, <1>5, <2>1 DEF OwnShape
  <2> HIDE DEF n
  <2>4. NotOurs(n) /\ Theirs(n) /\ Ours(n)
    BY <2>2, <2>3 DEF NotOurs, Theirs, Ours
  <2> QED
    BY <1>1, <1>2, <2>1, <2>3, <2>4 DEF OwnGood
<1>6. CASE source = "none" /\ t.owner # "us"
  <2> DEFINE c == "claim" \in {t.rq[i] : i \in DOMAIN t.rq}
             dd == d \/ t.x = "us" \/ c
             n == [t EXCEPT !.dropped = dd]
  <2>1. xwm_selection_set_owner(t, source # "none") = n /\ dd \in BOOLEAN
    BY <1>3, <1>6 DEF xwm_selection_set_owner
  <2>2. ~dd => t.x # "us" /\ ~Has(r, "claim")
    BY <1>3 DEF Has
  <2> HIDE DEF dd
  <2>3. /\ n \in OwnShape /\ n.seat = "none" /\ n.owner = t.owner /\ n.x = t.x /\ n.rq = r /\ n.xq = t.xq
        /\ n.claims = t.claims /\ n.dropped = dd
    BY <1>1, <1>6, <2>1 DEF OwnShape
  <2> HIDE DEF n
  <2>4. ASSUME ~n.dropped PROVE NotOurs(n) /\ Theirs(n) /\ Ours(n)
    <3>1. ~Has(n.rq, "claim") /\ n.x # "us"
      BY <2>2, <2>3, <2>4
    <3>2. Followed(n.rq, "claim", "drop")
      BY <3>1 DEF Has, Followed
    <3> QED
      BY <2>3, <3>1, <3>2 DEF NotOurs, Theirs, Ours
  <2> QED
    BY <1>1, <1>2, <2>1, <2>3, <2>4 DEF OwnGood
<1> QED
  BY <1>4, <1>5, <1>6

LEMMA ClaimsCounted ==
  ASSUME NEW s, OwnGood(s)
  PROVE  OwnGood([s EXCEPT !.claims = @ + 1])
<1> DEFINE c == s.claims + 1
           n == [s EXCEPT !.claims = c]
<1>1. s \in OwnShape /\ c \in Nat
  BY DEF OwnGood, OwnShape
<1> HIDE DEF c
<1>2. /\ n \in OwnShape /\ n.seat = s.seat /\ n.owner = s.owner /\ n.x = s.x /\ n.rq = s.rq /\ n.xq = s.xq
      /\ n.denied = s.denied /\ n.raced = s.raced /\ n.dropped = s.dropped
  BY <1>1 DEF OwnShape
<1> HIDE DEF n
<1>3. OwnGood(n)
  BY <1>2 DEF OwnGood, NotOurs, Theirs, Ours
<1> QED
  BY <1>3 DEF n, c

LEMMA SelectionEventKept ==
  ASSUME OwnInv, SelectionEvent
  PROVE  OwnInv'
<1> DEFINE q == xown.xq
           e == Head(q)
           tl == Tail(q)
           s == [xown EXCEPT !.xq = tl]
<1>1. xown \in OwnShape /\ q \in Seq(OwnEvents) /\ q # <<>> /\ xown.rq \in Seq(OwnRequests)
  BY DEF OwnInv, OwnGood, OwnShape, SelectionEvent
<1>2. e = q[1] /\ e \in OwnEvents /\ tl \in Seq(OwnEvents)
  BY <1>1
<1>3. xown' = IF e[1] = "owner" THEN xwm_handle_xfixes_selection_notify(s, e[2]) ELSE xwm_handle_targets(s, e[2])
  BY DEF SelectionEvent
<1> HIDE DEF tl, e
<1>4. /\ s \in OwnShape /\ s.seat = xown.seat /\ s.owner = xown.owner /\ s.x = xown.x /\ s.rq = xown.rq /\ s.xq = tl
      /\ s.focus = xown.focus /\ s.denied = xown.denied /\ s.raced = xown.raced /\ s.dropped = xown.dropped
  BY <1>1, <1>2 DEF OwnShape
<1> HIDE DEF s
<1>0. /\ Ends(q, xown.owner, xown.x)
      /\ ~xown.raced /\ ~xown.dropped => NotOurs(xown) /\ Theirs(xown) /\ Ours(xown)
  BY DEF OwnInv, OwnGood
<1>h. \A a : (Has(q, a) => Has(tl, a) \/ e = a)
  BY <1>1, <1>2, ReadHas DEF tl
<1>5. CASE e[1] = "owner"
  <2> DEFINE v == e[2]
             o == [s EXCEPT !.owner = v]
  <2>1. e = <<"owner", v>> /\ v \in Owners
    BY <1>2, <1>5 DEF OwnEvents
  <2>2. /\ Ends(tl, v, xown.x)
        /\ \A w : Announces(q, w) => Announces(tl, w) \/ v = w
        /\ Leaves(q, xown.owner) => Leaves(tl, v) \/ (v = "none" /\ xown.owner = "client")
    BY ZenonT(60), <1>0, <1>1, <1>2, <2>1, OwnerRead DEF tl
  <2>3. xown' = xwm_handle_xfixes_selection_notify(s, v)
    BY <1>3, <1>5
  <2>t. e # <<"targets", TRUE>>
    <3>1. <<"targets", TRUE>>[1] = "targets" /\ "targets" # "owner"
      OBVIOUS
    <3> QED
      BY <3>1, <1>5
  <2> HIDE DEF v
  <2>4. /\ o \in OwnShape /\ o.seat = s.seat /\ o.owner = v /\ o.x = s.x /\ o.rq = s.rq /\ o.xq = tl
        /\ o.denied = s.denied /\ o.raced = s.raced /\ o.dropped = s.dropped
    BY <1>4, <2>1 DEF OwnShape
  <2>5. /\ v = "none" /\ s.owner # "us" => xown' = handle_seat_set_selection(o, "none")
        /\ v = "none" /\ s.owner = "us" => xown' = o
        /\ v = "us" => xown' = o
        /\ v = "client" => xown' = [o EXCEPT !.rq = Append(@, "targets")]
    BY <2>3 DEF xwm_handle_xfixes_selection_notify
  <2> HIDE DEF o
  <2>6. CASE v = "none" /\ s.owner # "us"
    <3>1. OwnGood(handle_seat_set_selection(o, "none"))
      BY <1>4, <2>2, <2>4, SelectionSet
    <3> QED
      BY <2>5, <2>6, <3>1 DEF OwnInv
  <2>7. CASE (v = "none" /\ s.owner = "us") \/ v = "us"
    <3>1. ASSUME NotOurs(xown), Theirs(xown), Ours(xown) PROVE NotOurs(o) /\ Theirs(o) /\ Ours(o)
      <4>1. Leaves(q, xown.owner) => Leaves(o.xq, o.owner)
        BY <1>4, <2>2, <2>4, <2>7
      <4>2. Announces(q, "client") => Announces(o.xq, "client")
        BY <2>2, <2>4, <2>7
      <4>3. Has(q, <<"targets", TRUE>>) => Has(o.xq, <<"targets", TRUE>>)
        BY <1>h, <2>t, <2>4
      <4> QED
        BY <1>4, <2>4, <3>1, <4>1, <4>2, <4>3 DEF NotOurs, Theirs, Ours
    <3>2. OwnGood(o)
      BY <1>0, <1>4, <2>2, <2>4, <3>1 DEF OwnGood
    <3> QED
      BY <2>5, <2>7, <3>2 DEF OwnInv
  <2>8. CASE v = "client"
    <3> DEFINE r == o.rq
               rr == Append(r, "targets")
               n == [o EXCEPT !.rq = rr]
    <3>1. xown' = n /\ rr \in Seq(OwnRequests) /\ "targets" \in OwnRequests /\ r \in Seq(OwnRequests)
      BY <1>1, <1>4, <2>4, <2>5, <2>8 DEF OwnRequests
    <3>2. /\ Has(rr, "targets") /\ \A a : Has(r, a) => Has(rr, a)
          /\ Has(rr, "claim") => Has(r, "claim")
          /\ Followed(r, "claim", "drop") => Followed(rr, "claim", "drop")
          /\ Followed(r, "drop", "claim") => Followed(rr, "drop", "claim")
      BY <3>1, QueuedHas
    <3> HIDE DEF rr
    <3>3. /\ n \in OwnShape /\ n.seat = o.seat /\ n.owner = v /\ n.x = o.x /\ n.rq = rr /\ n.xq = tl
          /\ n.denied = o.denied /\ n.raced = o.raced /\ n.dropped = o.dropped
      BY <2>4, <3>1 DEF OwnShape
    <3> HIDE DEF n
    <3>4. ASSUME NotOurs(xown), Theirs(xown), Ours(xown) PROVE NotOurs(n) /\ Theirs(n) /\ Ours(n)
      <4>1. Leaves(q, xown.owner) => Leaves(n.xq, n.owner)
        BY <1>4, <2>2, <3>3, <2>8
      <4>2. Has(n.rq, "targets")
        BY <3>2, <3>3
      <4>3. xown.rq = r
        BY <1>4, <2>4
      <4> QED
        BY <1>4, <2>4, <3>2, <3>3, <3>4, <4>1, <4>2, <4>3 DEF NotOurs, Theirs, Ours
    <3>5. OwnGood(n)
      BY <1>0, <1>4, <2>2, <2>4, <3>3, <3>4 DEF OwnGood
    <3> QED
      BY <3>1, <3>5 DEF OwnInv
  <2> QED
    BY <2>1, <2>6, <2>7, <2>8 DEF Owners
<1>6. CASE e[1] # "owner"
  <2> DEFINE b == e[2]
  <2>1. e = <<"targets", b>> /\ b \in BOOLEAN
    <3>1. \E c \in BOOLEAN : e = <<"targets", c>>
      <4>1. \A w \in Owners : <<"owner", w>>[1] = "owner"
        OBVIOUS
      <4> QED
        BY <4>1, <1>2, <1>6 DEF OwnEvents
    <3> QED
      BY <3>1
  <2>2. /\ Ends(tl, xown.owner, xown.x)
        /\ \A w : Announces(q, w) => Announces(tl, w)
        /\ Leaves(q, xown.owner) => Leaves(tl, xown.owner)
    BY <1>0, <1>1, <1>2, <1>6, TargetsRead DEF tl
  <2>3. xown' = xwm_handle_targets(s, b)
    BY <1>3, <1>6
  <2> HIDE DEF b
  <2>4. CASE ~b
    <3>1. xown' = s
      BY <2>3, <2>4 DEF xwm_handle_targets
    <3>2. Has(q, <<"targets", TRUE>>) => Has(tl, <<"targets", TRUE>>)
      <4>1. e # <<"targets", TRUE>>
        BY <2>1, <2>4
      <4> QED
        BY <4>1, <1>h
    <3>3. ASSUME NotOurs(xown), Theirs(xown), Ours(xown) PROVE NotOurs(s) /\ Theirs(s) /\ Ours(s)
      BY <1>4, <2>2, <3>2, <3>3 DEF NotOurs, Theirs, Ours
    <3>4. OwnGood(s)
      BY <1>0, <1>4, <2>2, <3>3 DEF OwnGood
    <3> QED
      BY <3>1, <3>4 DEF OwnInv
  <2>5. CASE b /\ ~s.focus
    <3> DEFINE n == [s EXCEPT !.denied = TRUE]
    <3>1. xown' = n
      BY <2>3, <2>5 DEF xwm_handle_targets
    <3>2. /\ n \in OwnShape /\ n.seat = s.seat /\ n.owner = s.owner /\ n.x = s.x /\ n.rq = s.rq /\ n.xq = s.xq
          /\ n.denied = TRUE /\ n.raced = s.raced /\ n.dropped = s.dropped
      BY <1>4 DEF OwnShape
    <3> HIDE DEF n
    <3>3. ASSUME NotOurs(xown), Theirs(xown), Ours(xown) PROVE NotOurs(n) /\ Theirs(n) /\ Ours(n)
      BY <1>4, <2>2, <3>2, <3>3 DEF NotOurs, Theirs, Ours
    <3>4. OwnGood(n)
      BY <1>0, <1>4, <2>2, <3>2, <3>3 DEF OwnGood
    <3> QED
      BY <3>1, <3>4 DEF OwnInv
  <2>6. CASE b /\ s.focus
    <3> DEFINE t == [s EXCEPT !.seat = "x11"]
    <3>1. xown' = [t EXCEPT !.raced = @ \/ "claim" \in {s.rq[i] : i \in DOMAIN s.rq} \/ s.x # "client"]
      BY <2>3, <2>6 DEF xwm_handle_targets, xwm_selection_get_targets, handle_seat_set_selection
    <3>2. /\ t \in OwnShape /\ t.seat = "x11" /\ t.owner = s.owner /\ t.x = s.x /\ t.rq = s.rq /\ t.xq = s.xq
          /\ t.raced = s.raced /\ t.dropped = s.dropped
      BY <1>4 DEF OwnShape
    <3> HIDE DEF t
    <3> DEFINE d == t.raced
               rd == d \/ "claim" \in {s.rq[i] : i \in DOMAIN s.rq} \/ s.x # "client"
               n == [t EXCEPT !.raced = rd]
    <3>3. xown' = n /\ rd \in BOOLEAN
      BY <1>4, <3>1, <3>2 DEF OwnShape
    <3>4. ~rd => ~Has(s.rq, "claim") /\ s.x = "client"
      BY <1>1, <1>4 DEF Has
    <3> HIDE DEF rd
    <3>5. /\ n \in OwnShape /\ n.seat = t.seat /\ n.owner = t.owner /\ n.x = t.x /\ n.rq = t.rq /\ n.xq = t.xq
          /\ n.raced = rd
      BY <3>2, <3>3 DEF OwnShape
    <3> HIDE DEF n
    <3>6. ASSUME ~n.raced PROVE NotOurs(n) /\ Theirs(n) /\ Ours(n)
      <4>1. ~Has(n.rq, "claim") /\ n.x = "client" /\ n.seat = "x11"
        BY <3>2, <3>4, <3>5, <3>6
      <4>2. Followed(n.rq, "claim", "drop")
        BY <4>1 DEF Has, Followed
      <4> QED
        BY <4>1, <4>2 DEF NotOurs, Theirs, Ours
    <3>7. OwnGood(n)
      BY <1>4, <2>2, <3>2, <3>5, <3>6 DEF OwnGood
    <3> QED
      BY <3>3, <3>7 DEF OwnInv
  <2> QED
    BY <2>1, <2>4, <2>5, <2>6
<1> QED
  BY <1>5, <1>6

LEMMA SelectionRequestKept ==
  ASSUME OwnInv, SelectionRequest
  PROVE  OwnInv'
<1> DEFINE rq == xown.rq
           r == Head(rq)
           tl == Tail(rq)
           q == xown.xq
           s == [xown EXCEPT !.rq = tl]
<1>1. xown \in OwnShape /\ q \in Seq(OwnEvents) /\ rq # <<>> /\ rq \in Seq(OwnRequests)
  BY DEF OwnInv, OwnGood, OwnShape, SelectionRequest
<1>2. r = rq[1] /\ r \in OwnRequests /\ tl \in Seq(OwnRequests)
  BY <1>1
<1>0. /\ Ends(q, xown.owner, xown.x)
      /\ ~xown.raced /\ ~xown.dropped => NotOurs(xown) /\ Theirs(xown) /\ Ours(xown)
  BY DEF OwnInv, OwnGood
<1>h. /\ \A a : (Has(rq, a) => Has(tl, a) \/ r = a) /\ (Has(tl, a) => Has(rq, a))
      /\ \A a, b : Followed(rq, a, b) => Followed(tl, a, b) /\ (r = a => Has(tl, b))
  BY <1>1, <1>2, ReadHas
<1>i. r = "claim" => Has(rq, "claim")
  BY <1>1, <1>2 DEF Has
<1>3. xown' = CASE r = "claim" -> [s EXCEPT !.x = "us", !.xq = Append(@, <<"owner", "us">>)]
                [] r = "drop" /\ s.x = "us" -> [s EXCEPT !.x = "none", !.xq = Append(@, <<"owner", "none">>)]
                [] r = "targets" -> [s EXCEPT !.xq = Append(@, <<"targets", s.x = "client">>)]
                [] OTHER -> s
  BY DEF SelectionRequest
<1> HIDE DEF tl, r
<1>4. /\ s \in OwnShape /\ s.seat = xown.seat /\ s.owner = xown.owner /\ s.x = xown.x /\ s.rq = tl /\ s.xq = q
      /\ s.denied = xown.denied /\ s.raced = xown.raced /\ s.dropped = xown.dropped
  BY <1>1, <1>2 DEF OwnShape
<1> HIDE DEF s
<1> DEFINE sq == s.xq
           Read(w) == (r = "claim" /\ w = "us") \/ (r = "drop" /\ w = "none" /\ xown.x = "us")
           Named(w) == [s EXCEPT !.x = w, !.xq = Append(sq, <<"owner", w>>)]
<1>d. r # "claim" /\ (r = "drop" => s.x # "us") /\ r # "targets" => xown' = s
  BY <1>3
<1>e. r = "claim" => xown' = Named("us")
  BY <1>3
<1>f. r = "drop" /\ s.x = "us" => xown' = Named("none")
  BY <1>3
<1>g. r = "targets" => xown' = [s EXCEPT !.xq = Append(sq, <<"targets", s.x = "client">>)]
  BY <1>3
<1>s. sq = q
  BY <1>4
<1> HIDE DEF sq, Named, Read
<1>5. ASSUME NEW w \in {"us", "none"}, xown' = Named(w),
             Read(w)
      PROVE  OwnInv'
  <2> DEFINE m == Append(sq, <<"owner", w>>)
             n == [s EXCEPT !.x = w, !.xq = m]
  <2>1. m \in Seq(OwnEvents) /\ w \in Owners /\ <<"owner", w>> \in OwnEvents
    BY <1>1, <1>s DEF OwnEvents, Owners
  <2>2. Ends(m, xown.owner, w)
    BY <1>1, <1>s, <2>1, OwnerNamed
  <2> HIDE DEF m
  <2>3. /\ n \in OwnShape /\ n.seat = s.seat /\ n.owner = s.owner /\ n.x = w /\ n.rq = tl /\ n.xq = m
        /\ n.denied = s.denied /\ n.raced = s.raced /\ n.dropped = s.dropped
    BY <1>4, <2>1 DEF OwnShape
  <2>4. xown' = n
    BY <1>5 DEF m, Named
  <2> HIDE DEF n
  <2>5. ASSUME NotOurs(xown), Theirs(xown), Ours(xown) PROVE NotOurs(n) /\ Theirs(n) /\ Ours(n)
    <3>1. CASE r = "claim" /\ w = "us"
      BY <1>4, <1>h, <1>i, <2>3, <2>5, <3>1 DEF NotOurs, Theirs, Ours
    <3>2. CASE r = "drop" /\ w = "none" /\ xown.x = "us"
      BY <1>4, <1>h, <2>3, <2>5, <3>2 DEF NotOurs, Theirs, Ours
    <3> QED
      BY <1>5, <3>1, <3>2 DEF Read
  <2> QED
    BY <1>0, <1>4, <2>2, <2>3, <2>4, <2>5 DEF OwnGood, OwnInv
<1>6. CASE r = "targets"
  <2> DEFINE e == <<"targets", s.x = "client">>
             m == Append(sq, e)
             n == [s EXCEPT !.xq = m]
  <2>1. e \in OwnEvents /\ e[1] # "owner" /\ (s.x = "client" => e = <<"targets", TRUE>>)
    <3>1. (s.x = "client") \in BOOLEAN
      OBVIOUS
    <3> QED
      BY <3>1 DEF OwnEvents
  <2>4. xown' = n
    BY <1>6, <1>g
  <2> HIDE DEF e
  <2>2. m \in Seq(OwnEvents)
    BY <1>1, <1>s, <2>1
  <2>3. /\ Ends(m, xown.owner, xown.x) /\ (Announces(q, "client") => Announces(m, "client"))
        /\ Leaves(q, xown.owner) => Leaves(m, xown.owner)
    BY <1>0, <1>1, <1>s, <2>1, TargetsQueued
  <2>5. \A a : (Has(q, a) => Has(m, a)) /\ Has(m, e)
    BY <1>1, <1>s, <2>1, QueuedHas
  <2> HIDE DEF m
  <2>6. /\ n \in OwnShape /\ n.seat = s.seat /\ n.owner = s.owner /\ n.x = s.x /\ n.rq = tl /\ n.xq = m
        /\ n.denied = s.denied /\ n.raced = s.raced /\ n.dropped = s.dropped
    BY <1>4, <2>2 DEF OwnShape
  <2> HIDE DEF n
  <2>7. ASSUME NotOurs(xown), Theirs(xown), Ours(xown) PROVE NotOurs(n) /\ Theirs(n) /\ Ours(n)
    <3>1. n.x = "client" => Has(n.xq, <<"targets", TRUE>>)
      BY <2>1, <2>5, <2>6
    <3> QED
      BY <1>4, <1>6, <1>h, <2>3, <2>5, <2>6, <2>7, <3>1 DEF NotOurs, Theirs, Ours
  <2> QED
    BY <1>0, <1>4, <2>3, <2>4, <2>6, <2>7 DEF OwnGood, OwnInv
<1>7. CASE r = "drop" /\ s.x # "us"
  <2>1. xown' = s
    BY <1>7, <1>d
  <2>2. ASSUME NotOurs(xown), Theirs(xown), Ours(xown) PROVE NotOurs(s) /\ Theirs(s) /\ Ours(s)
    BY <1>4, <1>7, <1>h, <2>2 DEF NotOurs, Theirs, Ours
  <2> QED
    BY <1>0, <1>4, <2>1, <2>2 DEF OwnGood, OwnInv
<1>8. CASE r = "claim"
  <2>1. xown' = Named("us") /\ Read("us") /\ "us" \in {"us", "none"}
    BY <1>8, <1>e DEF Read
  <2> QED
    BY ONLY <2>1, <1>5
<1>9. CASE r = "drop" /\ s.x = "us"
  <2>1. xown' = Named("none") /\ Read("none") /\ "none" \in {"us", "none"}
    BY <1>9, <1>f, <1>4 DEF Read
  <2> QED
    BY ONLY <2>1, <1>5
<1> QED
  BY <1>2, <1>6, <1>7, <1>8, <1>9 DEF OwnRequests

LEMMA XClaimKept ==
  ASSUME OwnInv, NEW w \in {"none", "client"}, XClaim(w)
  PROVE  OwnInv'
<1> DEFINE q == xown.xq
           c == xown.claims + 1
           m == Append(q, <<"owner", w>>)
           n == [xown EXCEPT !.claims = c, !.x = w, !.xq = m, !.denied = FALSE]
<1>1. xown \in OwnShape /\ q \in Seq(OwnEvents) /\ c \in Nat /\ w \in Owners /\ <<"owner", w>> \in OwnEvents
  BY DEF OwnInv, OwnGood, OwnShape, Owners, OwnEvents
<1>2. xown' = n /\ (w = "none" => xown.x = "client")
  BY DEF XClaim
<1>0. /\ Ends(q, xown.owner, xown.x)
      /\ ~xown.raced /\ ~xown.dropped => NotOurs(xown) /\ Theirs(xown) /\ Ours(xown)
  BY DEF OwnInv, OwnGood
<1>3. m \in Seq(OwnEvents)
  BY <1>1
<1>4. Ends(m, xown.owner, w) /\ Announces(m, w) /\ (w = "none" => Leaves(m, xown.owner))
  BY <1>0, <1>1, <1>2, OwnerNamed
<1> HIDE DEF m, c
<1>5. /\ n \in OwnShape /\ n.seat = xown.seat /\ n.owner = xown.owner /\ n.x = w /\ n.rq = xown.rq /\ n.xq = m
      /\ n.raced = xown.raced /\ n.dropped = xown.dropped
  BY <1>1, <1>3 DEF OwnShape
<1> HIDE DEF n
<1>6. ASSUME NotOurs(xown), Theirs(xown), Ours(xown) PROVE NotOurs(n) /\ Theirs(n) /\ Ours(n)
  BY <1>2, <1>4, <1>5, <1>6 DEF NotOurs, Theirs, Ours
<1> QED
  BY <1>0, <1>2, <1>4, <1>5, <1>6 DEF OwnGood, OwnInv

LEMMA OwnKept ==
  ASSUME OwnInv, [OwnNext]_xown
  PROVE  OwnInv'
<1>0. xown \in OwnShape /\ Ends(xown.xq, xown.owner, xown.x)
  BY DEF OwnInv, OwnGood
<1>1. ASSUME FocusChange PROVE OwnInv'
  <2> DEFINE f == ~xown.focus
             t == [xown EXCEPT !.focus = f]
  <2>1. xown' = [t EXCEPT !.claims = @ + 1] /\ f \in BOOLEAN
    BY <1>0, <1>1 DEF FocusChange, OwnShape
  <2> HIDE DEF f
  <2>2. /\ t \in OwnShape /\ t.seat = xown.seat /\ t.owner = xown.owner /\ t.x = xown.x /\ t.rq = xown.rq /\ t.xq = xown.xq
        /\ t.denied = xown.denied /\ t.raced = xown.raced /\ t.dropped = xown.dropped
    BY <1>0, <2>1 DEF OwnShape
  <2> HIDE DEF t
  <2>3. OwnGood(t)
    BY <2>2 DEF OwnInv, OwnGood, NotOurs, Theirs, Ours
  <2> QED
    BY <2>1, <2>3, ClaimsCounted DEF OwnInv
<1>2. ASSUME NEW z \in {"none", "wl"}, WlClaim(z) PROVE OwnInv'
  BY <1>0, <1>2, SelectionSet, ClaimsCounted DEF WlClaim, OwnInv
<1>3. ASSUME xwm_set_seat PROVE OwnInv'
  <2>1. CASE xown.seat = "x11"
    <3>1. handle_seat_set_selection(xown, xown.seat) = xown
      BY <1>0, <2>1 DEF handle_seat_set_selection, OwnShape
    <3> QED
      BY <1>3, <3>1, ClaimsCounted DEF xwm_set_seat, OwnInv
  <2>2. CASE xown.seat # "x11"
    <3>1. xown.seat \in {"none", "wl"}
      BY <1>0, <2>2 DEF OwnShape
    <3> QED
      BY <1>0, <1>3, <3>1, SelectionSet, ClaimsCounted DEF xwm_set_seat, OwnInv
  <2> QED
    BY <2>1, <2>2
<1>4. ASSUME xown' = xown PROVE OwnInv'
  BY <1>4 DEF OwnInv
<1> QED
  BY <1>1, <1>2, <1>3, <1>4, SelectionEventKept, SelectionRequestKept, XClaimKept DEF OwnNext

-----------------------------------------------------------------------------
(* The parts of Xwayland side by side: each is sound from the start, and a  *)
(* step of the shells moves one of them.                                    *)
ExchangeInv == OutInv /\ InInv /\ OwnInv /\ DragInv /\ ServerInv

LEMMA ExchangeStart == ShellsInit => ExchangeInv
<1> SUFFICES ASSUME ShellsInit PROVE ExchangeInv
  OBVIOUS
<1>0. XwaylandInit(part = "xwayland") /\ 0 \in Nat /\ 0..MaxData \subseteq Nat
  BY XSelectionAssumption DEF ShellsInit
<1>1. OutInv
  BY <1>0, OutStarts DEF XwaylandInit, OutInit, OutInv
<1>2. InInv
  BY <1>0, InStarts DEF XwaylandInit, InInit, InInv
<1>3. OwnInv /\ DragInv
  BY <1>0, OwnStarts, DragStarts DEF XwaylandInit
<1>4. ServerInv
  BY <1>0, ServerStarts DEF XwaylandInit, ServerInit, ServerInv
<1> QED
  BY <1>1, <1>2, <1>3, <1>4 DEF ExchangeInv

LEMMA ExchangeMove ==
  ASSUME [ShellsNext]_ShellVars
  PROVE  [OutNext]_xout /\ [InNext]_xin /\ [OwnNext]_xown /\ [DragNext]_xdrag /\ [ServerNext]_xsrv
<1>1. CASE UNCHANGED XwaylandVars
  BY <1>1 DEF XwaylandVars
<1>2. CASE XwaylandNext
  BY <1>2 DEF XwaylandNext
<1>3. UNCHANGED XwaylandVars \/ XwaylandNext
  BY DEF ShellsNext, ShellVars
<1> QED
  BY <1>1, <1>2, <1>3

LEMMA ExchangeKept == ExchangeInv /\ [ShellsNext]_ShellVars => ExchangeInv'
BY ExchangeMove, OutKept, InKept, OwnKept, DragKept, ServerKept DEF ExchangeInv

(* Data pasted either way between X11 and Wayland clients arrive whole      *)
(* whatever their length, each chunk after the other side took the last;    *)
(* when both sides have read all, the X server and the seat name the same   *)
(* owner of the selection; a drag tells X11 windows when it comes and goes; *)
(* and what the process of Xwayland was given goes with it                  *)
(* (xwayland/selection/, xwayland/server.c).                                *)
THEOREM ExchangeIsSound == ShellsSpec => []ExchangeSound
<1>1. ShellsInit => ExchangeInv
  BY ExchangeStart
<1>2. ExchangeInv /\ [ShellsNext]_ShellVars => ExchangeInv'
  BY ExchangeKept
<1>3. ExchangeInv => ExchangeSound
  BY OutSoundness, InSoundness, OwnSoundness, DragSoundness, ServerSoundness DEF ExchangeInv, ExchangeSound
<1> QED
  BY <1>1, <1>2, <1>3, PTL DEF ShellsSpec
=============================================================================
