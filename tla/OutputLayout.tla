---------------------------- MODULE OutputLayout ----------------------------
(***************************************************************************)
(* The output layout (types/wlr_output_layout.c) with the xdg-output        *)
(* protocol that shows it to clients (types/wlr_xdg_output_v1.c), and the   *)
(* swapchain manager that tries configurations of several outputs           *)
(* (types/wlr_output_swapchain_manager.c).  Boxes are intervals of a line.  *)
(***************************************************************************)
EXTENDS Integers, FiniteSets, FiniteSetsExt, SequencesExt

CONSTANTS LayOutput,      \* outputs
          LaySeen,        \* bound: outputs clients ask about and whose swapchains are tested
          LayPos,         \* positions outputs are put at
          LayWidth,       \* effective widths of outputs, zero included
          MaxLayEnv       \* bound: prepared configurations

(* slice: a bound, what moves, the layout or the swapchains.                *)
(* outputs: the layout's list; x, auto: positions, placed by the layout;    *)
(* w: widths; live, glob: outputs that exist, have a wl_output global;      *)
(* xo: the xdg-output objects with what they know; res: outputs for which   *)
(* the client has an object, told: what it was told of them, owed: told     *)
(* something and the wl_output.done still has to come.                      *)
(* chains: swapchains that exist, as functions of their number; out, new,   *)
(* pend: the output's, the manager's new one, the tested one (0: none);     *)
(* ok: test_success; want: the configuration tested last (0: disabled);     *)
(* phase: what the compositor does next; n: configurations prepared.        *)
VARIABLE lay

NoChain == [i \in {} |-> <<0, "explicit">>]

LayState(slice) ==
  [slice |-> slice, outputs |-> <<>>, x |-> [o \in LayOutput |-> 0], auto |-> {},
   w |-> [o \in LayOutput |-> 1], live |-> LayOutput, glob |-> {},
   xo |-> [o \in {} |-> <<0, 0>>], res |-> {}, told |-> [o \in LayOutput |-> <<0, 0>>],
   owed |-> {}, chains |-> NoChain, out |-> [o \in LayOutput |-> 0],
   new |-> [o \in {} |-> 0], pend |-> [o \in LayOutput |-> 0], ok |-> {},
   want |-> [o \in {} |-> 0], phase |-> "idle", n |-> 0]

LayInit == lay \in {LayState("layout"), LayState("swap")}

-----------------------------------------------------------------------------
(* The layout.                                                              *)

LayPlaced(s) == ToSet(s.outputs)

(* output_layout_output_get_box: the end of the box.                        *)
End(s, o) == s.x[o] + s.w[o]

(* Auto configured outputs all start at the rightmost manual output.        *)
reconfigure_stacked(s) ==
  LET manual == LayPlaced(s) \ s.auto
      from == IF manual = {} THEN 0 ELSE Max({End(s, o) : o \in manual})
  IN [s EXCEPT !.x = [o \in LayOutput |-> IF o \in s.auto \cap LayPlaced(s) THEN from ELSE @[o]]]

(* output_layout_reconfigure: the outputs the layout places form a row to   *)
(* the right of all others, in the order of the list.                       *)
output_layout_reconfigure(s) ==
  LET manual == LayPlaced(s) \ s.auto
      from == IF manual = {} THEN 0 ELSE Max({End(s, o) : o \in manual})
      row == SelectSeq(s.outputs, LAMBDA o : o \in s.auto)
      before(o) == FoldSet(LAMBDA p, sum : sum + s.w[p], 0,
                     {row[i] : i \in 1..(CHOOSE i \in DOMAIN row : row[i] = o) - 1})
  IN [s EXCEPT !.x = [o \in LayOutput |-> IF o \in ToSet(row) THEN from + before(o) ELSE @[o]]]

(* output_update_global: only outputs with a size are advertised.           *)
output_update_global(s, o) ==
  [s EXCEPT !.glob = IF s.w[o] > 0 THEN @ \cup {o} ELSE @ \ {o},
            !.res = IF s.w[o] > 0 THEN @ ELSE @ \ {o}, !.owed = IF s.w[o] > 0 THEN @ ELSE @ \ {o},
            !.told[o] = IF s.w[o] > 0 THEN @ ELSE <<0, 0>>]

(* output_update: a change is told and wl_output.done scheduled.            *)
output_update(s, o) ==
  LET d == <<s.x[o], s.w[o]>>
      told == o \in s.res /\ s.xo[o] # d
  IN [s EXCEPT !.xo[o] = d, !.told[o] = IF told THEN d ELSE @,
               !.owed = IF told THEN @ \cup {o} ELSE @]

(* xdg_output_layout_change: every xdg-output object is compared.               *)
xdg_output_layout_change(s) ==
  FoldSet(LAMBDA o, t : output_update(t, o), s, DOMAIN s.xo)

LayChanged(s) == xdg_output_layout_change(output_layout_reconfigure(s))

(* Tells nothing of the place the output was given.                         *)
add_unplaced(s, o) == [s EXCEPT !.xo = @ @@ (o :> <<0, 0>>)]

(* add_output of the xdg-output manager, on the layout's add event.         *)
add_output(s, o) == output_update([s EXCEPT !.xo = @ @@ (o :> <<0, 0>>)], o)

(* output_layout_add: an output that is placed already is moved; the add    *)
(* event comes after the change.                                            *)
output_layout_add(o, x, auto) ==
  /\ lay.slice = "layout" /\ o \in lay.live
  /\ LET is_new == o \notin LayPlaced(lay)
         s == [lay EXCEPT !.outputs = IF is_new THEN Append(@, o) ELSE @, !.x[o] = x,
                          !.auto = IF auto THEN @ \cup {o} ELSE @ \ {o}]
         t == output_update_global(LayChanged(s), o)
     IN lay' = IF is_new THEN add_output(t, o) ELSE t

(* output_layout_output_destroy: the xdg-output goes, then the global.      *)
output_layout_output_destroy(s, o) ==
  [s EXCEPT !.outputs = SelectSeq(@, LAMBDA p : p # o), !.glob = @ \ {o},
            !.xo = [p \in DOMAIN @ \ {o} |-> @[p]], !.res = @ \ {o}, !.owed = @ \ {o},
            !.auto = @ \ {o}, !.x[o] = 0, !.told[o] = <<0, 0>>]

wlr_output_layout_remove(o) ==
  /\ o \in LayPlaced(lay)
  /\ lay' = LayChanged(output_layout_output_destroy(lay, o))

(* addon_destroy: the output is destroyed.                                  *)
addon_destroy(o) ==
  /\ lay.slice = "layout" /\ o \in lay.live
  /\ LET s == [lay EXCEPT !.live = @ \ {o}]
     IN lay' = IF o \in LayPlaced(s) THEN LayChanged(output_layout_output_destroy(s, o)) ELSE s

(* Advertises the output with the size it had.                              *)
commit_unadvertised(o, w) ==
  /\ lay.slice = "layout" /\ o \in lay.live /\ w # lay.w[o]
  /\ LET s == [lay EXCEPT !.w[o] = w] IN lay' = IF o \in LayPlaced(s) THEN LayChanged(s) ELSE s

(* handle_output_commit of a mode, scale or transform.                      *)
handle_output_commit(o, w) ==
  /\ lay.slice = "layout" /\ o \in lay.live /\ w # lay.w[o]
  /\ LET s == [lay EXCEPT !.w[o] = w]
     IN lay' = IF o \in LayPlaced(s) THEN output_update_global(LayChanged(s), o) ELSE s

(* output_manager_handle_get_xdg_output asserts that the layout has the     *)
(* output; a resource of an output without a global is inert.               *)
output_manager_handle_get_xdg_output(o) ==
  /\ o \in (lay.glob \cap LaySeen) \ lay.res
  /\ lay' = [lay EXCEPT !.res = @ \cup {o}, !.told[o] = lay.xo[o], !.owed = @ \ {o}]

(* schedule_done_handle_idle_timer of the output.                           *)
SendDone(o) == o \in lay.owed /\ lay' = [lay EXCEPT !.owed = @ \ {o}]

-----------------------------------------------------------------------------
(* Places in the layout.                                                    *)

(* wlr_output_layout_output_at: the first of the list.                      *)
wlr_output_layout_output_at(s, p) ==
  SelectSeq(s.outputs, LAMBDA o : s.x[o] <= p /\ p < End(s, o))

Near(s, o, p) == IF p < s.x[o] THEN s.x[o] ELSE IF p >= End(s, o) THEN End(s, o) - 1 ELSE p

Distance(a, b) == IF a < b THEN b - a ELSE a - b

(* wlr_output_layout_closest_point: empty boxes have none.                  *)
wlr_output_layout_closest_point(s, p) ==
  LET near == {Near(s, o, p) : o \in {q \in LayPlaced(s) : s.w[q] > 0}}
  IN IF near = {} THEN p ELSE CHOOSE c \in near : \A d \in near : Distance(c, p) <= Distance(d, p)

(* wlr_output_layout_get_center_output                                      *)
wlr_output_layout_get_center_output(s) ==
  LET from == Min({s.x[o] : o \in LayPlaced(s)})
      to == Max({End(s, o) : o \in LayPlaced(s)})
      dest == wlr_output_layout_closest_point(s, (from + to) \div 2)
  IN wlr_output_layout_output_at(s, dest)

(* The closest point of an empty output is the reference point itself.      *)
Away(s, q, p) == IF s.w[q] = 0 THEN 0 ELSE Distance(Near(s, q, p), p)

(* The first of the list that is nearest to p.                              *)
FirstNearest(s, match, p) ==
  LET best == SelectSeq(s.outputs, LAMBDA q : q \in match
                                              /\ \A r \in match : Away(s, q, p) <= Away(s, r, p))
  IN IF best = <<>> THEN {} ELSE {Head(best)}

(* Any output that begins to the right.                                     *)
in_direction_begins(s, o, p) ==
  FirstNearest(s, {q \in LayPlaced(s) \ {o} : s.x[q] >= s.x[o]}, p)

(* wlr_output_layout_output_in_direction: the nearest output right of o,    *)
(* those without a size included.                                           *)
wlr_output_layout_output_in_direction(s, o, p) ==
  FirstNearest(s, {q \in LayPlaced(s) \ {o} : s.x[q] >= End(s, o)}, p)

-----------------------------------------------------------------------------
(* The swapchain manager.                                                   *)

Free(s) == CHOOSE i \in 1..(2 * Cardinality(LayOutput) + 1) : i \notin DOMAIN s.chains

(* swapchain_is_compatible                                                  *)
swapchain_is_compatible(s, i, size, kind) == i # 0 /\ s.chains[i] = <<size, kind>>

wlr_swapchain_destroy(s, i) == [s EXCEPT !.chains = [j \in DOMAIN @ \ {i} |-> @[j]]]

(* Forgets the new swapchain of a test before.                              *)
get_swapchain_kept(s, o, size, kind) ==
  IF swapchain_is_compatible(s, s.out[o], size, kind) THEN [s EXCEPT !.pend[o] = s.out[o]]
  ELSE IF swapchain_is_compatible(s, s.new[o], size, kind) THEN [s EXCEPT !.pend[o] = s.new[o]]
  ELSE [s EXCEPT !.chains = @ @@ (Free(s) :> <<size, kind>>), !.new[o] = Free(s),
                 !.pend[o] = Free(s)]

(* manager_output_get_swapchain: the output's, the new one, or a new one in *)
(* its place, that becomes the pending one.                                 *)
manager_output_get_swapchain(s, o, size, kind) ==
  IF swapchain_is_compatible(s, s.out[o], size, kind) THEN [s EXCEPT !.pend[o] = s.out[o]]
  ELSE IF swapchain_is_compatible(s, s.new[o], size, kind) THEN [s EXCEPT !.pend[o] = s.new[o]]
  ELSE LET i == Free(s)
           t == [s EXCEPT !.chains = @ @@ (i :> <<size, kind>>)]
       IN [wlr_swapchain_destroy(t, s.new[o]) EXCEPT !.new[o] = i, !.pend[o] = i]

(* manager_output_prepare of the outputs of a configuration, up to the      *)
(* first that has no swapchain.                                             *)
manager_output_prepare(s, want, good, kind) ==
  FoldSet(LAMBDA o, t :
            IF want[o] = 0 THEN [t EXCEPT !.pend[o] = 0]
            ELSE manager_output_get_swapchain(t, o, want[o], kind),
          [s EXCEPT !.new = @ @@ [o \in good |-> 0]], good)

(* Tests that failed leave the success of one before.                       *)
manager_test_stale(s, want, good, kind, accepted) ==
  LET t == manager_output_prepare(s, want, good, kind)
  IN IF good # DOMAIN want \/ ~accepted THEN t
     ELSE [t EXCEPT !.ok = @ \cup DOMAIN want, !.want = want]

(* manager_test: good are the outputs that got a swapchain; the backend     *)
(* accepts the whole configuration or refuses it.                           *)
manager_test(s, want, good, kind, accepted) ==
  LET t == manager_output_prepare([s EXCEPT !.ok = {}], want, good, kind)
  IN IF good # DOMAIN want \/ ~accepted THEN t
     ELSE [t EXCEPT !.ok = DOMAIN want, !.want = want]

(* wlr_output_swapchain_manager_prepare: with explicit modifiers and then   *)
(* without.                                                                 *)
wlr_output_swapchain_manager_prepare(want, good1, accepted1, good2, accepted2) ==
  /\ lay.slice = "swap" /\ lay.n < MaxLayEnv /\ lay.phase \in {"idle", "tested"}
  /\ LET first == manager_test(lay, want, good1, "explicit", accepted1)
         s == IF first.ok # {} THEN first
              ELSE manager_test(first, want, good2, "implicit", accepted2)
     IN lay' = [s EXCEPT !.phase = "tested", !.n = @ + 1]

(* wlr_backend_commit of what was tested: output_apply_state drops the      *)
(* swapchain of a disabled output or of another size.                       *)
CommitTested ==
  /\ lay.phase = "tested" /\ lay.ok # {}
  /\ LET drop == {o \in lay.ok : lay.out[o] # 0
                               /\ (lay.want[o] = 0 \/ lay.chains[lay.out[o]][1] # lay.want[o])}
     IN lay' = [lay EXCEPT !.phase = "committed",
                           !.chains = [i \in DOMAIN @ \ {lay.out[o] : o \in drop} |-> @[i]],
                           !.out = [o \in LayOutput |-> IF o \in drop THEN 0 ELSE @[o]]]

(* Takes the new swapchain of every output.                                 *)
apply_untested ==
  /\ lay.phase = "committed"
  /\ LET take == {o \in DOMAIN lay.new : lay.new[o] # 0}
     IN lay' = [lay EXCEPT !.phase = "applied",
                           !.chains = [i \in DOMAIN @ \ {lay.out[o] : o \in take} |-> @[i]],
                           !.out = [o \in LayOutput |-> IF o \in take THEN lay.new[o] ELSE @[o]],
                           !.new = [o \in DOMAIN @ |-> IF o \in take THEN 0 ELSE @[o]]]

(* wlr_output_swapchain_manager_apply                                       *)
wlr_output_swapchain_manager_apply ==
  /\ lay.phase = "committed"
  /\ LET take == {o \in lay.ok : lay.pend[o] # lay.out[o]}
     IN lay' = [lay EXCEPT !.phase = "applied", !.ok = @ \ take,
                           !.chains = [i \in DOMAIN @ \ {lay.out[o] : o \in take} |-> @[i]],
                           !.out = [o \in LayOutput |-> IF o \in take THEN lay.new[o] ELSE @[o]],
                           !.new = [o \in DOMAIN @ |-> IF o \in take THEN 0 ELSE @[o]]]

(* wlr_output_swapchain_manager_finish                                      *)
wlr_output_swapchain_manager_finish ==
  /\ lay.phase \in {"tested", "applied"}
  /\ lay' = [lay EXCEPT !.phase = "idle", !.new = [o \in {} |-> 0], !.ok = {},
                        !.pend = [o \in LayOutput |-> 0], !.want = [o \in {} |-> 0],
                        !.chains = [i \in DOMAIN @ \ {lay.new[o] : o \in DOMAIN lay.new} |-> @[i]]]

Wishes == UNION {[S -> {0, 1, 2}] : S \in (SUBSET LaySeen) \ {{}}}

LayNext ==
  \/ \E o \in LayOutput :
       \/ \E x \in LayPos : output_layout_add(o, x, FALSE)
       \/ output_layout_add(o, 0, TRUE)
       \/ wlr_output_layout_remove(o) \/ addon_destroy(o)
       \/ \E w \in LayWidth : handle_output_commit(o, w)
       \/ output_manager_handle_get_xdg_output(o) \/ SendDone(o)
  \/ /\ lay.slice = "swap" /\ lay.n < MaxLayEnv /\ lay.phase \in {"idle", "tested"}
     /\ \E want \in Wishes, accepted1, accepted2 \in BOOLEAN :
          \E good1, good2 \in SUBSET DOMAIN want :
            wlr_output_swapchain_manager_prepare(want, good1, accepted1, good2, accepted2)
  \/ CommitTested \/ wlr_output_swapchain_manager_apply \/ wlr_output_swapchain_manager_finish

-----------------------------------------------------------------------------
(* Outputs that the layout places cover no other output, whatever was added,*)
(* moved, removed or resized before.                                        *)
AutoApart ==
  \A o \in lay.auto : \A p \in LayPlaced(lay) \ {o} : End(lay, p) <= lay.x[o] \/ End(lay, o) <= lay.x[p]

(* Clients know the place and size of every output they asked about, and    *)
(* exactly the placed outputs with a size are advertised, so the assertion  *)
(* of get_xdg_output holds.                                                 *)
ClientsShown ==
  /\ DOMAIN lay.xo = LayPlaced(lay)
  /\ \A o \in LayPlaced(lay) : lay.xo[o] = <<lay.x[o], lay.w[o]>>
  /\ \A o \in lay.res : lay.told[o] = <<lay.x[o], lay.w[o]>>
  /\ lay.glob = {o \in LayPlaced(lay) : lay.w[o] > 0}
  /\ lay.res \subseteq lay.glob

(* The centre of a layout that shows something is on an output; right of an *)
(* output the layout finds an output exactly when it has one there, and the *)
(* nearest, unless one without a size lies there: its distance is zero.     *)
PlacesFound ==
  LET shown == {o \in LayPlaced(lay) : lay.w[o] > 0}
  IN /\ shown # {} => wlr_output_layout_get_center_output(lay) # <<>>
     /\ \A o \in shown :
          LET there == {p \in LayPlaced(lay) \ {o} : lay.x[p] >= End(lay, o)}
              right == wlr_output_layout_output_in_direction(lay, o, lay.x[o])
          IN /\ right \subseteq there
             /\ right = {} => there = {}
             /\ there \subseteq shown => \A p \in right, q \in there : lay.x[p] <= lay.x[q]

(* Every swapchain has exactly one owner, none is used after it was         *)
(* destroyed, and once a tested configuration was committed and applied     *)
(* each output has the swapchain the backend accepted.                      *)
SwapchainsTested ==
  LET held(f) == {f[o] : o \in DOMAIN f} \ {0}
  IN /\ DOMAIN lay.chains = held(lay.out) \cup held(lay.new)
     /\ held(lay.out) \cap held(lay.new) = {}
     /\ \A o \in lay.ok : lay.pend[o] \in DOMAIN lay.chains \cup {0}
     /\ lay.phase = "applied" =>
          \A o \in DOMAIN lay.want :
            IF lay.want[o] = 0 THEN lay.out[o] = 0
            ELSE lay.out[o] = lay.pend[o] /\ lay.chains[lay.out[o]][1] = lay.want[o]

OutputLayoutSound == AutoApart /\ ClientsShown /\ PlacesFound /\ SwapchainsTested
=============================================================================
