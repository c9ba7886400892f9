----------------------------- MODULE LayerShell -----------------------------
(***************************************************************************)
(* wlr-layer-shell: a layer surface's double-buffered fields, the configure *)
(* handshake and popups.  A commit is queued and applied later, so that it *)
(* can overtake nothing while it waits for a fence or a lock.              *)
(***************************************************************************)
EXTENDS Naturals, Sequences, FiniteSets
CONSTANTS LayerFields,     \* the double-buffered fields: size, anchor, edge, layer...
          LayerSizes, MaxLayerSerial, MaxLayerQueue,
          MaxLayerSets     \* bound: fields changed by one commit

ASSUME LayerAssumption == /\ {"size", "anchor"} \subseteq LayerFields
                          /\ MaxLayerSerial \in Nat /\ MaxLayerQueue \in Nat \ {0}
                          /\ LayerSizes \subseteq Nat /\ MaxLayerSets \in Nat

VARIABLE layer

(* size 0: the client leaves it to the compositor; anchor 1: both edges;   *)
(* edge 1: the exclusive edge is set.                                       *)
NoFields == [f \in LayerFields |-> 0]
LayerState(fs, flags, serial, actual) ==
  [fields |-> fs, committed |-> flags, serial |-> serial, actual |-> actual]
LayerUnset == LayerState(NoFields, {}, 0, 0)

(* pbuf, buf: pending and current state have a buffer; sent: the size of   *)
(* each configure; popup: of the client, "orphan" without a parent.        *)
LayerInit ==
  layer = [obj |-> FALSE, init |-> FALSE, conf |-> FALSE, mapped |-> FALSE,
           pbuf |-> FALSE, buf |-> FALSE, pending |-> LayerUnset, current |-> LayerUnset,
           queue |-> <<>>, confs |-> <<>>, sent |-> <<>>, popup |-> "none", alive |-> TRUE]

ResetKeepsConfigures(st) ==
  [st EXCEPT !.conf = FALSE, !.init = FALSE, !.popup = IF @ = "child" THEN "none" ELSE @]

(* Back to before the initial commit; popups and configures are dropped. *)
layer_surface_reset(st) ==
  [st EXCEPT !.conf = FALSE, !.init = FALSE, !.confs = <<>>,
             !.popup = IF @ = "child" THEN "none" ELSE @]

(* The extension state goes with the object, cached ones included, and no   *)
(* serial sent before matters.                                              *)
layer_surface_destroy(st) ==
  [layer_surface_reset([st EXCEPT !.mapped = FALSE]) EXCEPT
     !.obj = FALSE, !.pending = LayerUnset, !.current = LayerUnset, !.sent = <<>>,
     !.queue = [i \in DOMAIN @ |-> [@[i] EXCEPT !.state = LayerUnset]]]

-----------------------------------------------------------------------------
(* Requests. *)
layer_shell_handle_get_layer_surface ==
  /\ ~layer.obj /\ layer.alive
  /\ layer' = [layer EXCEPT !.obj = TRUE]

SetUnflagged(f, v) ==
  /\ layer.obj /\ layer.pending.fields[f] # v
  /\ layer' = [layer EXCEPT !.pending.fields[f] = v]

(* Setting a field to its pending value is no change; the exclusive edge   *)
(* is flagged always.                                                      *)
layer_surface_handle_set(f, v) ==
  /\ layer.obj /\ Cardinality(layer.pending.committed \cup {f}) <= MaxLayerSets
  /\ layer.pending.fields[f] # v \/ (f = "edge" /\ f \notin layer.pending.committed)
  /\ layer' = [layer EXCEPT !.pending.fields[f] = v, !.pending.committed = @ \cup {f}]

ack_first_size(i) ==
  /\ layer.obj /\ i \in DOMAIN layer.confs
  /\ layer' = [layer EXCEPT !.confs = SubSeq(@, i + 1, Len(@)), !.conf = TRUE,
                            !.pending.serial = layer.confs[i].serial,
                            !.pending.actual = layer.confs[1].size]

(* Any configure in flight; older ones are dropped. *)
layer_surface_handle_ack_configure(i) ==
  /\ layer.obj /\ i \in DOMAIN layer.confs
  /\ layer' = [layer EXCEPT !.confs = SubSeq(@, i + 1, Len(@)), !.conf = TRUE,
                            !.pending.serial = layer.confs[i].serial,
                            !.pending.actual = layer.confs[i].size]

layer_surface_handle_get_popup ==
  /\ layer.obj /\ layer.popup = "orphan"
  /\ layer' = [layer EXCEPT !.popup = "child"]

create_popup == layer.popup = "none" /\ layer.alive /\ layer' = [layer EXCEPT !.popup = "orphan"]
close_popup == layer.popup # "none" /\ layer' = [layer EXCEPT !.popup = "none"]

(* A rejected commit is a protocol error; what passes is queued.           *)
ValidFields(fs) == /\ fs["size"] = 0 => fs["anchor"] = 1
             /\ "edge" \in LayerFields /\ fs["edge"] = 1 => fs["anchor"] = 1
layer_surface_role_client_commit(b) ==
  b => layer.conf

layer_surface_commit(attach) ==
  LET b == IF attach = "keep" THEN layer.pbuf ELSE attach = "buffer" IN
  /\ layer.alive /\ Len(layer.queue) < MaxLayerQueue
  /\ layer.obj => layer_surface_role_client_commit(b) /\ ValidFields(layer.pending.fields)
  /\ layer' = [layer EXCEPT !.pbuf = b, !.pending.committed = {},
                 !.queue = Append(@, [attach |-> attach, state |-> layer.pending])]

(* The state moves to current with its flags; a commit that removes the    *)
(* buffer of a mapped surface resets it, any other may be the initial one. *)
layer_surface_role_commit ==
  LET c == Head(layer.queue)
      has == IF c.attach = "keep" THEN layer.buf ELSE c.attach = "buffer"
      unmap == layer.mapped /\ c.attach = "null"
      moved == [layer EXCEPT !.queue = Tail(@), !.buf = has, !.current = c.state,
                             !.mapped = @ /\ c.attach # "null"]
      role == IF unmap THEN layer_surface_reset(moved) ELSE [moved EXCEPT !.init = TRUE]
  IN /\ layer.queue # <<>>
     /\ layer' = IF layer.obj THEN [role EXCEPT !.mapped = has]
                 ELSE [layer EXCEPT !.queue = Tail(@), !.buf = has]

-----------------------------------------------------------------------------
(* The compositor. *)
wlr_layer_surface_v1_configure(size) ==
  /\ layer.obj /\ layer.init /\ Len(layer.sent) < MaxLayerSerial
  /\ layer' = [layer EXCEPT !.sent = Append(@, size),
                 !.confs = Append(@, [serial |-> Len(layer.sent) + 1, size |-> size])]

wlr_layer_surface_v1_destroy == layer.obj /\ layer' = layer_surface_destroy(layer)
layer_surface_role_destroy ==
  /\ layer.alive
  /\ layer' = [(IF layer.obj THEN layer_surface_destroy(layer) ELSE layer) EXCEPT
                 !.alive = FALSE, !.queue = <<>>, !.buf = FALSE, !.pbuf = FALSE]

LayerNext ==
  \/ layer_shell_handle_get_layer_surface
  \/ \E f \in LayerFields, v \in {0, 1} : layer_surface_handle_set(f, v)
  \/ \E i \in 1..MaxLayerSerial : layer_surface_handle_ack_configure(i)
  \/ layer_surface_handle_get_popup \/ create_popup \/ close_popup
  \/ \E a \in {"keep", "buffer", "null"} : layer_surface_commit(a)
  \/ layer_surface_role_commit
  \/ \E size \in LayerSizes : wlr_layer_surface_v1_configure(size)
  \/ wlr_layer_surface_v1_destroy
  \/ layer_surface_role_destroy

LayerSpec == LayerInit /\ [][LayerNext]_layer

-----------------------------------------------------------------------------
(* What the compositor arranges is what the client asked for and was told: *)
(* the current fields obey the protocol's rules once initialized, the       *)
(* current size is that of the configure with the current serial, through   *)
(* any number of acknowledgements and waiting commits, and popups live on   *)
(* existing layer surfaces.  Configures of an earlier life cannot be        *)
(* acknowledged.                                                            *)
LayerStateAgreed ==
  /\ layer.obj /\ layer.init /\ layer.current.serial > 0 =>
       /\ ValidFields(layer.current.fields)
       /\ layer.current.actual = layer.sent[layer.current.serial]
  /\ layer.popup = "child" => layer.obj
  /\ layer.mapped => layer.obj /\ layer.buf
  /\ layer.confs # <<>> => layer.init

(* A changed field is flagged when its state becomes current: a compositor  *)
(* that looks at the flags only misses nothing.                             *)
LayerChangesFlagged ==
  [][layer.obj /\ layer'.obj =>
       \A f \in LayerFields : layer'.current.fields[f] # layer.current.fields[f]
                           => f \in layer'.current.committed]_layer
=============================================================================
