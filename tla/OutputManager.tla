--------------------------- MODULE OutputManager ---------------------------
(***************************************************************************)
(* The protocols that control outputs: output management                    *)
(* (types/wlr_output_management_v1.c), gamma control                        *)
(* (types/wlr_gamma_control_v1.c) and output power                          *)
(* (types/wlr_output_power_management_v1.c), with a compositor that applies *)
(* configurations and outputs that come and go.                             *)
(***************************************************************************)
EXTENDS Integers, FiniteSets, FiniteSetsExt, Functions, TLC

CONSTANTS OmOutput,       \* outputs
          OmClient,       \* clients
          OmMode,         \* modes every output lists; "custom" is none of them
          OmConfig,       \* configuration objects
          MaxOmSerial     \* bound: serials of the manager

(* slice: a bound, which protocol moves; live: outputs that exist.          *)
(* heads: the manager's heads with their states [en, mode, size] (size of   *)
(* the custom mode); serial, dirty (current_configuration_dirty); bound:    *)
(* clients that bound the manager; hres, mres: head and mode objects that   *)
(* clients hold; told: the state each head object was told; fresh: clients  *)
(* whose news were closed by done.                                          *)
(* confs: configurations that exist: client, serial, heads, res (the client *)
(* has the object), fin (finalized); answers of each; owned: the ones the   *)
(* compositor holds; stale: an output went since it published a             *)
(* configuration.                                                           *)
(* ctl: the gamma control of an output with its table (0: none); lut: what  *)
(* the output shows; frame: outputs with a repaint to come.                 *)
(* power: output power objects; on: outputs that are enabled; seen: the     *)
(* mode each object was told.                                               *)
(* Ghosts: unfound: assert(found) of head_send_state failed; empty: a       *)
(* configuration with a custom mode of size zero was applied.               *)
VARIABLE omg

Off == [en |-> FALSE, mode |-> "custom", size |-> 0]
Initial == [en |-> TRUE, mode |-> "m1", size |-> 1]

OmState(slice) ==
  [slice |-> slice, live |-> OmOutput, heads |-> [o \in {} |-> Off], serial |-> 0,
   dirty |-> FALSE, bound |-> {}, hres |-> {}, mres |-> {}, told |-> [r \in {} |-> Off],
   fresh |-> {}, confs |-> [k \in {} |-> Off], owned |-> {}, stale |-> FALSE,
   answers |-> [k \in OmConfig |-> 0],
   ctl |-> [o \in {} |-> 0], lut |-> [o \in OmOutput |-> 0], frame |-> {},
   power |-> {}, on |-> OmOutput, seen |-> [o \in OmOutput |-> "none"],
   unfound |-> FALSE, empty |-> FALSE]

OmInit == omg \in {OmState(s) : s \in {"config", "gamma", "power"}}

ConfigOn == omg.slice = "config"

-----------------------------------------------------------------------------
(* Heads and their objects.                                                 *)

(* head_send_state asserts that the client has an object for the mode.      *)
head_send_state(s, c, o) ==
  LET st == s.heads[o]
  IN [s EXCEPT !.told = (<<c, o>> :> st) @@ @, !.fresh = @ \ {c},
               !.unfound = @ \/ (st.en /\ <<c, o, st.mode>> \notin s.mres)]

(* manager_send_head: the modes, a custom one if it is used, the state.     *)
manager_send_head(s, c, o) ==
  LET st == s.heads[o]
      modes == OmMode \cup IF st.en /\ st.mode = "custom" THEN {"custom"} ELSE {}
  IN head_send_state([s EXCEPT !.hres = @ \cup {<<c, o>>},
                               !.mres = @ \cup {<<c, o, m>> : m \in modes}], c, o)

(* head_destroy: the objects become inert.                                  *)
head_destroy(s, o) ==
  LET own == {r \in s.hres : r[2] = o}
  IN [s EXCEPT !.heads = Restrict(@, DOMAIN @ \ {o}), !.hres = @ \ own,
               !.mres = {r \in @ : r[2] # o},
               !.told = Restrict(@, DOMAIN @ \ own), !.fresh = @ \ {r[1] : r \in own}]

(* Does not offer modes again that a client released.                       *)
update_head_once(s, o, next) ==
  LET current == s.heads[o]
      clients == {r[1] : r \in {q \in s.hres : q[2] = o}}
      custom == IF next.mode = "custom" /\ next.en THEN {<<c, o, "custom">> : c \in clients} ELSE {}
      t == [s EXCEPT !.mres = @ \cup custom]
  IN IF current = next THEN t
     ELSE FoldSet(LAMBDA c, u : head_send_state(u, c, o), [t EXCEPT !.heads[o] = next], clients)

(* manager_update_head: modes a client lacks are sent (again), a custom one *)
(* is added or finished, and what changed is sent.                          *)
manager_update_head(s, o, next) ==
  LET current == s.heads[o]
      clients == {r[1] : r \in {q \in s.hres : q[2] = o}}
      custom == IF next.mode = "custom" /\ next.en THEN {<<c, o, "custom">> : c \in clients} ELSE {}
      over == IF next.mode # "custom" THEN {r \in s.mres : r[2] = o /\ r[3] = "custom"} ELSE {}
      t == [s EXCEPT !.mres = (@ \ over) \cup custom \cup (clients \X {o} \X OmMode)]
  IN IF current = next THEN t
     ELSE FoldSet(LAMBDA c, u : head_send_state(u, c, o), [t EXCEPT !.heads[o] = next], clients)

(* Sends done only if a head changed now.                                   *)
set_configuration_clean(s, new) ==
  LET gone == FoldSet(LAMBDA o, t : head_destroy(t, o), s, DOMAIN s.heads \ DOMAIN new)
      upd == FoldSet(LAMBDA o, t : manager_update_head(t, o, new[o]), gone,
                     DOMAIN gone.heads)
      add == FoldSet(LAMBDA o, t : FoldSet(LAMBDA c, u : manager_send_head(u, c, o),
                                           [t EXCEPT !.heads = @ @@ (o :> new[o])], t.bound),
                     upd, DOMAIN new \ DOMAIN upd.heads)
  IN IF s.heads = new THEN add
     ELSE [add EXCEPT !.serial = @ + 1, !.fresh = s.bound, !.dirty = FALSE]

(* wlr_output_manager_v1_set_configuration: done with a new serial if       *)
(* anything changed, also before.                                           *)
wlr_output_manager_v1_set_configuration(s, new) ==
  LET gone == FoldSet(LAMBDA o, t : head_destroy(t, o), s, DOMAIN s.heads \ DOMAIN new)
      upd == FoldSet(LAMBDA o, t : manager_update_head(t, o, new[o]), gone,
                     DOMAIN gone.heads)
      add == FoldSet(LAMBDA o, t : FoldSet(LAMBDA c, u : manager_send_head(u, c, o),
                                           [t EXCEPT !.heads = @ @@ (o :> new[o])], t.bound),
                     upd, DOMAIN new \ DOMAIN upd.heads)
  IN IF s.heads = new /\ ~s.dirty THEN add
     ELSE [add EXCEPT !.serial = @ + 1, !.fresh = s.bound, !.dirty = FALSE]

manager_bind(c) ==
  /\ ConfigOn /\ c \notin omg.bound
  /\ LET s == [omg EXCEPT !.bound = @ \cup {c}]
         t == FoldSet(LAMBDA o, u : manager_send_head(u, c, o), s, DOMAIN s.heads)
     IN omg' = [t EXCEPT !.fresh = @ \cup {c}]

(* manager_handle_stop: the head objects stay.                              *)
manager_handle_stop(c) ==
  c \in omg.bound /\ omg' = [omg EXCEPT !.bound = @ \ {c}, !.fresh = @ \ {c}]

output_mode_handle_release(r) == r \in omg.mres /\ omg' = [omg EXCEPT !.mres = @ \ {r}]

head_handle_release(r) ==
  r \in omg.hres /\ omg' = [omg EXCEPT !.hres = @ \ {r}, !.told = Restrict(@, DOMAIN @ \ {r})]

-----------------------------------------------------------------------------
(* Configurations.                                                          *)

manager_handle_create_configuration(c, k, serial) ==
  /\ c \in omg.bound /\ k \notin DOMAIN omg.confs /\ omg.answers[k] = 0
  /\ omg' = [omg EXCEPT !.confs = @ @@ (k :> [client |-> c, serial |-> serial, res |-> TRUE,
                                              heads |-> [o \in {} |-> Off], fin |-> FALSE])]

(* config_handle_enable_head (and disable): a head is configured once.      *)
config_handle_enable_head(k, o, en) ==
  /\ k \in DOMAIN omg.confs /\ omg.confs[k].res /\ ~omg.confs[k].fin
  /\ <<omg.confs[k].client, o>> \in omg.hres /\ o \notin DOMAIN omg.confs[k].heads
  /\ omg' = [omg EXCEPT !.confs[k].heads =
                          @ @@ (o :> IF en THEN [omg.heads[o] EXCEPT !.en = TRUE] ELSE Off)]

(* config_head_handle_set_mode: a mode of the output, or one that is inert  *)
(* or custom, which leaves the custom size; config_head_handle_set_custom.  *)
config_head_handle_set_mode(k, o, m, size) ==
  /\ k \in DOMAIN omg.confs /\ omg.confs[k].res /\ ~omg.confs[k].fin
  /\ o \in DOMAIN omg.confs[k].heads /\ omg.confs[k].heads[o].en
  /\ omg' = [omg EXCEPT !.confs[k].heads[o] =
               [en |-> TRUE, mode |-> m, size |-> IF m # "custom" THEN 0 ELSE
                                                  IF size = 0 THEN @.size ELSE size]]

(* wlr_output_configuration_v1_destroy                                      *)
wlr_output_configuration_v1_destroy(s, k) == [s EXCEPT !.confs = Restrict(@, DOMAIN @ \ {k})]

(* config_handle_apply and config_handle_test: an old serial is cancelled;  *)
(* every head must be configured (a protocol error, here the end of the     *)
(* configuration); then the compositor owns it.                             *)
config_handle_apply(k) ==
  LET c == omg.confs[k]
  IN /\ k \in DOMAIN omg.confs /\ c.res /\ ~c.fin
     /\ omg' = IF c.serial # omg.serial
               THEN [wlr_output_configuration_v1_destroy(omg, k) EXCEPT !.answers[k] = @ + 1]
               ELSE IF ~(DOMAIN omg.heads \subseteq DOMAIN c.heads)
               THEN wlr_output_configuration_v1_destroy(omg, k)
               ELSE [omg EXCEPT !.confs[k].fin = TRUE, !.owned = @ \cup {k}]

(* Frees a configuration the compositor still has.                          *)
resource_destroy_always(k) ==
  /\ k \in DOMAIN omg.confs /\ omg.confs[k].res
  /\ omg' = wlr_output_configuration_v1_destroy(omg, k)

(* config_handle_resource_destroy: the compositor keeps one that is         *)
(* finalized.                                                               *)
config_handle_resource_destroy(k) ==
  /\ k \in DOMAIN omg.confs /\ omg.confs[k].res
  /\ omg' = IF omg.confs[k].fin THEN [omg EXCEPT !.confs[k].res = FALSE]
            ELSE wlr_output_configuration_v1_destroy(omg, k)

(* The compositor answers: wlr_output_configuration_v1_send_succeeded, then *)
(* the configuration becomes the current one; or send_failed.               *)
CompositorAnswers(k, ok) ==
  LET c == omg.confs[k]
      told == [omg EXCEPT !.answers[k] = IF c.res THEN @ + 1 ELSE @, !.owned = @ \ {k},
                          !.stale = @ /\ ~ok]
      done == wlr_output_configuration_v1_destroy(told, k)
  IN /\ k \in omg.owned /\ omg.serial < MaxOmSerial
     /\ omg' = IF ~ok THEN done
               ELSE [wlr_output_manager_v1_set_configuration(done, c.heads) EXCEPT
                       !.empty = @ \/ \E o \in DOMAIN c.heads :
                                        c.heads[o].en /\ c.heads[o].mode = "custom"
                                        /\ c.heads[o].size = 0]

(* The compositor publishes the outputs it has.                             *)
CompositorUpdates ==
  /\ ConfigOn /\ omg.serial < MaxOmSerial
  /\ omg' = wlr_output_manager_v1_set_configuration(
              [omg EXCEPT !.stale = FALSE],
              [o \in omg.live |-> IF o \in DOMAIN omg.heads THEN omg.heads[o] ELSE Initial])

(* Leaves the heads of configurations.                                      *)
output_destroy_kept(o) ==
  /\ ConfigOn /\ o \in omg.live
  /\ LET s == [omg EXCEPT !.live = @ \ {o}]
     IN omg' = IF o \in DOMAIN s.heads THEN [head_destroy(s, o) EXCEPT !.dirty = TRUE] ELSE s

(* head_handle_output_destroy and config_head_handle_output_destroy         *)
head_handle_output_destroy(o) ==
  /\ ConfigOn /\ o \in omg.live
  /\ LET s == [omg EXCEPT !.live = @ \ {o}, !.stale = TRUE,
                          !.confs = [k \in DOMAIN @ |-> [@[k] EXCEPT !.heads =
                                                           Restrict(@, DOMAIN @ \ {o})]]]
     IN omg' = IF o \in DOMAIN s.heads THEN [head_destroy(s, o) EXCEPT !.dirty = TRUE] ELSE s

-----------------------------------------------------------------------------
(* Gamma control.                                                           *)

(* Frees the control and tells nobody.                                      *)
gamma_destroy_silent(s, o) == [s EXCEPT !.ctl = Restrict(@, DOMAIN @ \ {o})]

(* gamma_control_destroy: the compositor is told to reset the table.        *)
gamma_control_destroy(s, o) ==
  [s EXCEPT !.ctl = Restrict(@, DOMAIN @ \ {o}), !.frame = @ \cup ({o} \cap s.live)]

gamma_control_manager_get_gamma_control(o) ==
  /\ omg.slice = "gamma" /\ o \in omg.live \ DOMAIN omg.ctl
  /\ omg' = [omg EXCEPT !.ctl = @ @@ (o :> 0)]

(* gamma_control_handle_set_gamma, and a table that cannot be read.         *)
gamma_control_handle_set_gamma(o, table) ==
  /\ o \in DOMAIN omg.ctl
  /\ omg' = IF table = 0 THEN gamma_control_destroy(omg, o)
            ELSE [omg EXCEPT !.ctl[o] = table, !.frame = @ \cup {o}]

gamma_control_handle_resource_destroy(o) ==
  o \in DOMAIN omg.ctl /\ omg' = gamma_control_destroy(omg, o)

(* The compositor's frame: wlr_gamma_control_v1_apply of the control the    *)
(* output has, and wlr_gamma_control_v1_send_failed_and_destroy when the    *)
(* output refuses it.                                                       *)
GammaFrame(o, ok) ==
  /\ o \in omg.frame
  /\ LET s == [omg EXCEPT !.frame = @ \ {o}]
     IN omg' = IF o \notin DOMAIN s.ctl THEN [s EXCEPT !.lut[o] = 0]
               ELSE IF ok THEN [s EXCEPT !.lut[o] = s.ctl[o]] ELSE gamma_control_destroy(s, o)

gamma_control_handle_output_destroy(o) ==
  /\ omg.slice = "gamma" /\ o \in omg.live
  /\ LET s == [omg EXCEPT !.live = @ \ {o}, !.frame = @ \ {o}, !.lut[o] = 0]
     IN omg' = IF o \in DOMAIN s.ctl THEN gamma_control_destroy(s, o) ELSE s

-----------------------------------------------------------------------------
(* Output power.                                                            *)

Mode(o) == IF o \in omg.on THEN "on" ELSE "off"

(* output_power_manager_get_output_power: one object for an output.         *)
output_power_manager_get_output_power(o) ==
  /\ omg.slice = "power" /\ o \in omg.live \ omg.power
  /\ omg' = [omg EXCEPT !.power = @ \cup {o}, !.seen[o] = Mode(o)]

(* Reports the mode that was asked for.                                     *)
set_mode_reported(o, on, ok) ==
  /\ o \in omg.power
  /\ omg' = [omg EXCEPT !.on = IF ~ok THEN @ ELSE IF on THEN @ \cup {o} ELSE @ \ {o},
                        !.seen[o] = IF on THEN "on" ELSE "off"]

(* output_power_handle_set_mode: the compositor commits the mode, which     *)
(* fails or is reported by output_power_handle_output_commit.               *)
output_power_handle_set_mode(o, on, ok) ==
  /\ o \in omg.power
  /\ omg' = IF ~ok THEN omg
            ELSE [omg EXCEPT !.on = IF on THEN @ \cup {o} ELSE @ \ {o},
                             !.seen[o] = IF on THEN "on" ELSE "off"]

(* The compositor disables or enables an output for reasons of its own.     *)
output_power_handle_output_commit(o, on) ==
  /\ omg.slice = "power" /\ o \in omg.live
  /\ omg' = [omg EXCEPT !.on = IF on THEN @ \cup {o} ELSE @ \ {o},
                        !.seen[o] = IF o \notin omg.power THEN @ ELSE IF on THEN "on" ELSE "off"]

output_power_destroy(o) == o \in omg.power /\ omg' = [omg EXCEPT !.power = @ \ {o}, !.seen[o] = "none"]

output_power_handle_output_destroy(o) ==
  /\ omg.slice = "power" /\ o \in omg.live
  /\ omg' = [omg EXCEPT !.live = @ \ {o}, !.power = @ \ {o}, !.seen[o] = "none", !.on = @ \ {o}]

OmNext ==
  \/ \E c \in OmClient : manager_bind(c) \/ manager_handle_stop(c)
  \/ \E r \in omg.mres : output_mode_handle_release(r)
  \/ \E r \in omg.hres : head_handle_release(r)
  \/ \E c \in OmClient, k \in OmConfig : \E n \in 0..omg.serial :
       manager_handle_create_configuration(c, k, n)
  \/ \E k \in DOMAIN omg.confs :
       \/ config_handle_apply(k) \/ config_handle_resource_destroy(k)
       \/ \E ok \in BOOLEAN : CompositorAnswers(k, ok)
       \/ \E o \in OmOutput, en \in BOOLEAN : config_handle_enable_head(k, o, en)
       \/ \E o \in DOMAIN omg.confs[k].heads :
            \/ \E m \in OmMode : config_head_handle_set_mode(k, o, m, 0)
            \/ \E size \in {0, 1} : config_head_handle_set_mode(k, o, "custom", size)
  \/ CompositorUpdates
  \/ \E o \in OmOutput :
       \/ head_handle_output_destroy(o)
       \/ gamma_control_manager_get_gamma_control(o) \/ gamma_control_handle_resource_destroy(o)
       \/ \E table \in 0..2 : gamma_control_handle_set_gamma(o, table)
       \/ \E ok \in BOOLEAN : GammaFrame(o, ok)
       \/ gamma_control_handle_output_destroy(o)
       \/ output_power_manager_get_output_power(o) \/ output_power_destroy(o)
       \/ \E on, ok \in BOOLEAN : output_power_handle_set_mode(o, on, ok)
       \/ \E on \in BOOLEAN : output_power_handle_output_commit(o, on)
       \/ output_power_handle_output_destroy(o)

-----------------------------------------------------------------------------
(* A client that follows the manager was told every head and its state, can *)
(* name the mode, and knows by done which serial that is, as soon as the    *)
(* compositor published a configuration after an output went.               *)
HeadsTold ==
  /\ ~omg.unfound
  /\ \A r \in omg.hres : r[2] \in DOMAIN omg.heads /\ omg.told[r] = omg.heads[r[2]]
  /\ ~omg.stale => omg.bound \subseteq omg.fresh
  /\ DOMAIN omg.heads \subseteq omg.live

(* Configurations and heads name outputs that exist; one the compositor has *)
(* was made for the current serial unless the compositor published another  *)
(* since, and covers every head; it is answered at most once.               *)
ConfigsSound ==
  /\ \A k \in DOMAIN omg.confs :
       LET c == omg.confs[k]
       IN /\ DOMAIN c.heads \subseteq omg.live
          /\ ~c.fin => c.res
          /\ c.fin /\ c.serial = omg.serial => DOMAIN omg.heads \subseteq DOMAIN c.heads
          /\ omg.answers[k] = 0
  /\ omg.owned = {k \in DOMAIN omg.confs : omg.confs[k].fin}
  /\ \A k \in OmConfig : omg.answers[k] <= 1

(* Once it is repainted an output shows the table of its control, and none  *)
(* without one; power objects know the mode of their outputs.               *)
ControlsAgree ==
  /\ \A o \in omg.live \ omg.frame :
       omg.lut[o] = IF o \in DOMAIN omg.ctl THEN omg.ctl[o] ELSE 0
  /\ DOMAIN omg.ctl \subseteq omg.live
  /\ \A o \in omg.power : omg.seen[o] = Mode(o)

OutputManagerSound == HeadsTold /\ ConfigsSound /\ ControlsAgree
=============================================================================
