------------------------------- MODULE MCGates -------------------------------
(* Gates over a house with a lamp in the kitchen, a lock on a device of the   *)
(* hall, a group, a group of groups in the attic, a select and a script, and  *)
(* the requests a frontend, a phone and an agent over REST make of them.      *)
EXTENDS Gates, TLC

CONSTANTS kids, guests  \* two roles

MCReal == {"lamp", "lock", "lights", "home", "announcer", "night"}
MCProbe == [d \in {"light", "notify", "scene"} |-> d \o "._rbac_probe"]
MCEntities == MCReal \cup {MCProbe[d] : d \in DOMAIN MCProbe} \cup {"unknown"}
MCDomainOf ==
  "lamp" :> "light" @@ "lights" :> "light" @@ "home" :> "group" @@ "lock" :> "lock" @@
  "announcer" :> "input_select" @@ "night" :> "script" @@ "unknown" :> "unknown" @@
  MCProbe["light"] :> "light" @@ MCProbe["notify"] :> "notify" @@ MCProbe["scene"] :> "scene"
MCDeviceOf == [e \in MCEntities |-> IF e = "lock" THEN "door" ELSE None]
MCAreaOf == [e \in MCEntities |-> IF e = "lamp" THEN "kitchen" ELSE IF e = "home" THEN "attic" ELSE None]
MCLabelsOf == [e \in MCEntities |-> {}]
MCDeviceArea == [d \in {"door"} |-> "hall"]
MCDeviceLabels == [d \in {"door"} |-> {"night"}]
MCFloorOf == [a \in {"kitchen", "hall", "attic"} |-> "ground"]
MCAreaLabels == [a \in DOMAIN MCFloorOf |-> IF a = "kitchen" THEN {"cosy"} ELSE {}]

MCGuard ==
  "get_states" :> "open" @@ "render_template" :> "user" @@ "history/stream" :> "open" @@
  "logbook/get_events" :> "open" @@ "subscribe_events" :> "open" @@ "call_service" :> "open" @@
  "lovelace/config/save" :> "admin" @@ "supervisor/api" :> "inline" @@ "zone/update" :> "admin" @@
  "search/related" :> "open" @@ "get_panels" :> "open" @@ "POST /api/services" :> "open" @@
  "GET /api/camera_proxy" :> "open" @@ "GET /api/frigate" :> "open" @@ "GET /api/text" :> "open" @@
  "GET /api/history/period" :> "open"
MCSpelling ==
  "light.turn_on" :> <<"light", "turn_on">> @@ "notify.notify" :> <<"notify", "notify">> @@
  "script.night" :> <<"script", "night">> @@ "homeassistant.restart" :> <<"homeassistant", "restart">> @@
  "input_select.select_option" :> <<"input_select", "select_option">> @@
  "input_select.select_next" :> <<"input_select", "select_next">> @@
  "system_log.write" :> <<"system_log", "write">> @@ "scene.apply" :> <<"scene", "apply">>
MCBehind == [c \in DOMAIN MCSpelling |-> IF c = "script.night" THEN "night" ELSE None]
MCCommands == DOMAIN MCGuard \cup DOMAIN MCSpelling \cup {"GET /local", "GET /api/text"}
MCAppOf == "history/stream" :> "history" @@ "logbook/get_events" :> "logbook"
MCCapabilityPatterns == [dashboards |-> {{"lovelace/config/save"}}]
MCApps == {"history", "logbook", "family", "terminal"}

Ref(at, kind, id) == [at |-> at, kind |-> kind, id |-> id, seen |-> TRUE]
Past(ref) == [ref EXCEPT !.seen = FALSE]
Text == Ref("text", "entity", Template)
Ws(name, refs) ==
  [kind |-> "ws", name |-> name, refs |-> refs, attributes |-> FALSE, deep |-> FALSE, cut |-> FALSE,
   calls |-> {}, called |-> None, options |-> {}, app |-> None, endpoint |-> None, exempt |-> FALSE]
Http(name, refs) == [Ws(name, refs) EXCEPT !.kind = "http"]
Call(service, refs) == [Ws("call_service", refs) EXCEPT !.calls = {service}, !.called = service]
Post(service, refs) == [Http("POST /api/services", refs) EXCEPT !.called = service]

Reads ==
  {Ws("get_states", {}), Ws("get_panels", {}), Ws("subscribe_events", {}),
   Ws("search/related", {Ref("key", "entity", "lamp")}),
   [Ws("render_template", {Text}) EXCEPT !.attributes = TRUE], Ws("get_states", {Text}),
   [Ws("get_states", {Past(Text)}) EXCEPT !.cut = TRUE],
   Ws("history/stream", {Ref("key", "entity", "lock")}), Ws("logbook/get_events", {}),
   Http("GET /api/camera_proxy", {Ref("path", "entity", "lock")}),
   Http("GET /api/frigate", {Ref("segment", "entity", "lamp")}),
   Http("GET /api/history/period", {Ref("query", "entity", "lamp")}),
   Http("GET /api/text", {}), Http("GET /api/text", {Ref("query", "entity", "lamp")}),
   Http("GET /local", {})}

\* Bound by what they name, by their service alone, or by neither.
Acting ==
  {Call("light.turn_on", {Ref("target", "area", "attic")}),
   Call("light.turn_on", {Ref("key", "area", "attic"), Text}),
   Call("light.turn_on", {Ref("target", "entity", All)}),
   Call("light.turn_on", {Ref("target", "area", Template)}),
   Call("light.turn_on", {Ref("target", "label", "night"), Ref("target", "label", "cosy")}),
   [Call("light.turn_on", {Past(Ref("key", "entity", "lock"))}) EXCEPT !.cut = TRUE],
   [Call("light.turn_on", {Ref("target", "entity", "lamp")}) EXCEPT !.cut = TRUE],
   [Ws("get_states", {Ref("key", "entity", "lamp")}) EXCEPT !.deep = TRUE],
   Call("light.turn_on", {Ref("target", "entity", "lamp"), Ref("loose", "entity", "home")}),
   Call("light.turn_on", {Ref("target", "entity", "lamp"), Past(Ref("loose", "entity", "lock"))}),
   Call("scene.apply", {Ref("loose", "entity", "home"), Past(Ref("loose", "entity", "lamp"))}),
   Call("notify.notify", {}), Call("notify.notify", {Ref("target", "entity", None)}),
   Call("homeassistant.restart", {}), Call("system_log.write", {}),
   Call("script.night", {}), Post("script.night", {}), Call("script.night", {Ref("key", "entity", "lamp")}),
   [Call("input_select.select_option", {Ref("target", "entity", "announcer")}) EXCEPT !.options = {"me"}],
   Post("input_select.select_next", {Ref("target", "entity", "announcer")}),
   [Ws("lovelace/config/save", {}) EXCEPT !.app = "family"],
   [Ws("supervisor/api", {}) EXCEPT !.endpoint = "terminal", !.exempt = TRUE],
   Ws("zone/update", {Ref("key", "device", "door")})}

MCRequests == Reads \cup Acting

Blank == Row(None, {})
States == {Row(e, {"latitude"}) : e \in {"lamp", "lock", "home"}}
MCAnswers == [name \in MCCommands |->
  CASE name \in {"get_states", "history/stream", "GET /api/history/period", "GET /api/text"} -> States
    [] name = "logbook/get_events" -> {[Row("lamp", {}) EXCEPT !.cause = "lock"], Row("lock", {})}
    [] name = "subscribe_events" ->
         {Row("lock", {"latitude"}), [Blank EXCEPT !.app = "denial"],
          [Blank EXCEPT !.holder = <<"device", "door">>, !.listed = {"lamp"}]}
    [] name = "search/related" ->
         {Row("home", {})} \cup {[Blank EXCEPT !.holder = <<"area", a>>] : a \in {"hall", "attic"}}
    [] name = "render_template" ->
         {[Blank EXCEPT !.read = [all |-> FALSE, domains |-> {"light"}]],
          [Blank EXCEPT !.read = [all |-> FALSE, domains |-> {}], !.listed = {"lock"}],
          [Blank EXCEPT !.read = [all |-> TRUE, domains |-> {}]]}
    [] name = "get_panels" -> {[Blank EXCEPT !.app = app] : app \in MCApps}
    [] OTHER -> {}]
MCBodies == [name \in MCCommands |->
  CASE name \in {"GET /api/frigate", "GET /api/camera_proxy"} -> "image"
    [] name \in {"GET /api/history/period", "GET /api/text"} -> "large" [] OTHER -> "json"]

MCMemberships ==
  {[e \in MCReal |-> {}],
   [e \in MCReal |-> CASE e = "home" -> {"lights"} [] e = "lights" -> {"lock"} [] OTHER -> {}]}

On(field, grants) == [EmptyPolicy EXCEPT ![field] = grants]
MCDenials == {None, On("entity_ids", "lamp" :> {"control"})}
RO == {"read"}
Pick(options) == {[target |-> "entity_ids", ids |-> {"announcer"}, options |-> options]}
MCSectionValues ==
  [allow |-> {[EmptyPolicy EXCEPT !.all = Keys, !.entity_ids = "lock" :> RO @@ "night" :> RO],
              [On("domains", "light" :> Keys @@ "notify" :> Keys)
                 EXCEPT !.entity_ids = "night" :> Keys @@ "announcer" :> Keys @@ "lock" :> RO]},
   deny |-> {On("device_ids", "door" :> Keys)},
   tiers |-> {[max |-> "admin", allow |-> {}, deny |-> {{"notify.notify"}}]},
   apps |-> {[NewRole.apps EXCEPT !.deny = {{"history"}}],
             [NewRole.apps EXCEPT !.deny = {{"logbook", "terminal"}}, !.dashboards = "family" :> "content"],
             [NewRole.apps EXCEPT !.dashboard_edit = {{"family"}}]},
   attributes |-> {[rules |-> {}, deny |-> {"latitude"}]},
   choices |-> {Pick({"me"}), Pick({"you"})},
   logbook |-> {{[target |-> "entity_ids", ids |-> {"lamp"}]}},
   history |-> {{[target |-> "entity_ids", ids |-> {"lamp"}]}}]

Symmetry == Permutations(Custom)
=============================================================================
