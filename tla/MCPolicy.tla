------------------------------- MODULE MCPolicy -------------------------------
(* Policy over a house with a lamp and a spot on one device in the kitchen,   *)
(* the spot itself put in the hall, and a lock of neither.                    *)
EXTENDS Policy, TLC

MCEntities == {"lamp", "spot", "lock"}
MCDomainOf == [e \in MCEntities |-> IF e = "lock" THEN "lock" ELSE "light"]
MCDeviceOf == [e \in MCEntities |-> IF e = "lock" THEN None ELSE "hub"]
MCAreaOf == [e \in MCEntities |-> IF e = "spot" THEN "hall" ELSE None]
MCLabelsOf == [e \in MCEntities |-> IF e = "lamp" THEN {} ELSE {"night"}]
MCDeviceArea == [d \in {"hub"} |-> "kitchen"]
MCDeviceLabels == [d \in {"hub"} |-> {"eco"}]
MCFloorOf == [a \in {"kitchen", "hall"} |-> "ground"]

MCCommands == {"get_states", "lovelace/config/save", "persistent_notification/get", "auth/sign_path"}
MCCapabilities == {"dashboards", "notifications"}
MCCapabilityPatterns ==
  [dashboards |-> {{"lovelace/config/save"}}, notifications |-> {{"persistent_notification/get"}}]
MCBaselineDeny == {{"auth/sign_path"}}
MCApps == {"history", "family"}

RO == {"read"}
On(field, grants) == [EmptyPolicy EXCEPT ![field] = grants]
All(keys, field, grants) == [On(field, grants) EXCEPT !.all = keys]

AllowValues ==
  {[EmptyPolicy EXCEPT !.all = Keys],
   All(Keys, "entity_ids", "lamp" :> RO), All(RO, "area_ids", "hall" :> Keys),
   All(RO, "label_ids", <<<<"eco", Keys>>, <<"night", {}>>>>),
   [All({}, "domains", "light" :> Keys) EXCEPT !.device_ids = "hub" :> RO],
   [On("floor_ids", "ground" :> Keys) EXCEPT !.area_ids = "kitchen" :> RO]}

DenyValues ==
  {On("domains", "light" :> {"control"}), On("entity_ids", "lock" :> Keys),
   On("device_ids", "hub" :> RO),
   [On("area_ids", "hall" :> Keys) EXCEPT !.entity_ids = "spot" :> RO]}

Tier(max, deny) == [max |-> max, allow |-> {Commands}, deny |-> deny]
App(allow, deny, boards) ==
  [NewRole.apps EXCEPT !.allow = allow, !.deny = deny, !.dashboards = boards]
Rule(target, ids) == [target |-> target, ids |-> ids]
Hide(target, ids) == [target |-> target, ids |-> ids, names |-> {"latitude"}]
Window(days, start, end) == [days |-> days, start |-> start, end |-> end]
Schedule(rules, inline) == [rules |-> rules, inline |-> inline]

MCSectionValues ==
  [allow |-> AllowValues, deny |-> DenyValues,
   tiers |-> {Tier("open", {}), Tier("admin", {}), Tier("admin", {{"get_states"}})},
   capabilities |-> {{"dashboards"}, MCCapabilities},
   apps |-> {App({}, {{"history"}}, <<>>), App({{"history"}}, {}, <<>>), App({}, {MCApps}, <<>>),
             App({}, {}, "family" :> "content"), App({}, {}, "family" :> "control"),
             App({}, {}, "family" :> "empty")},
   attributes |-> {[rules |-> {Hide("domains", {"light"})}, deny |-> {}],
                   [rules |-> {Hide("label_ids", {"night"})}, deny |-> {}],
                   [rules |-> {}, deny |-> {"latitude"}]},
   choices |-> {{[target |-> "area_ids", ids |-> {"hall"}, options |-> {"home"}]}},
   history |-> {{Rule("area_ids", {"hall"})}, {Rule("domains", {})}, {Rule("entity_ids", {"lock"})}},
   schedule |-> {Schedule({Window({1}, 1, 2)}, None), Schedule({Window({1}, 2, 1)}, None),
                 Schedule({Window({0}, None, 2), Window({2}, 3, 1)}, None),
                 Schedule({Window({}, 3, None)}, Window({1}, None, None)),
                 Schedule({}, Window({0, 2}, 2, 2))},
   location |-> {[zones |-> {"home"}, mode |-> "in"], [zones |-> {"home"}, mode |-> "not_in"]}]

Note(entities, apps, capabilities) ==
  [entities |-> entities, apps |-> apps, capabilities |-> capabilities]
MCNoteValues ==
  {Note("lamp" :> "read", {"history"}, {}), Note("lamp" :> "control", {}, {"dashboards"}),
   Note("lock" :> "control" @@ "spot" :> "read", {"family"}, {})}

MCDashboardValues == {{"lamp", "lock"}, {"spot"}}
=============================================================================
