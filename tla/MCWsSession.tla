----------------------------- MODULE MCWsSession -----------------------------
(* WsSession on a small connection: one plain read, one call of the Supervisor, *)
(* the one that mints sessions, one subscription; and a user whose role is       *)
(* unrestricted, allows everything or allows only the plain read and the feed.   *)
EXTENDS WsSession

CONSTANTS get_states, supervisor_addons, supervisor_session, subscribe_entities,
          supported_features,
          nobody, admin, guest

MCCommands == {get_states, supervisor_addons, supervisor_session, subscribe_entities}
MCSupervisorCalls == {supervisor_addons, supervisor_session}
MCFeeds == {subscribe_entities}
MCFewCommands == {supported_features, supervisor_addons, subscribe_entities}
MCFewSupervisorCalls == {supervisor_addons}


MCPolicies == {nobody, admin, guest}
MCFullAccess == {admin}
MCNoFullAccess == {}

MCAllows == [p \in MCPolicies |->
  IF p = guest THEN Commands \ {supervisor_addons, supported_features} ELSE {}]
=============================================================================
