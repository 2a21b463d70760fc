-------------------------------- MODULE Filters --------------------------------
(***************************************************************************)
(* filters.py: what is left of an answer for somebody with the given roles *)
(* and denial.                                                             *)
(*                                                                         *)
(* An answer is a set of rows.  A row is whatever the filter of its        *)
(* command keeps or drops whole: a state, a logbook row, one entity's      *)
(* history, a card, a panel, a rendered template, an event.  The filters   *)
(* are kept by command name, as the decorators of REGISTRY have them, and  *)
(* over REST by path; whatever has none is walked by prune.                *)
(***************************************************************************)
EXTENDS Policy

CONSTANTS
  Unknown,  \* an entity id no policy can name: some entity, not known which
  Probe     \* domain -> an entity id of it no entity has

ASSUME FiltersAssumption ==
  /\ Unknown \in Entities
  /\ \A d \in DOMAIN Probe : Probe[d] \in Entities \ {Unknown} /\ DomainOf[Probe[d]] = d

VARIABLE members  \* what each entity reports as its members

\* The entities there are.
Real == Entities \ ({Unknown} \cup {Probe[d] : d \in DOMAIN Probe})

\* entity: whose row it is.  cause: the entity behind a logbook row.  names: the
\* attributes it carries, or says were removed.  listed: the entities it lists.
\* read: what a rendered template read, [all, domains].  holder: the device,
\* area, floor or label it names, <<kind, id>>.  app: the panel or dashboard, or
\* "denial" if it reports that somebody was refused.
Row(entity, names) ==
  [entity |-> entity, cause |-> None, names |-> names, listed |-> {}, read |-> None,
   holder |-> None, app |-> None]

-------------------------------------------------------------------------------
Readable(held, veto, e) == CheckEntity(held, veto, e, "read")

\* Every rule applies to an entity that is not known, if it applies to all.
Stripped(held, row) ==
  LET e == IF row.entity = None THEN Unknown ELSE row.entity
  IN  [row EXCEPT !.names = {name \in @ : ~AttributeHidden(held, e, name)}]

\* What a reference to an entity or to what holds entities stands for.
StandsFor(kind, id) ==
  CASE kind = "entity" -> {id}
    [] kind = "device" -> {e \in Real : DeviceOf[e] = id}
    [] kind = "area"   -> {e \in Real : AreaFor(e) = id}
    [] kind = "floor"  -> {e \in Real : AreaFor(e) # None /\ FloorOf[AreaFor(e)] = id}
    [] kind = "label"  -> {e \in Real : id \in LabelsFor(e)}

\* Wrong: a member's own members are not reached.
ExpandMembersOnce(entities) == entities \cup UNION {members[e] : e \in entities \cap Real}

ExpandMembers(entities) ==
  LET reach[n \in 0..Cardinality(Real)] ==
        IF n = 0 THEN entities
        ELSE LET nearer == reach[n - 1]
             IN  nearer \cup UNION {members[e] : e \in nearer \cap Real}
  IN  reach[Cardinality(Real)]

\* _container_visible: one readable entity inside is enough, and so is none at
\* all; the members of a group that is inside are inside too, wherever they are.
HolderVisible(held, veto, row) ==
  \/ row.holder = None
  \/ LET inside == ExpandMembers(StandsFor(row.holder[1], row.holder[2]))
     IN  inside = {} \/ \E e \in inside : Readable(held, veto, e)

Prune(held, veto, row) ==
  IF \/ row.entity # None /\ ~Readable(held, veto, row.entity)
     \/ ~HolderVisible(held, veto, row)
  THEN {}
  ELSE {[Stripped(held, row) EXCEPT !.listed = {e \in @ : Readable(held, veto, e)}]}

\* get_states, subscribe_entities, state_changed events.
StateRow(held, veto, row) ==
  IF Readable(held, veto, row.entity) THEN {Stripped(held, row)} ELSE {}

\* An event of some other kind is walked.
EventRow(held, veto, row) ==
  IF row.entity = None THEN Prune(held, veto, row) ELSE StateRow(held, veto, row)

\* One entity's history; a section's grants add to what may be read live.
HistoryRow(held, veto, row) ==
  IF PastAllowed(held, veto, "history", row.entity) THEN {Stripped(held, row)} ELSE {}

LogbookRow(held, veto, row) ==
  IF \A e \in {row.entity, row.cause} \ {None} : PastAllowed(held, veto, "logbook", e)
  THEN {row} ELSE {}

\* A template is withheld when it read anything that may not be read, the
\* entities a domain does not have yet included.
TemplateRow(held, veto, row) ==
  IF /\ row.read # None /\ ~row.read.all
     /\ \A e \in row.listed : Readable(held, veto, e)
     /\ \A d \in row.read.domains :
          \A e \in {Probe[d]} \cup {f \in Real : DomainOf[f] = d} : Readable(held, veto, e)
  THEN {row} ELSE {}

\* Energy sources, devices, statistic ids, media: dropped for any entity they name.
WholeRow(held, veto, row) ==
  IF \A e \in ({row.entity} \ {None}) \cup row.listed : Readable(held, veto, e) THEN {row} ELSE {}

\* search/related: entities by id, and what holds them.
SearchRow(held, veto, row) ==
  IF /\ row.entity = None \/ Readable(held, veto, row.entity)
     /\ HolderVisible(held, veto, row)
  THEN {row} ELSE {}

\* A card: dropped for its entity, its list of entities thinned.
CardRow(held, veto, row) ==
  IF row.entity # None /\ ~Readable(held, veto, row.entity) THEN {}
  ELSE {[row EXCEPT !.listed = {e \in @ : Readable(held, veto, e)}]}

\* get_panels, lovelace/dashboards/list, and the add-ons of the Supervisor.
AppRow(held, row) == IF AppAllowed(held, row.app) THEN {row} ELSE {}

\* A default panel that is hidden gives way to a dashboard that is not.
DefaultRow(held, row) ==
  IF AppAllowed(held, row.app) THEN {row}
  ELSE {[row EXCEPT !.app = IF \E d \in Dashboards : AppAllowed(held, d)
                            THEN CHOOSE d \in Dashboards : AppAllowed(held, d) ELSE None]}

-------------------------------------------------------------------------------
(* REGISTRY and REST_FILTERS. *)

StateCommands == {"get_states", "subscribe_entities", "config/entity_registry/list_for_display"}
HistoryCommands ==
  {"history/history_during_period", "history/stream", "history/statistics_during_period",
   "recorder/statistics_during_period", "GET /api/history/period"}
LogbookCommands == {"logbook/get_events", "logbook/event_stream", "GET /api/logbook"}
TemplateCommands == {"render_template", "template/start_preview"}
WholeCommands ==
  {"energy/get_prefs", "recorder/list_statistic_ids", "recorder/get_statistics_metadata",
   "media_source/browse_media", "media_source/search_media", "media_player/browse_media"}
CardCommands == {"lovelace/config", "GET /api/lovelace/dashboard"}
AppCommands == {"get_panels", "lovelace/dashboards/list"}
DefaultCommands ==
  {"frontend/get_user_data", "frontend/get_system_data",
   "frontend/subscribe_user_data", "frontend/subscribe_system_data"}

\* FilterRegistry.has, which knows the websocket's commands only.  The services,
\* the user's own flags and the catalogues have filters too, not modelled.
RestFiltered == {"GET /api/history/period", "GET /api/logbook", "GET /api/lovelace/dashboard"}
HasFilter(command) ==
  command \in (StateCommands \cup HistoryCommands \cup LogbookCommands \cup TemplateCommands
                 \cup WholeCommands \cup CardCommands \cup AppCommands \cup DefaultCommands
                 \cup {"subscribe_events", "search/related"}) \ RestFiltered

FilteredRow(held, veto, command, row) ==
  CASE command \in StateCommands      -> StateRow(held, veto, row)
    [] command \in HistoryCommands    -> HistoryRow(held, veto, row)
    [] command \in LogbookCommands    -> LogbookRow(held, veto, row)
    [] command \in TemplateCommands   -> TemplateRow(held, veto, row)
    [] command \in WholeCommands      -> WholeRow(held, veto, row)
    [] command \in CardCommands       -> CardRow(held, veto, row)
    [] command \in AppCommands        -> AppRow(held, row)
    [] command \in DefaultCommands    -> DefaultRow(held, row)
    [] command = "subscribe_events"   -> EventRow(held, veto, row)
    [] command = "search/related"     -> SearchRow(held, veto, row)
    [] OTHER                          -> Prune(held, veto, row)

\* External: what the rows of an answer fill in; a row of an event about no
\* entity is walked like the rest.
Fills(command, row) ==
  CASE command \in StateCommands \cup HistoryCommands    -> {"entity", "names"}
    [] command \in LogbookCommands                       -> {"entity", "cause"}
    [] command \in TemplateCommands                      -> {"listed", "read"}
    [] command \in WholeCommands \cup CardCommands       -> {"entity", "listed"}
    [] command \in AppCommands \cup DefaultCommands      -> {"app"}
    [] command = "search/related"                        -> {"entity", "holder"}
    [] command = "subscribe_events" /\ row.entity # None -> {"entity", "names"}
    [] OTHER                                  -> {"entity", "names", "listed", "holder"}

\* A state is some entity's, and only devices, areas, floors and labels hold any.
WellFormed(command, row) ==
  /\ DOMAIN row = DOMAIN Row(None, {})
  /\ row.app = "denial" \/
       /\ \A field \in DOMAIN row \ Fills(command, row) : row[field] = Row(None, {})[field]
       /\ command \in StateCommands \cup HistoryCommands => row.entity # None
       /\ row.holder # None => row.holder[1] \in {"device", "area", "floor", "label"}

\* A refusal of anybody is reported to nobody who is filtered (filter_event).
Filtered(held, veto, command, answer) ==
  UNION {FilteredRow(held, veto, command, row) : row \in {r \in answer : r.app # "denial"}}
=============================================================================
