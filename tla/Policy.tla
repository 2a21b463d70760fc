-------------------------------- MODULE Policy --------------------------------
(***************************************************************************)
(* policy.py and record.apply: what a role says, and what it comes to.     *)
(*                                                                         *)
(* A role's allow and deny side name entities directly, by device, area,   *)
(* floor, label or domain, or all at once.  Areas, floors and labels are   *)
(* folded into entity ids ("desugared"); the allow side is then read most  *)
(* specific first, the deny side as a union.  Beside them stand the tier   *)
(* globs, the apps, the rules on attributes, options and recorded past,    *)
(* the schedule and the location.                                          *)
(*                                                                         *)
(* A glob is the set of names it matches.  The registries do not change    *)
(* here (RoleStore has what happens when they do).  A role changes section *)
(* by section as the panel saves it, or by what a recording noted; a       *)
(* dashboard changes whenever somebody edits it.                           *)
(***************************************************************************)
EXTENDS Naturals, Sequences, FiniteSets

CONSTANTS
  Entities,       \* entity ids
  DomainOf,       \* registries: the domain of an entity,
  DeviceOf,       \*   its device, None if it has none,
  AreaOf,         \*   the area it is assigned itself, None if none,
  LabelsOf,       \*   the labels it carries itself,
  DeviceArea,     \*   the area of a device,
  DeviceLabels,   \*   the labels of a device,
  FloorOf,        \*   the floor of an area
  Commands,       \* what the tier gate is asked about
  Capabilities,   \* the named capabilities, and the globs each stands for
  CapabilityPatterns,
  WithheldUnlessGranted, \* the capabilities open to all unless withheld
  BaselineDeny,   \* the globs no role may run
  Apps,           \* url paths of the panels and dashboards
  Dashboards,     \* those that are dashboards
  Attributes,     \* attribute names
  Choices,        \* the options of selects
  Zones,          \* where a person can be
  WeekDays,       \* bound: days in the week
  DayMinutes,     \* bound: minutes in the day
  Custom,         \* the roles an administrator made
  SectionValues,  \* bound: section -> the values it is edited to
  NoteValues,     \* bound: what a recording may have noted
  DashboardValues,\* bound: what a dashboard may be edited to show
  MaxEdits,       \* bound: how often roles and dashboards are edited
  Whole,          \* a policy that is the bare True
  None            \* no device, no area, no time of day, no opinion

Keys == {"read", "control"}
TierOrder == [open |-> 0, user |-> 1, admin |-> 2]
GrantSections == {"history", "logbook"}

ASSUME PolicyAssumption ==
  /\ Dashboards \subseteq Apps
  /\ WithheldUnlessGranted \subseteq Capabilities
  /\ BaselineDeny \subseteq SUBSET Commands
  /\ CapabilityPatterns \in [Capabilities -> SUBSET SUBSET Commands]
  /\ WeekDays \in Nat \ {0} /\ DayMinutes \in Nat \ {0} /\ MaxEdits \in Nat
  /\ \A keys \in SUBSET Keys : keys # None
  /\ None \notin Nat

VARIABLES
  roles,   \* Custom -> the stored role
  shows,   \* dashboard -> the entities it shows
  edits    \* how often something was edited

vars == <<roles, shows, edits>>

-------------------------------------------------------------------------------
(* Entity policies. *)

EmptyPolicy ==
  [all |-> {}, entity_ids |-> <<>>, device_ids |-> <<>>, area_ids |-> <<>>,
   domains |-> <<>>, floor_ids |-> <<>>, label_ids |-> <<>>]

\* The bare True is no mapping.
ASSUME WholeAssumption == EmptyPolicy # Whole

\* What a mapping of targets to grants says of one target.
Opinion(grants, target) ==
  IF target \in DOMAIN grants THEN grants[target] ELSE None

First(opinions) ==
  LET named == {i \in DOMAIN opinions : opinions[i] # None}
  IN  IF named = {} THEN None
      ELSE opinions[CHOOSE i \in named : \A j \in named : i <= j]

\* An entity without an area of its own is where its device is.
AreaFor(e) ==
  IF AreaOf[e] # None \/ DeviceOf[e] = None THEN AreaOf[e] ELSE DeviceArea[DeviceOf[e]]

LabelsFor(e) ==
  LabelsOf[e] \cup (IF DeviceOf[e] = None THEN {} ELSE DeviceLabels[DeviceOf[e]])

\* Labels are folded in the order the role lists them, each a <<label, grant>>.
LabelOpinion(p, e) ==
  First([i \in DOMAIN p.label_ids |->
           IF p.label_ids[i][1] \in LabelsFor(e) THEN p.label_ids[i][2] ELSE None])

\* desugar: the entity's own entry, or its area's, or its floor's, or a label's.
EntityOpinion(p, e) ==
  LET a == AreaFor(e)
  IN  First(<<Opinion(p.entity_ids, e), Opinion(p.area_ids, a),
              IF a = None THEN None ELSE Opinion(p.floor_ids, FloorOf[a]),
              LabelOpinion(p, e)>>)

\* _EXCEPTION_LEVELS after desugaring, most specific first.
ExceptionLevels(p, e) ==
  <<EntityOpinion(p, e), Opinion(p.device_ids, DeviceOf[e]), Opinion(p.domains, DomainOf[e])>>

Exception(p, e) == First(ExceptionLevels(p, e))

\* compile_capped_entities: the first level that names the entity is the answer.
Allowed(p, e, key) ==
  \/ p = Whole
  \/ LET named == Exception(p, e)
     IN  key \in IF named = None THEN p.all ELSE named

\* compile_caps: an exception names the entity and withholds the key.
Withheld(p, e, key) ==
  /\ p # Whole
  /\ Exception(p, e) # None
  /\ key \notin Exception(p, e)

\* External: compile_entities, where a key no level grants falls through.
Denied(p, e, key) ==
  \/ p = Whole
  \/ key \in p.all
  \/ LET levels == ExceptionLevels(p, e)
     IN  \E i \in 1..3 : levels[i] # None /\ key \in levels[i]

-------------------------------------------------------------------------------
(* Rules: a target kind, ids, and what the rule is about. *)

\* Domains and entity ids are matched as they are; the rest goes through
\* desugar as a level of `entities`, which only folds areas into entity ids.
Resolves(target, ids, e) ==
  CASE target = "domains"    -> DomainOf[e] \in ids
    [] target = "entity_ids" -> e \in ids
    [] target = "area_ids"   -> AreaFor(e) \in ids
    [] OTHER                 -> FALSE

\* No ids: an attribute or choice rule covers everything, a grant nothing.
Covers(rule, e) == rule.ids = {} \/ Resolves(rule.target, rule.ids, e)
Grants(rule, e) == rule.ids # {} /\ Resolves(rule.target, rule.ids, e)

\* A rule that hides no name, or permits no option, is dropped.
AttributeRules(role) ==
  {[target |-> "domains", ids |-> {}, names |-> role.attributes.deny]} \cup role.attributes.rules
HidingRules(role) == {r \in AttributeRules(role) : r.names # {}}
ChoiceRules(role) == {r \in role.choices : r.options # {}}
GrantRules(role, section) == {r \in role[section] : r.ids # {}}

-------------------------------------------------------------------------------
(* One compiled role. *)

Matches(name, globs) == \E g \in globs : name \in g

\* A ceiling of "open" could not start a frontend; it is read as "user".
TierCeiling(tier) == IF tier = "open" THEN "user" ELSE tier

\* The retired dashboard level counts as the one below it.
DashboardLevel(level) == IF level = "control" THEN "content" ELSE level

TierMax(role) == TierCeiling(role.tiers.max)

TierAllow(role) ==
  role.tiers.allow \cup UNION {CapabilityPatterns[c] : c \in role.capabilities \cap Capabilities}

TierDeny(role) ==
  BaselineDeny \cup role.tiers.deny \cup
    (IF TierMax(role) = "admin" THEN {}
     ELSE UNION {CapabilityPatterns[c] : c \in WithheldUnlessGranted \ role.capabilities})

\* Wrong: the retired level still hands out control.
GrantedByAnyDashboard(role, e, key) ==
  \E d \in DOMAIN role.apps.dashboards : role.apps.dashboards[d] # "empty" /\ e \in shows[d]

GrantedByADashboard(role, e, key) ==
  /\ key # "control"
  /\ \E d \in DOMAIN role.apps.dashboards :
       DashboardLevel(role.apps.dashboards[d]) # "empty" /\ e \in shows[d]

\* Wrong: what is allowed is allowed whatever is denied.
CheckAllowFirst(role, e, key) ==
  \/ Allowed(role.allow, e, key)
  \/ ~Denied(role.deny, e, key) /\ GrantedByADashboard(role, e, key)

Check(role, e, key) ==
  /\ ~Denied(role.deny, e, key)
  /\ \/ Allowed(role.allow, e, key)
     \/ GrantedByADashboard(role, e, key) /\ ~Withheld(role.allow, e, key)

RolePermitsTier(role, command, tier) ==
  /\ ~Matches(command, TierDeny(role))
  /\ \/ Matches(command, TierAllow(role))
     \/ TierOrder[TierMax(role)] >= TierOrder[tier]

RolePermitsApp(role, app) ==
  /\ ~Matches(app, role.apps.deny)
  /\ role.apps.allow = {} \/ Matches(app, role.apps.allow)

\* Wrong: the targeted attribute rules are overlooked.
FullAccessRules(role) ==
  /\ role.allow = Whole /\ role.deny = EmptyPolicy
  /\ TierMax(role) = "admin" /\ Commands \in TierAllow(role) /\ role.tiers.deny = {}
  /\ role.apps.deny = {} /\ role.apps.allow = {} /\ role.apps.dashboards = <<>>
  /\ role.attributes.deny = {}
  /\ \A section \in GrantSections : GrantRules(role, section) = {}

FullAccess(role) ==
  /\ role.allow = Whole /\ role.deny = EmptyPolicy
  /\ TierMax(role) = "admin" /\ Commands \in TierAllow(role) /\ role.tiers.deny = {}
  /\ role.apps.deny = {} /\ role.apps.allow = {} /\ role.apps.dashboards = <<>>
  /\ HidingRules(role) = {}
  /\ \A section \in GrantSections : GrantRules(role, section) = {}

-------------------------------------------------------------------------------
(* Schedule and location. *)

Minutes == 0..(DayMinutes - 1)
Days == 0..(WeekDays - 1)
Yesterday(day) == (day + WeekDays - 1) % WeekDays

\* A missing end is midnight, and so is a missing start.
Midnight(minute) == IF minute = None THEN 0 ELSE minute

\* Wrong: the tail of a window through midnight counts as the new day's.
WindowActiveToday(w, day, minute) ==
  LET s == Midnight(w.start)  e == Midnight(w.end)
  IN  /\ s = e \/ (s < e /\ s <= minute /\ minute < e) \/ (s > e /\ (minute >= s \/ minute < e))
      /\ w.days = {} \/ day \in w.days

WindowActive(w, day, minute) ==
  LET s == Midnight(w.start)
      e == Midnight(w.end)
      tail == s > e /\ minute < e
      opened == IF tail THEN Yesterday(day) ELSE day
  IN  /\ s = e \/ (s <= minute /\ minute < e) \/ (s > e /\ minute >= s) \/ tail
      /\ w.days = {} \/ opened \in w.days

\* The windows of a schedule, the one written in the older shape included.
ScheduleWindows(schedule) ==
  schedule.rules \cup (IF schedule.inline = None THEN {} ELSE {schedule.inline})

ScheduleActive(schedule, day, minute) ==
  \/ ScheduleWindows(schedule) = {}
  \/ \E w \in ScheduleWindows(schedule) : WindowActive(w, day, minute)

\* place: the zones the person is in, None where that cannot be told.
LocationActive(location, place) ==
  \/ location.zones = {}
  \/ /\ place # None
     /\ (location.zones \cap place # {}) = (location.mode = "in")

\* Evaluator.async_permissions: the roles of a user that count now.
InForce(role, day, minute, place) ==
  ScheduleActive(role.schedule, day, minute) /\ LocationActive(role.location, place)

-------------------------------------------------------------------------------
(* The permissions of a user: the union of the roles in force, under the     *)
(* denial that outranks them all (None if the user has none).                *)

CheckEntity(held, veto, e, key) ==
  /\ veto = None \/ ~Denied(veto, e, key)
  /\ \E role \in held : Check(role, e, key)

PastAllowed(held, veto, section, e) ==
  \/ CheckEntity(held, veto, e, "read")
  \/ /\ veto = None \/ ~Denied(veto, e, "read")
     /\ \E role \in held :
          /\ \E rule \in GrantRules(role, section) : Grants(rule, e)
          /\ ~Denied(role.deny, e, "read")

TierAllowed(held, command, tier) == \E role \in held : RolePermitsTier(role, command, tier)

AppAllowed(held, app) == \E role \in held : RolePermitsApp(role, app)

AttributeHidden(held, e, name) ==
  \E role \in held : \E rule \in HidingRules(role) : name \in rule.names /\ Covers(rule, e)

\* None: any option.
OptionsAllowed(held, e) ==
  LET covering == {rule \in UNION {ChoiceRules(role) : role \in held} : Covers(rule, e)}
  IN  IF covering = {} THEN None ELSE UNION {rule.options : rule \in covering}

DashboardEditAllowed(held, command, app) ==
  \E role \in held : ~Matches(command, TierDeny(role)) /\ Matches(app, role.apps.dashboard_edit)

ReportsAsAdmin(held) ==
  /\ \E role \in held : role.apps.dashboard_edit # {}
  /\ \E role \in held : role.apps.report_as_admin

HasFullAccess(held, veto) == veto = None /\ \E role \in held : FullAccess(role)

-------------------------------------------------------------------------------
(* Roles as they are stored. *)

NewRole ==
  [allow |-> EmptyPolicy, deny |-> EmptyPolicy,
   tiers |-> [max |-> "user", allow |-> {}, deny |-> {}], capabilities |-> {},
   apps |-> [allow |-> {}, deny |-> {}, dashboards |-> <<>>, dashboard_edit |-> {},
             report_as_admin |-> FALSE],
   attributes |-> [rules |-> {}, deny |-> {}], choices |-> {}, history |-> {}, logbook |-> {},
   schedule |-> [rules |-> {}, inline |-> None], location |-> [zones |-> {}, mode |-> "in"]]

\* What ROLE_SCHEMA takes: a policy is the bare True or grants to targets, a
\* ceiling is a tier, a dashboard has a level, a window opens and closes at a
\* minute of the day or at none.
GrantsKeys(grants) == \A target \in DOMAIN grants : grants[target] \in SUBSET Keys

IsPolicy(p) ==
  \/ p = Whole
  \/ /\ DOMAIN p = DOMAIN EmptyPolicy
     /\ p.all \in SUBSET Keys
     /\ \A field \in DOMAIN p \ {"all", "label_ids"} : GrantsKeys(p[field])

IsRole(role) ==
  /\ DOMAIN role = DOMAIN NewRole
  /\ IsPolicy(role.allow) /\ IsPolicy(role.deny)
  /\ role.tiers \in [max : DOMAIN TierOrder, allow : SUBSET SUBSET Commands,
                     deny : SUBSET SUBSET Commands]
  /\ DOMAIN role.apps = DOMAIN NewRole.apps
  /\ \A d \in DOMAIN role.apps.dashboards :
       role.apps.dashboards[d] \in {"empty", "content", "control"}
  /\ \A w \in ScheduleWindows(role.schedule) :
       w \in [days : SUBSET Days, start : Minutes \cup {None}, end : Minutes \cup {None}]

\* A section is edited to what the schema takes for it, and a recording notes a
\* key of an entity.
ASSUME ValuesAssumption ==
  /\ \A section \in DOMAIN SectionValues :
       /\ section \in DOMAIN NewRole
       /\ \A value \in SectionValues[section] : IsRole([NewRole EXCEPT ![section] = value])
  /\ \A note \in NoteValues : \A e \in DOMAIN note.entities : note.entities[e] \in Keys
  /\ DashboardValues \subseteq SUBSET Entities

\* The predefined roles other than the administrator grant every entity.
Predefined(keys, capabilities) ==
  [NewRole EXCEPT !.allow.all = keys, !.tiers.deny = BaselineDeny,
                  !.capabilities = capabilities \cap Capabilities]

DefaultRoles ==
  [admin     |-> [NewRole EXCEPT !.allow = Whole,
                                 !.tiers = [max |-> "admin", allow |-> {Commands}, deny |-> {}]],
   editor    |-> Predefined(Keys, {"automations", "scripts", "scenes", "dashboards", "helpers",
                                   "notifications"}),
   user      |-> Predefined(Keys, {"notifications"}),
   read_only |-> Predefined({"read"}, {"notifications"})]

\* Wrong: the retired dashboard level is stored as it was sent.
ValidatedCeiling(role) == [role EXCEPT !.tiers.max = TierCeiling(@)]

\* ROLE_SCHEMA, as far as it changes what it validates.
Validated(role) ==
  [role EXCEPT !.tiers.max = TierCeiling(@),
               !.apps.dashboards = [d \in DOMAIN @ |-> DashboardLevel(@[d])]]

\* Wrong: an entity the role already names keeps its grant.
MergedNew(grants, noted) ==
  [e \in DOMAIN grants \cup DOMAIN noted |->
     IF e \in DOMAIN grants THEN grants[e] ELSE {"read", noted[e]}]

\* record._merged_entities: a recorded entity is granted by name.
Merged(grants, noted) ==
  [e \in DOMAIN grants \cup DOMAIN noted |->
     (IF e \in DOMAIN grants THEN grants[e] ELSE {})
       \cup (IF e \in DOMAIN noted THEN {"read", noted[e]} ELSE {})]

\* record.apply.
Applied(role, note) ==
  LET allow == role.allow
      apps  == role.apps
      added == {{app} : app \in note.apps}
  IN  [role EXCEPT
         !.allow = IF allow = Whole \/ DOMAIN note.entities = {} THEN allow
                   ELSE [allow EXCEPT !.entity_ids = Merged(allow.entity_ids, note.entities)],
         !.apps = [apps EXCEPT !.deny = apps.deny \ added,
                               !.allow = IF apps.allow = {} THEN {} ELSE apps.allow \cup added],
         !.capabilities = @ \cup note.capabilities]

\* record.still_blocked, blocked_apps.
StillBlocked(role, note) ==
  {e \in DOMAIN note.entities : ~Check(role, e, note.entities[e])}
BlockedApps(role, note) == {app \in note.apps : ~RolePermitsApp(role, app)}

\* A role is made blank or cloned from a predefined one.
Init ==
  /\ roles \in [Custom -> {NewRole, DefaultRoles.admin, DefaultRoles.read_only}]
  /\ shows = [d \in Dashboards |-> {}]
  /\ edits = 0

Save(r, section, value) ==
  /\ edits < MaxEdits
  /\ roles' = [roles EXCEPT ![r] = Validated([@ EXCEPT ![section] = value])]
  /\ edits' = edits + 1
  /\ UNCHANGED shows

StopRecording(r, note) ==
  /\ edits < MaxEdits
  /\ roles' = [roles EXCEPT ![r] = Validated(Applied(@, note))]
  /\ edits' = edits + 1
  /\ UNCHANGED shows

\* External to the role: whoever may edit the dashboard changes its cards.
EditDashboard(d, entities) ==
  /\ edits < MaxEdits
  /\ shows' = [shows EXCEPT ![d] = entities]
  /\ edits' = edits + 1
  /\ UNCHANGED roles

Next ==
  \/ \E r \in Custom, section \in DOMAIN SectionValues :
       \E value \in SectionValues[section] : Save(r, section, value)
  \/ \E r \in Custom, note \in NoteValues : StopRecording(r, note)
  \/ \E d \in Dashboards, entities \in DashboardValues : EditDashboard(d, entities)

Spec == Init /\ [][Next]_vars

-------------------------------------------------------------------------------
(* Properties. *)

\* Every stored role has the sections the schema gives it, and only a ceiling
\* and dashboard levels that are still in use (ROLE_SCHEMA).
TypeOK ==
  /\ DOMAIN roles = Custom
  /\ \A r \in Custom :
       /\ IsRole(roles[r])
       /\ roles[r].tiers.max # "open"
       /\ \A d \in DOMAIN roles[r].apps.dashboards : roles[r].apps.dashboards[d] # "control"
  /\ shows \in [Dashboards -> SUBSET Entities]
  /\ edits \in 0..MaxEdits

\* What the deny side says of an entity by its own id, its device, its domain or
\* all, and by its area where its id is not mentioned, no exception, dashboard,
\* recording or grant of the past gives back (the module's comment: "the deny
\* vetoes").
DenialWins ==
  \A r \in Custom, e \in Entities, key \in Keys :
    LET p == roles[r].deny
        says == {Opinion(p.entity_ids, e), Opinion(p.device_ids, DeviceOf[e]),
                 Opinion(p.domains, DomainOf[e]), p.all} \cup
                (IF e \in DOMAIN p.entity_ids THEN {} ELSE {Opinion(p.area_ids, AreaFor(e))})
    IN  (p = Whole \/ \E o \in says \ {None} : key \in o)
          => /\ ~Check(roles[r], e, key)
             /\ key = "read" => \A section \in GrantSections : ~PastAllowed({roles[r]}, None, section, e)

\* Putting an entity on a dashboard gives nobody control of it, and nobody sight
\* of what their role denies or an exception of theirs withholds (the comment on
\* DASHBOARD_CONTROL_LEGACY, and _granted_by_a_dashboard).
DashboardsOnlyShow ==
  [][\A r \in Custom, e \in Entities :
       (roles'[r] = roles[r] /\ shows' # shows) =>
         /\ Check(roles[r], e, "control")' => Check(roles[r], e, "control")
         /\ Check(roles[r], e, "read")' =>
              \/ Check(roles[r], e, "read")
              \/ /\ ~Denied(roles[r].deny, e, "read")
                 /\ roles[r].allow # Whole
                 /\ Exception(roles[r].allow, e) = None]_vars

\* Full access skips every gate, so a role that has it is one no gate would ever
\* refuse: no entity, command, app, attribute or past is kept from it, the
\* commands refused to every role and the options of selects aside.
FullAccessUnrestricted ==
  \A r \in Custom : FullAccess(roles[r]) =>
    /\ \A e \in Entities :
         /\ \A key \in Keys : Check(roles[r], e, key)
         /\ \A name \in Attributes : ~AttributeHidden({roles[r]}, e, name)
    /\ \A c \in Commands : Matches(c, BaselineDeny) \/ RolePermitsTier(roles[r], c, "admin")
    /\ \A app \in Apps : RolePermitsApp(roles[r], app)

\* The minutes a window is open once it has opened, and since when it has been
\* if it opened on day d.
Length(w) ==
  LET m == (Midnight(w.end) + DayMinutes - Midnight(w.start)) % DayMinutes
  IN  IF m = 0 THEN DayMinutes ELSE m
Since(w, d, day, minute) ==
  LET opens == IF Midnight(w.start) = Midnight(w.end) THEN 0 ELSE Midnight(w.start)
      week == WeekDays * DayMinutes
  IN  (week + day * DayMinutes + minute - (d * DayMinutes + opens)) % week

\* A role is in force only while a window runs that opened on one of its days,
\* through midnight and from the last day of the week to the first, exactly then
\* if it is bound to no zone; and losing track of a person puts no role in force
\* that was not, wherever they were ("the day it belongs to is the day it
\* opened", "losing track of someone can only take access away").
InForceOnTheirDay ==
  \A r \in Custom, day \in Days, minute \in Minutes :
    LET windows == ScheduleWindows(roles[r].schedule)
        open == \/ windows = {}
                \/ \E w \in windows, d \in Days :
                     (w.days = {} \/ d \in w.days) /\ Since(w, d, day, minute) < Length(w)
    IN  \A place \in SUBSET Zones :
          /\ InForce(roles[r], day, minute, place) => open
          /\ open /\ roles[r].location.zones = {} => InForce(roles[r], day, minute, place)
          /\ InForce(roles[r], day, minute, None) => InForce(roles[r], day, minute, place)

\* A role that was recorded permits what was recorded, entity by entity and app
\* by app, but for what the role denies; and the answer to record/stop names
\* exactly the entities that stay blocked (record.still_blocked).
RecordingSuffices ==
  [][\A r \in Custom, note \in NoteValues :
       StopRecording(r, note) =>
         /\ \A e \in DOMAIN note.entities :
              (e \in StillBlocked(roles[r], note))' <=> Denied(roles[r].deny, e, note.entities[e])
         /\ \A app \in note.apps :
              (app \in BlockedApps(roles[r], note))' => \E g \in roles[r].apps.deny : app \in g /\ g # {app}
         /\ \A c \in note.capabilities : c \in roles'[r].capabilities]_vars

\* A recording only adds: nothing the role permitted before is refused after
\* (record.apply: "nothing it produces can take access away").
RecordingOnlyWidens ==
  [][\A r \in Custom, note \in NoteValues :
       StopRecording(r, note) =>
         \A e \in Entities, key \in Keys :
           Check(roles[r], e, key) => Check(roles[r], e, key)']_vars
=============================================================================
