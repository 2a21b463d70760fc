--------------------------------- MODULE Gates ---------------------------------
(***************************************************************************)
(* decide.py, extract.py and catalog.py, and what proxy.py makes of the    *)
(* decision: which requests reach Home Assistant, what they may do there   *)
(* and what of the answer comes back.                                      *)
(*                                                                         *)
(* A request has a name (the command, or method and route), references to  *)
(* entities and to what holds them, each with where it stands, and the     *)
(* services it calls.  While a recording covers the user every request     *)
(* passes unfiltered (RoleStore, WsSession); here is what it notes.        *)
(* Roles change as in Policy, groups gain and lose members, and the        *)
(* catalogue learns of commands some time after they are registered.       *)
(*                                                                         *)
(* What Home Assistant does with a request is external: it resolves what   *)
(* the request names, the labels of areas included, passes a call to a     *)
(* group on to its members, runs the script a service is named after, and  *)
(* answers with whatever rows it pleases.                                  *)
(***************************************************************************)
EXTENDS Filters

CONSTANTS
  Requests,      \* bound: what is asked
  Guard,         \* name -> how its handler is gated: "open", "user", "admin" or
                 \*   "inline" (an administrator's, by a check in the body)
  Late,          \* names registered after the first build of the catalogue
  Writes,        \* names with a verb of WRITE_PATTERN, or a method that writes
  Files,         \* names answered off disk, or left to Home Assistant to refuse
  AppOf,         \* name -> the app whose namespace it is in, or None
  AddOns,        \* the apps that are add-ons
  ConfigPanel,   \* the app whose namespace is everybody's
  Spelling,      \* service -> <<domain, service>>
  AdminServices, \* services registered for administrators, or not at all
  LogServices,   \* services that write a log line and no more
  Behind,        \* service -> the entity it is named after, or None
  All, Template, \* in an id's place: every entity, or text to be rendered; None
                 \*   there is the sentinel for no entity, and an empty list
  AreaLabels,    \* area -> the labels it carries
  Memberships,   \* bound: what groups may contain
  Answers,       \* bound: name -> the rows Home Assistant may answer with
  Bodies,        \* route -> the kind of body it answers with
  Denials        \* bound: the denials somebody may be under, None among them

ASSUME GatesAssumption ==
  /\ Late \subseteq DOMAIN Guard
  /\ None \in Denials /\ AddOns \subseteq Apps /\ All \notin Entities /\ Template \notin Entities
  /\ \A m \in Memberships : m \in [Real -> SUBSET Real]
  /\ \A e \in Real : AreaFor(e) \in DOMAIN AreaLabels \cup {None}
  /\ IsFiniteSet(Entities) /\ "denial" \notin Apps /\ None \notin GrantSections \cup Entities

Sentinels == {All, Template, None}

\* What a request is.  A reference stands in the body as what a call targets
\* (`target`, `service_data.entity_id`, over REST a key at the top), under any
\* other resource key, as text, or loosely, anywhere and under no such key; or in
\* the route, under a name of its own or not, or in the query.  seen: the walk
\* that collects it comes that far; cut: the walk of the resource keys stops
\* early, at its depth or its number of nodes; deep: the body nests too deeply
\* for those that look for services and attributes, lists under a key included.
\* The walk for loose mentions counts more nodes and stops without a word.  A
\* body comes over the websocket or with a method that writes, and a websocket
\* command that calls a service holds it.
ASSUME RequestsAssumption ==
  \A req \in Requests :
    /\ req.kind \in {"ws", "http"} /\ req.name \in DOMAIN Answers
    /\ \A r \in req.refs :
         /\ r.at \in {"target", "key", "text", "loose", "path", "query", "segment"}
         /\ r.at \in {"target", "key", "text", "loose"} => req.kind = "ws" \/ req.name \in Writes
         /\ r.at \in {"target", "key", "text"} /\ ~r.seen => req.cut
         /\ r.at \in {"path", "query", "segment"} => req.kind = "http" /\ r.seen
         /\ r.at \in {"loose", "segment"} => r.kind = "entity"
         /\ r.at \in {"loose", "segment", "path", "query"} => r.id \notin Sentinels
         /\ r.at = "text" => r.id = Template
         /\ r.id \in {All, None} => r.kind = "entity"
    /\ req.called \in DOMAIN Behind \cup {None} /\ req.calls \subseteq DOMAIN Behind
    /\ IF req.kind = "ws" THEN req.called \in req.calls \cup {None}
       ELSE /\ req.name \in DOMAIN Bodies
            /\ req.calls # {} \/ req.called # None => req.name \in Writes

\* Services are named after scripts and notifiers, not after selects, and those
\* are not for administrators only; what writes answers with no image.
ASSUME AnswersAssumption ==
  /\ \A c \in DOMAIN Behind : Behind[c] # None =>
       DomainOf[Behind[c]] \notin {"input_select", "select"} /\ c \notin AdminServices
  /\ \A name \in Writes : name \in DOMAIN Bodies => Bodies[name] # "image"
  /\ \A name \in DOMAIN Answers : \A row \in Answers[name] : WellFormed(name, row)

VARIABLES
  catalog,     \* the late names the catalogue knows by now
  degraded     \* introspection_works failed at the last rebuild

house == <<members, catalog, degraded>>
gvars == <<vars, house>>

-------------------------------------------------------------------------------
(* catalog.py *)

Known(name) == name \in DOMAIN Guard /\ (name \in Late => name \in catalog)

\* derive_tier, and gates_on_admin where no decorator says.
DeriveTier(name) == IF Guard[name] = "inline" THEN "admin" ELSE Guard[name]

\* tier_for, tier_for_request: what is not known is the administrators'.
TierFor(req) ==
  CASE Known(req.name) /\ Guard[req.name] = "inline" /\ req.exempt -> "open"
    [] Known(req.name) /\ ~(Guard[req.name] = "inline" /\ req.exempt) -> DeriveTier(req.name)
    [] ~Known(req.name) -> IF req.name \in Files THEN "open" ELSE "admin"

-------------------------------------------------------------------------------
(* extract.py, expand_to_entities *)

\* What the walk collects before it stops, and what the route and the query name.
\* Text to be rendered and the sentinels name nothing.
Extracted(req) ==
  {r \in req.refs : r.at \in {"target", "key", "path", "query"} /\ r.seen /\ r.id \notin Sentinels}

Unbounded(req) == \E r \in req.refs : r.id = All /\ r.seen
Templated(req) == \E r \in req.refs : r.id = Template /\ r.seen

Bounded(req) == ~Unbounded(req) /\ ~Templated(req) /\ ~req.cut /\ Extracted(req) # {}

ExpandToEntities(refs) == ExpandMembers(UNION {StandsFor(r.kind, r.id) : r \in refs})

\* entity_ids_in: any string that names an entity, wherever it stands before the
\* walk stops.  Those under a resource key are extracted already.
Mentioned(req) == {r.id : r \in {s \in req.refs : s.at = "loose" /\ s.seen}} \cap Real
Segments(req) == {r.id : r \in {s \in req.refs : s.at = "segment"}} \cap Real

\* Wrong: a segment of the route that is no resource key is passed over.
JudgedNoSegments(req) == ExpandToEntities(Extracted(req)) \cup Mentioned(req)

Judged(req) == ExpandToEntities(Extracted(req)) \cup Mentioned(req) \cup Segments(req)

InvokesAService(req) == req.deep \/ req.calls # {}

IsMutation(req) ==
  IF req.kind = "http" THEN req.name \in Writes
  ELSE (Known(req.name) /\ req.name \in Writes) \/ InvokesAService(req)

Key(req) == IF IsMutation(req) THEN "control" ELSE "read"

-------------------------------------------------------------------------------
(* The gates, each for whether it refuses. *)

LayoutCommands == UNION CapabilityPatterns["dashboards"]

DashboardEdit(held, req) ==
  /\ req.kind = "ws" /\ req.name \in LayoutCommands /\ req.app # None
  /\ DashboardEditAllowed(held, req.name, req.app)

TierRefuses(held, req) == ~TierAllowed(held, req.name, TierFor(req)) /\ ~DashboardEdit(held, req)

\* The app a request reaches into: by its url path; an add-on by its slug in a
\* Supervisor endpoint; a dashboard by its path over REST; else by namespace,
\* Settings only where something is changed.
AppNamed(app, req) ==
  \/ req.app = app
  \/ app \in AddOns /\ req.endpoint = app
  \/ /\ app \notin AddOns \cup Dashboards
     /\ req.kind = "ws" /\ req.name \in DOMAIN AppOf /\ AppOf[req.name] = app
     /\ app = ConfigPanel => IsMutation(req)

GrantsAnyPast(held, section) == \E role \in held : GrantRules(role, section) # {}

\* Wrong: what one role denies is denied whatever the others allow.
AppRefusesAny(held, req) ==
  \E app \in Apps :
    /\ \E role \in held : ~RolePermitsApp(role, app)
    /\ AppNamed(app, req)
    /\ ~(app \in GrantSections /\ GrantsAnyPast(held, app))

AppRefuses(held, req) ==
  \E app \in Apps :
    /\ AppNamed(app, req) /\ ~AppAllowed(held, app)
    /\ ~(app \in GrantSections /\ GrantsAnyPast(held, app))

HidesAttributes(held) == \E role \in held : HidingRules(role) # {}

AttributesRefuse(held, req) == HidesAttributes(held) /\ (req.attributes \/ req.deep)

\* PAST_GRANTS.
WidenedBy(req) ==
  IF IsMutation(req) THEN None
  ELSE IF req.name \in HistoryCommands THEN "history"
  ELSE IF req.name \in LogbookCommands THEN "logbook" ELSE None

ResourceRefuses(held, veto, req) ==
  \E e \in Judged(req) :
    /\ ~CheckEntity(held, veto, e, Key(req))
    /\ ~(WidenedBy(req) # None /\ PastAllowed(held, veto, WidenedBy(req), e))

SelectDomains == {"input_select", "select"}
Cycling == {"select_next", "select_previous", "select_first", "select_last", "set_options"}

\* The calls a payload makes, the one a REST path is included.
Calls(req) == req.calls \cup ({req.called} \ {None})

SelectServices(req) ==
  {Spelling[c][2] : c \in {d \in Calls(req) : Spelling[d][1] \in SelectDomains}}

ChoiceRefuses(held, req) ==
  LET services == SelectServices(req)
      covered == {e \in Judged(req) : OptionsAllowed(held, e) # None}
  IN  /\ services # {} /\ covered # {}
      /\ \/ services \cap Cycling # {}
         \/ /\ "select_option" \in services
            /\ \E o \in req.options : \E e \in covered : o \notin OptionsAllowed(held, e)

\* A service call that targets nothing, whatever else it names, is bound by the
\* service: an entity it is named after, or the domain, or the administrators.
CallsUntargeted(req) == req.called # None /\ ~\E r \in req.refs : r.at = "target"

RestsOnService(req) == CallsUntargeted(req) /\ ~Bounded(req)

ServiceRefuses(held, veto, req) ==
  LET call == req.called
  IN  IF call \in AdminServices THEN ~TierAllowed(held, call, "admin")
      ELSE \/ ~TierAllowed(held, call, "open")
           \/ Behind[call] # None /\ ~CheckEntity(held, veto, Behind[call], "control")
           \/ /\ Behind[call] = None /\ call \notin LogServices
              /\ ~CheckEntity(held, veto, Probe[Spelling[call][1]], "control")

\* Boundedness: what names nothing, or more than it names, may only be read,
\* and text to be rendered only where the answer says what it read.
BoundRefuses(held, veto, req) ==
  /\ ~Bounded(req)
  /\ IF CallsUntargeted(req) THEN ServiceRefuses(held, veto, req)
     ELSE IsMutation(req) \/ (Templated(req) /\ ~HasFilter(req.name))

\* decide: full access passes unjudged, and else every gate must let it through,
\* the degraded catalogue before all.
Passes(held, veto, req) ==
  \/ HasFullAccess(held, veto)
  \/ /\ ~degraded
     /\ ~TierRefuses(held, req) /\ ~AppRefuses(held, req) /\ ~AttributesRefuse(held, req)
     /\ ~ResourceRefuses(held, veto, req) /\ ~ChoiceRefuses(held, req)
     /\ ~BoundRefuses(held, veto, req)

-------------------------------------------------------------------------------
(* The answer. *)

\* What the decision says the request is about.
Resources(req) ==
  IF RestsOnService(req) THEN {Behind[req.called]} \ {None} ELSE Judged(req)

\* _forward_http, for whoever has no full access: a body that cannot be filtered,
\* because it is too large or not JSON, goes out as it is where the request named
\* what it is about; so does what can hold no state: an image (of what the request
\* names, if of any entity), an error, a file.
Relayed(held, veto, req) ==
  CASE req.kind = "ws" \/ Bodies[req.name] = "json" ->
         Filtered(held, veto, req.name, Answers[req.name])
    [] req.kind = "http" /\ Bodies[req.name] = "large" ->
         IF Resources(req) # {} /\ req.name \notin Files THEN Answers[req.name] ELSE {}
    [] req.kind = "http" /\ Bodies[req.name] \notin {"json", "large"} ->
         {Row(e, {}) : e \in UNION {StandsFor(r.kind, r.id) :
            r \in {s \in req.refs : Bodies[req.name] = "image" /\ s.at \in {"path", "query", "segment"}}}}

\* Wrong: the entity a service is named after is not noted.
NoteTargets(req) ==
  LET noted == ExpandToEntities(Extracted(req)) \cup Mentioned(req)
  IN  [entities |-> [e \in noted |-> Key(req)],
       apps |-> {app \in Apps : AppNamed(app, req)},
       capabilities |-> IF TierFor([req EXCEPT !.exempt = FALSE]) # "admin" THEN {}
                        ELSE {c \in Capabilities : Matches(req.name, CapabilityPatterns[c])}]

\* _observe: what a recording notes of a request.
Note(req) ==
  LET behind == IF req.called = None THEN {} ELSE {Behind[req.called]} \ {None}
      noted == ExpandToEntities(Extracted(req)) \cup Mentioned(req) \cup behind
  IN  [entities |-> [e \in noted |-> Key(req)],
       apps |-> {app \in Apps : AppNamed(app, req)},
       capabilities |-> IF TierFor([req EXCEPT !.exempt = FALSE]) # "admin" THEN {}
                        ELSE {c \in Capabilities : Matches(req.name, CapabilityPatterns[c])}]

-------------------------------------------------------------------------------
GInit ==
  /\ Init
  /\ members \in Memberships
  /\ catalog = {} /\ degraded = FALSE

EditRole ==
  /\ \E r \in Custom, section \in DOMAIN SectionValues :
       \E value \in SectionValues[section] : Save(r, section, value)
  /\ UNCHANGED house

\* External: a group is edited, a speaker joins another.
GroupChanges ==
  /\ members' \in Memberships \ {members}
  /\ UNCHANGED <<vars, catalog, degraded>>

\* On EVENT_COMPONENT_LOADED, with the commands registered by then; the
\* decorators may no longer be recognised.
Rebuild ==
  /\ catalog' \in {known \in SUBSET Late : catalog \subseteq known}
  /\ degraded' \in BOOLEAN
  /\ UNCHANGED <<vars, members>>

GNext ==
  \/ EditRole
  \/ \E d \in Dashboards, entities \in DashboardValues : EditDashboard(d, entities) /\ UNCHANGED house
  \/ GroupChanges
  \/ Rebuild

GSpec == GInit /\ [][GNext]_gvars

-------------------------------------------------------------------------------
(* Properties.  Somebody may hold any of the roles together. *)

Holdings == {{roles[r] : r \in held} : held \in SUBSET Custom}

\* External: what the members of groups, of those and so on come to: the least
\* set that holds the members of all it holds.
PassedOn(entities) ==
  LET closed == {s \in SUBSET Real :
                   entities \cap Real \subseteq s /\ \A g \in s : members[g] \subseteq s}
  IN  {e \in Real : \A s \in closed : e \in s}

Literally(r) == IF r.id \in {All, Template} THEN Real ELSE IF r.id = None THEN {} ELSE StandsFor(r.kind, r.id)

\* External: what Home Assistant resolves a reference to; a label is also the
\* label of areas.
Referenced(r) ==
  Literally(r) \cup
    IF r.kind = "label" THEN {e \in Real : AreaFor(e) # None /\ r.id \in AreaLabels[AreaFor(e)]} ELSE {}

\* External: what a request that acts may reach, in whatever way it names it: by a
\* call to the script it is, as text to be rendered, or beyond where the walks stop.
Acts(req) ==
  IF Calls(req) = {} /\ req.name \notin Writes THEN {}
  ELSE PassedOn({Behind[c] : c \in Calls(req)} \cup UNION {Referenced(r) : r \in req.refs})

\* The part of it the gates answer for.  A call that rests on its service is let
\* through for the service: of what it names only the literal part the walk came
\* to is looked at, and the entity the service is named after.  What is mentioned
\* loosely, or by a segment of the route, is looked at where the walk comes to it,
\* and not what it passes on.
AnsweredFor(req) ==
  LET named     == {r \in req.refs : /\ r.at \notin {"loose", "segment"}
                                     /\ RestsOnService(req) => r.seen /\ r.id \notin {All, Template}}
      mentioned == {r \in req.refs : r.at \in {"loose", "segment"} /\ r.seen}
  IN  PassedOn(UNION {Literally(r) : r \in named}) \cup {r.id : r \in mentioned}
        \cup IF RestsOnService(req) THEN {Behind[req.called]} ELSE {}

\* The only ways in which it is not all of it.
Overlooks(req) ==
  \/ RestsOnService(req)
  \/ \E c \in Calls(req) : Behind[c] # None
  \/ \E r \in req.refs, a \in DOMAIN AreaLabels : r.kind = "label" /\ r.id \in AreaLabels[a]
  \/ \E r \in req.refs :
       r.at \in {"loose", "segment"} /\ (~r.seen \/ (r.id \in Real /\ members[r.id] # {}))

\* The options a request may leave a select on.
Leaves(req) ==
  IF SelectServices(req) \cap Cycling # {} THEN Choices
  ELSE IF "select_option" \in SelectServices(req) THEN req.options ELSE {}

\* Whatever passes, by whatever gate, reaches nothing the person holding the
\* roles may not control, through groups of groups, areas, devices, labels or the
\* parts of a route, and leaves no select where their roles may not put it, but
\* for full access and for what Overlooks lists: what is behind the label of an
\* area, a script called beside other things, a mention past the end of the walk
\* or of a group, and what a call names that its service alone answers for, where
\* the service is one they may call.  A websocket command the catalogue does not
\* know takes the administrators' tier, and is not seen to act unless it calls
\* something.
OnlyPermittedActs ==
  \A req \in Requests :
    LET reached == Acts(req)
        answered == AnsweredFor(req)
        unseen == req.kind = "ws" /\ ~Known(req.name) /\ ~InvokesAService(req)
    IN  \A held \in Holdings, veto \in Denials :
          (reached # {} /\ ~HasFullAccess(held, veto) /\ Passes(held, veto, req)) =>
            IF unseen
            THEN \/ TierAllowed(held, req.name, "admin") \/ req.name \in Files
                 \/ DashboardEdit(held, req)
            ELSE /\ \A e \in reached :
                      \/ e \notin answered /\ Overlooks(req)
                      \/ /\ CheckEntity(held, veto, e, "control")
                         /\ DomainOf[e] \in SelectDomains /\ OptionsAllowed(held, e) # None
                              => Leaves(req) \subseteq OptionsAllowed(held, e)
                 /\ RestsOnService(req) => ~ServiceRefuses(held, veto, req)

\* What a request asks about: what its body, route and query name or mention, as
\* far as the walks come, and what its service is named after where it rests on it.
AsksAbout(req) ==
  (IF RestsOnService(req) THEN {Behind[req.called]} \ {None} ELSE {})
    \cup UNION {StandsFor(r.kind, r.id) : r \in {s \in req.refs : s.seen /\ s.id \notin Sentinels}}

\* Whatever comes back says nothing of an entity they may not read, or whose
\* recorded past they may not, nothing of a withheld attribute, of a device or
\* area they may see nothing in (nor through a group in it), of a hidden app, or
\* of who else was refused, but for bodies that cannot be filtered: those come
\* back whole, attributes and all, and only where the request asks about
\* something, all of which they may read, or control if it acts.
OnlyPermittedShown ==
  \A held \in Holdings, veto \in Denials :
    LET readable == {e \in Real : CheckEntity(held, veto, e, "read")}
        past == [section \in GrantSections |-> {e \in Real : PastAllowed(held, veto, section, e)}]
    IN  HasFullAccess(held, veto) \/
        \A req \in {r \in Requests : Passes(held, veto, r)} :
          LET shown == readable \cup CASE req.name \in HistoryCommands -> past["history"]
                                       [] req.name \in LogbookCommands -> past["logbook"]
                                       [] OTHER -> {}
              whole == req.kind = "http" /\ Bodies[req.name] = "large"
          IN
          \A row \in Relayed(held, veto, req) :
            IF whole
            THEN /\ AsksAbout(req) # {}
                 /\ \A e \in AsksAbout(req) \cap Real :
                      IF req.name \in Writes THEN CheckEntity(held, veto, e, "control") ELSE e \in shown
            ELSE /\ (({row.entity, row.cause} \ {None}) \cup row.listed) \cap Real \subseteq shown
                 /\ row.read # None =>
                      ~row.read.all /\ {e \in Real : DomainOf[e] \in row.read.domains} \subseteq readable
                 /\ row.entity \in Real =>
                      \A name \in row.names : ~AttributeHidden(held, row.entity, name)
                 /\ row.holder # None =>
                      LET inside == PassedOn(StandsFor(row.holder[1], row.holder[2]))
                      IN  inside = {} \/ inside \cap readable # {}
                 /\ row.app # None => row.app # "denial" /\ AppAllowed(held, row.app)

\* One more role never takes away a request that passed, unless it is one that
\* withholds attributes or options (OptionsAllowed: "adding a role would never
\* take a permission away").
RolesOnlyAdd ==
  \A held \in Holdings, r \in Custom, veto \in Denials, req \in Requests :
    (/\ HidingRules(roles[r]) = {} /\ ChoiceRules(roles[r]) = {}
     /\ roles[r] \notin held /\ Passes(held, veto, req))
      => Passes(held \cup {roles[r]}, veto, req)

\* A role recorded while a request was made lets it through once the recording
\* is applied, as far as entities and apps go, but for what the role denies, for
\* calls that name no entity and for entities only a segment of the route names.
RecordingLetsThrough ==
  \A r \in Custom, req \in Requests :
    LET after == {Validated(Applied(roles[r], Note(req)))}
    IN  /\ ResourceRefuses(after, None, req) =>
             \/ \E e \in Judged(req) : Denied(roles[r].deny, e, Key(req))
             \/ Segments(req) # {}
        /\ AppRefuses(after, req) => \E g \in roles[r].apps.deny : \E a, b \in g : a # b
        /\ (CallsUntargeted(req) /\ Behind[req.called] # None /\ req.called \notin AdminServices
             /\ TierAllowed(after, req.called, "open") /\ ServiceRefuses(after, None, req))
             => Denied(roles[r].deny, Behind[req.called], "control")
=============================================================================
