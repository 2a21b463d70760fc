----------------------------- MODULE PolicyProofs -----------------------------
(***************************************************************************)
(* What holds of any role over any registries, commands and dashboards,    *)
(* however it is edited or recorded: what is denied stays denied, what     *)
(* full access means, what a dashboard can hand out, when a role counts,   *)
(* and what a recording leaves permitted.                                  *)
(***************************************************************************)
EXTENDS Policy, Integers, TLAPS

-------------------------------------------------------------------------------
(* Levels. *)

\* The first that says something is the answer.
LEMMA FirstOfThree ==
  ASSUME NEW a, NEW b, NEW c
  PROVE  First(<<a, b, c>>) = IF a # None THEN a ELSE IF b # None THEN b ELSE c
<1> DEFINE named == {i \in 1..3 : <<a, b, c>>[i] # None}
           least == CHOOSE i \in named : \A j \in named : i <= j
<1>1. First(<<a, b, c>>) = IF named = {} THEN None ELSE <<a, b, c>>[least]
  BY DEF First
<1>2. /\ 1 \in named <=> a # None
      /\ 2 \in named <=> b # None
      /\ 3 \in named <=> c # None
      /\ named \subseteq {1, 2, 3}
  OBVIOUS
<1> HIDE DEF named
<1>3. ASSUME NEW i \in named, \A j \in named : i <= j PROVE least = i
  <2>1. least \in named /\ \A j \in named : least <= j
    BY <1>3
  <2> HIDE DEF least
  <2>2. QED BY <1>2, <1>3, <2>1
<1> HIDE DEF least
<1>4. CASE a # None
  <2>1. least = 1
    BY <1>2, <1>3, <1>4
  <2>2. QED BY <1>1, <1>2, <1>4, <2>1
<1>5. CASE a = None /\ b # None
  <2>1. least = 2
    BY <1>2, <1>3, <1>5
  <2>2. QED BY <1>1, <1>2, <1>5, <2>1
<1>6. CASE a = None /\ b = None /\ c # None
  <2>1. least = 3
    BY <1>2, <1>3, <1>6
  <2>2. QED BY <1>1, <1>2, <1>6, <2>1
<1>7. CASE a = None /\ b = None /\ c = None
  <2>1. named = {}
    BY <1>2, <1>7
  <2>2. QED BY <1>1, <1>7, <2>1
<1>8. QED BY <1>4, <1>5, <1>6, <1>7

LEMMA FirstOfFour ==
  ASSUME NEW a, NEW b, NEW c, NEW d
  PROVE  /\ a # None => First(<<a, b, c, d>>) = a
         /\ a = None /\ b # None => First(<<a, b, c, d>>) = b
         /\ a = None /\ b = None /\ c = None /\ d = None => First(<<a, b, c, d>>) = None
<1> DEFINE named == {i \in 1..4 : <<a, b, c, d>>[i] # None}
           least == CHOOSE i \in named : \A j \in named : i <= j
<1>1. First(<<a, b, c, d>>) = IF named = {} THEN None ELSE <<a, b, c, d>>[least]
  BY DEF First
<1>2. /\ 1 \in named <=> a # None
      /\ 2 \in named <=> b # None
      /\ 3 \in named <=> c # None
      /\ 4 \in named <=> d # None
      /\ named \subseteq {1, 2, 3, 4}
  OBVIOUS
<1> HIDE DEF named
<1>3. ASSUME NEW i \in named, \A j \in named : i <= j PROVE least = i
  <2>1. least \in named /\ \A j \in named : least <= j
    BY <1>3
  <2> HIDE DEF least
  <2>2. QED BY <1>2, <1>3, <2>1
<1> HIDE DEF least
<1>4. CASE a # None
  <2>1. least = 1
    BY <1>2, <1>3, <1>4
  <2>2. QED BY <1>1, <1>2, <1>4, <2>1
<1>5. CASE a = None /\ b # None
  <2>1. least = 2
    BY <1>2, <1>3, <1>5
  <2>2. QED BY <1>1, <1>2, <1>5, <2>1
<1>6. CASE a = None /\ b = None /\ c = None /\ d = None
  <2>1. named = {}
    BY <1>2, <1>6
  <2>2. QED BY <1>1, <1>6, <2>1
<1>7. QED BY <1>4, <1>5, <1>6

\* An entity's own entry speaks before all, and its area's where it has none.
LEMMA OwnEntryFirst ==
  ASSUME NEW p, NEW e
  PROVE  /\ Opinion(p.entity_ids, e) # None => EntityOpinion(p, e) = Opinion(p.entity_ids, e)
         /\ Opinion(p.entity_ids, e) = None /\ Opinion(p.area_ids, AreaFor(e)) # None
              => EntityOpinion(p, e) = Opinion(p.area_ids, AreaFor(e))
  BY FirstOfFour DEF EntityOpinion

LEMMA LevelsOf ==
  ASSUME NEW p, NEW e
  PROVE  /\ ExceptionLevels(p, e)[1] = EntityOpinion(p, e)
         /\ ExceptionLevels(p, e)[2] = Opinion(p.device_ids, DeviceOf[e])
         /\ ExceptionLevels(p, e)[3] = Opinion(p.domains, DomainOf[e])
         /\ EntityOpinion(p, e) # None => Exception(p, e) = EntityOpinion(p, e)
         /\ /\ EntityOpinion(p, e) = None
            /\ Opinion(p.device_ids, DeviceOf[e]) = None
            /\ Opinion(p.domains, DomainOf[e]) = None
            => Exception(p, e) = None
  BY FirstOfThree DEF ExceptionLevels, Exception

\* A policy that says nothing speaks of no entity.
LEMMA EmptySaysNothing ==
  ASSUME NEW e, NEW key
  PROVE  ~Denied(EmptyPolicy, e, key)
<1> DEFINE p == EmptyPolicy
<1>1. /\ p.all = {} /\ p.entity_ids = <<>> /\ p.device_ids = <<>> /\ p.area_ids = <<>>
      /\ p.domains = <<>> /\ p.floor_ids = <<>> /\ p.label_ids = <<>>
  BY DEF EmptyPolicy
<1>2. \A t : Opinion(<<>>, t) = None
  BY DEF Opinion
<1>3. LabelOpinion(p, e) = None
  BY <1>1 DEF LabelOpinion, First
<1> HIDE DEF p
<1>4. EntityOpinion(p, e) = None
  BY <1>1, <1>2, <1>3, FirstOfFour DEF EntityOpinion
<1>5. \A i \in 1..3 : ExceptionLevels(p, e)[i] = None
  BY <1>1, <1>2, <1>4, LevelsOf
<1>6. p # Whole
  BY WholeAssumption DEF p
<1>7. ~Denied(p, e, key)
  BY <1>1, <1>5, <1>6 DEF Denied
<1>8. QED BY <1>7 DEF p

-------------------------------------------------------------------------------
(* One role. *)

\* What a deny side says of an entity in a place nothing more specific overrides.
Says(p, e) ==
  {Opinion(p.entity_ids, e), Opinion(p.device_ids, DeviceOf[e]),
   Opinion(p.domains, DomainOf[e]), p.all} \cup
  (IF e \in DOMAIN p.entity_ids THEN {} ELSE {Opinion(p.area_ids, AreaFor(e))})

LEMMA SaidIsDenied ==
  ASSUME NEW p, NEW e, NEW key,
         p = Whole \/ \E o \in Says(p, e) \ {None} : key \in o
  PROVE  Denied(p, e, key)
<1>1. CASE p = Whole
  BY <1>1 DEF Denied
<1>2. CASE \E o \in Says(p, e) \ {None} : key \in o
  <2>1. PICK o \in Says(p, e) \ {None} : key \in o
    BY <1>2
  <2>2. CASE o = p.all
    BY <2>1, <2>2 DEF Denied
  <2>3. CASE o = Opinion(p.device_ids, DeviceOf[e]) \/ o = Opinion(p.domains, DomainOf[e])
    <3>1. \E i \in 1..3 : ExceptionLevels(p, e)[i] = o
      BY <2>3, LevelsOf
    <3>2. QED BY <2>1, <3>1 DEF Denied
  <2>4. CASE \/ o = Opinion(p.entity_ids, e)
             \/ e \notin DOMAIN p.entity_ids /\ o = Opinion(p.area_ids, AreaFor(e))
    <3>1. e \notin DOMAIN p.entity_ids => Opinion(p.entity_ids, e) = None
      BY DEF Opinion
    <3>2. EntityOpinion(p, e) = o
      BY <2>1, <2>4, <3>1, OwnEntryFirst
    <3>3. ExceptionLevels(p, e)[1] = o
      BY <3>2, LevelsOf
    <3>4. QED BY <2>1, <3>3 DEF Denied
  <2>5. QED BY <2>1, <2>2, <2>3, <2>4 DEF Says
<1>3. QED BY <1>1, <1>2

\* What is denied is refused, whatever else the role says.
LEMMA DeniedIsRefused ==
  ASSUME NEW role, NEW e, NEW key, Denied(role.deny, e, key)
  PROVE  /\ ~Check(role, e, key)
         /\ key = "read" => \A section : ~PastAllowed({role}, None, section, e)
  BY DEF Check, PastAllowed, CheckEntity

\* A role with full access is one no gate refuses anything.
LEMMA FullAccessRefusesNothing ==
  ASSUME NEW role, FullAccess(role)
  PROVE  /\ \A e, key : Check(role, e, key)
         /\ \A e, name : ~AttributeHidden({role}, e, name)
         /\ \A c \in Commands : Matches(c, BaselineDeny) \/ RolePermitsTier(role, c, "admin")
         /\ \A app : RolePermitsApp(role, app)
<1>1. ASSUME NEW e, NEW key PROVE Check(role, e, key)
  <2>1. ~Denied(role.deny, e, key)
    BY EmptySaysNothing DEF FullAccess
  <2>2. Allowed(role.allow, e, key)
    BY DEF FullAccess, Allowed
  <2>3. QED BY <2>1, <2>2 DEF Check
<1>2. \A e, name : ~AttributeHidden({role}, e, name)
  BY DEF AttributeHidden, FullAccess
<1>3. ASSUME NEW c \in Commands, ~Matches(c, BaselineDeny)
      PROVE  RolePermitsTier(role, c, "admin")
  <2>1. ~Matches(c, TierDeny(role))
    BY <1>3 DEF FullAccess, TierDeny, Matches
  <2>2. Matches(c, TierAllow(role))
    BY <1>3 DEF FullAccess, Matches
  <2>3. QED BY <2>1, <2>2 DEF RolePermitsTier
<1>4. \A app : RolePermitsApp(role, app)
  BY DEF FullAccess, RolePermitsApp, Matches
<1>5. QED BY <1>1, <1>2, <1>3, <1>4

-------------------------------------------------------------------------------
(* The clock. *)

LEMMA ModOnce ==
  ASSUME NEW n \in Nat \ {0}, NEW x \in 0..(2 * n - 1)
  PROVE  x % n = IF x < n THEN x ELSE x - n
  OBVIOUS

LEMMA ModDifference ==
  ASSUME NEW n \in Nat \ {0}, NEW a \in 0..(n - 1), NEW b \in 0..n
  PROVE  (a + n - b) % n = IF a < b THEN a + n - b ELSE a - b
<1> DEFINE x == a + n - b
<1>1. x \in 0..(2 * n - 1) /\ (x < n <=> a < b) /\ x - n = a - b
  OBVIOUS
<1>2. x % n = IF a < b THEN x ELSE a - b
  <2> HIDE DEF x
  <2>1. QED BY <1>1, ModOnce
<1>3. QED BY <1>2

\* Minutes of whole days.
LEMMA DaysOfMinutes ==
  ASSUME NEW n \in Nat, NEW m \in Nat
  PROVE  /\ n * m \in Nat
         /\ n >= 1 => n * m >= m
         /\ n >= 2 => n * m >= 2 * m
         /\ \A k \in Nat : k <= n - 1 => k * m + m <= n * m
         /\ \A k \in Nat : k <= n => (n - k) * m = n * m - k * m
         /\ \A k, w \in Nat : k <= n + w => (n + w - k) * m = n * m + w * m - k * m
  OBVIOUS

LEMMA DayBefore ==
  ASSUME NEW day \in Days
  PROVE  /\ Yesterday(day) \in Days
         /\ Yesterday(day) = IF day = 0 THEN WeekDays - 1 ELSE day - 1
<1>1. WeekDays \in Nat \ {0} /\ day \in 0..(WeekDays - 1)
  BY PolicyAssumption DEF Days
<1>2. (day + WeekDays - 1) % WeekDays = IF day < 1 THEN day + WeekDays - 1 ELSE day - 1
  <2>1. 1 \in 0..WeekDays
    BY <1>1
  <2>2. QED BY <1>1, <2>1, ModDifference
<1>3. QED BY <1>1, <1>2 DEF Yesterday, Days

\* Since a window opened today it has run for less than its length, or since it
\* opened yesterday; otherwise it does not run.
LEMMA RunsSinceTodayOrYesterday ==
  ASSUME NEW day \in Days, NEW d \in Days, NEW minute \in Minutes, NEW opens \in Minutes,
         NEW length \in 1..DayMinutes
  PROVE  (WeekDays * DayMinutes + day * DayMinutes + minute - (d * DayMinutes + opens))
           % (WeekDays * DayMinutes) < length
         <=> \/ d = day /\ opens <= minute /\ minute - opens < length
             \/ d = Yesterday(day) /\ DayMinutes + minute - opens < length
<1> DEFINE week == WeekDays * DayMinutes
           past == IF day >= d THEN day - d ELSE day + WeekDays - d
           x == week + day * DayMinutes + minute - (d * DayMinutes + opens)
<1>1. /\ WeekDays \in Nat \ {0} /\ DayMinutes \in Nat \ {0}
      /\ day \in 0..(WeekDays - 1) /\ d \in 0..(WeekDays - 1)
      /\ minute \in 0..(DayMinutes - 1) /\ opens \in 0..(DayMinutes - 1)
  BY PolicyAssumption DEF Days, Minutes
<1>2. past \in 0..(WeekDays - 1) /\ (past = 0 <=> d = day)
  BY <1>1
<1>3. past * DayMinutes = day * DayMinutes - d * DayMinutes + (IF day >= d THEN 0 ELSE week)
  BY <1>1, DaysOfMinutes
<1>4. /\ week \in Nat /\ week >= DayMinutes /\ (WeekDays >= 2 => week >= 2 * DayMinutes)
      /\ past * DayMinutes \in Nat /\ past * DayMinutes + DayMinutes <= week
      /\ past >= 1 => past * DayMinutes >= DayMinutes
      /\ past >= 2 => past * DayMinutes >= 2 * DayMinutes
      /\ past = 0 => past * DayMinutes = 0
      /\ past = 1 => past * DayMinutes = DayMinutes
  BY <1>1, <1>2, DaysOfMinutes
<1>5. x = (IF day >= d THEN week ELSE 0) + past * DayMinutes + minute - opens
  BY <1>1, <1>3, DaysOfMinutes
<1>6. d = Yesterday(day) <=> (past = 1 \/ (past = 0 /\ WeekDays = 1))
  BY <1>1, DayBefore
<1> DEFINE span == past * DayMinutes
<1>7. /\ week \in Nat \ {0} /\ span \in Nat /\ x \in Int
      /\ x = (IF day >= d THEN week ELSE 0) + span + minute - opens
  BY <1>1, <1>4, <1>5
<1>8. x \in 0..(2 * week - 1)
  <2> HIDE DEF week, x, span
  <2>1. span + DayMinutes <= week /\ week >= DayMinutes
    BY <1>4 DEF span, week
  <2>2. day < d => span >= DayMinutes
    BY <1>1, <1>2, <1>4 DEF span, past
  <2>3. QED BY <1>1, <1>7, <2>1, <2>2
<1>9. x % week = IF x < week THEN x ELSE x - week
  <2> HIDE DEF x, week
  <2>1. QED BY <1>7, <1>8, ModOnce
<1>10. /\ past = 0 => span = 0
       /\ past = 1 => span = DayMinutes
       /\ past >= 2 => span >= 2 * DayMinutes
       /\ span + DayMinutes <= week
       /\ WeekDays = 1 => week = DayMinutes
       /\ WeekDays >= 2 => week >= 2 * DayMinutes
  BY <1>1, <1>4
<1> HIDE DEF x, week, span, past
<1>11. CASE past = 0
  BY <1>1, <1>2, <1>6, <1>7, <1>9, <1>10, <1>11 DEF past
<1>12. CASE past = 1
  BY <1>1, <1>2, <1>6, <1>7, <1>9, <1>10, <1>12 DEF past
<1>13. CASE past >= 2
  BY <1>1, <1>2, <1>6, <1>7, <1>9, <1>10, <1>13 DEF past
<1>14. QED BY <1>2, <1>11, <1>12, <1>13

\* A window is active exactly while it runs since one of its days.
LEMMA ActiveSinceADay ==
  ASSUME NEW w \in [days : SUBSET Days, start : Minutes \cup {None}, end : Minutes \cup {None}],
         NEW day \in Days, NEW minute \in Minutes
  PROVE  WindowActive(w, day, minute)
         <=> \E d \in Days : (w.days = {} \/ d \in w.days) /\ Since(w, d, day, minute) < Length(w)
<1> DEFINE s == Midnight(w.start)
           e == Midnight(w.end)
           opens == IF s = e THEN 0 ELSE s
<1>1. DayMinutes \in Nat \ {0} /\ minute \in 0..(DayMinutes - 1)
  BY PolicyAssumption DEF Minutes
<1>2. s \in 0..(DayMinutes - 1) /\ e \in 0..(DayMinutes - 1)
  BY <1>1 DEF Midnight, Minutes
<1> HIDE DEF s, e
<1>3. Length(w) = IF s = e THEN DayMinutes ELSE IF s < e THEN e - s ELSE e + DayMinutes - s
  <2> DEFINE m == (e + DayMinutes - s) % DayMinutes
  <2>1. s \in 0..DayMinutes
    BY <1>1, <1>2
  <2>2. m = IF e < s THEN e + DayMinutes - s ELSE e - s
    BY <1>1, <1>2, <2>1, ModDifference
  <2>3. Length(w) = IF m = 0 THEN DayMinutes ELSE m
    BY DEF Length, s, e
  <2> HIDE DEF m
  <2>4. QED BY <1>1, <1>2, <2>2, <2>3
<1>4. Length(w) \in 1..DayMinutes /\ opens \in Minutes
  BY <1>1, <1>2, <1>3 DEF Minutes
<1>5. \A d \in Days : Since(w, d, day, minute) < Length(w)
        <=> \/ d = day /\ opens <= minute /\ minute - opens < Length(w)
            \/ d = Yesterday(day) /\ DayMinutes + minute - opens < Length(w)
  <2> SUFFICES ASSUME NEW d \in Days
               PROVE  Since(w, d, day, minute) < Length(w)
        <=> \/ d = day /\ opens <= minute /\ minute - opens < Length(w)
            \/ d = Yesterday(day) /\ DayMinutes + minute - opens < Length(w)
    OBVIOUS
  <2>1. Since(w, d, day, minute) =
          (WeekDays * DayMinutes + day * DayMinutes + minute - (d * DayMinutes + opens))
            % (WeekDays * DayMinutes)
    BY DEF Since, s, e
  <2> HIDE DEF opens
  <2>2. QED BY <1>4, <2>1, RunsSinceTodayOrYesterday
<1>6. opens <= minute /\ minute - opens < Length(w)
        <=> s = e \/ (s <= minute /\ minute < e) \/ (s > e /\ minute >= s)
  BY <1>1, <1>2, <1>3
<1>7. DayMinutes + minute - opens < Length(w) <=> s > e /\ minute < e
  BY <1>1, <1>2, <1>3
<1> DEFINE today == s = e \/ (s <= minute /\ minute < e) \/ (s > e /\ minute >= s)
           tail == s > e /\ minute < e
<1>8. WindowActive(w, day, minute)
        <=> /\ today \/ tail
            /\ w.days = {} \/ (IF tail THEN Yesterday(day) ELSE day) \in w.days
  BY DEF WindowActive, s, e
<1>9. ~(today /\ tail)
  BY <1>1, <1>2
<1> HIDE DEF today, tail, opens
<1>10. \A d \in Days : Since(w, d, day, minute) < Length(w)
         <=> (d = day /\ today) \/ (d = Yesterday(day) /\ tail)
  BY <1>5, <1>6, <1>7 DEF today, tail
<1>11. day \in Days /\ Yesterday(day) \in Days
  BY DayBefore
<1>12. QED BY <1>8, <1>9, <1>10, <1>11

-------------------------------------------------------------------------------
(* What is stored. *)

Stored(role) ==
  /\ IsRole(role)
  /\ role.tiers.max # "open"
  /\ \A d \in DOMAIN role.apps.dashboards : role.apps.dashboards[d] # "control"

LEMMA NewRoleIsRole == IsRole(NewRole)
<1>1. /\ NewRole.allow = EmptyPolicy /\ NewRole.deny = EmptyPolicy
      /\ NewRole.tiers = [max |-> "user", allow |-> {}, deny |-> {}]
      /\ NewRole.apps.dashboards = <<>>
      /\ NewRole.schedule = [rules |-> {}, inline |-> None]
  BY DEF NewRole
<1>2. IsPolicy(EmptyPolicy)
  BY DEF IsPolicy, EmptyPolicy, GrantsKeys
<1>3. [max |-> "user", allow |-> {}, deny |-> {}]
        \in [max : DOMAIN TierOrder, allow : SUBSET SUBSET Commands, deny : SUBSET SUBSET Commands]
  BY DEF TierOrder
<1>4. ScheduleWindows(NewRole.schedule) = {}
  <2>1. NewRole.schedule.rules = {} /\ NewRole.schedule.inline = None
    BY <1>1
  <2>2. QED BY <2>1 DEF ScheduleWindows
<1>5. DOMAIN NewRole = DOMAIN NewRole /\ NewRole.tiers.max = "user"
      /\ DOMAIN NewRole.apps.dashboards = {}
  BY <1>1
<1>6. QED BY <1>1, <1>2, <1>3, <1>4, <1>5 DEF IsRole

\* A section the schema takes makes a role of a role.
LEMMA EditKeepsRole ==
  ASSUME NEW role, IsRole(role), NEW section \in DOMAIN NewRole, NEW value,
         IsRole([NewRole EXCEPT ![section] = value])
  PROVE  IsRole([role EXCEPT ![section] = value])
<1> DEFINE edited == [role EXCEPT ![section] = value]
           blank == [NewRole EXCEPT ![section] = value]
<1>1. /\ DOMAIN edited = DOMAIN NewRole
      /\ edited[section] = value /\ blank[section] = value
      /\ \A other \in DOMAIN NewRole \ {section} : edited[other] = role[other]
  BY DEF IsRole
<1>2. DOMAIN NewRole = {"allow", "deny", "tiers", "capabilities", "apps", "attributes", "choices",
                        "history", "logbook", "schedule", "location"}
  BY DEF NewRole
<1>3. \A other \in DOMAIN NewRole : edited[other] \in {role[other], blank[other]}
                                    /\ (edited[other] # role[other] => edited[other] = blank[other])
  BY <1>1
<1> HIDE DEF edited, blank
<1>4. IsRole(blank)
  BY DEF blank
<1>5. IsPolicy(edited.allow) /\ IsPolicy(edited.deny)
  BY <1>2, <1>3, <1>4 DEF IsRole
<1>6. edited.tiers \in [max : DOMAIN TierOrder, allow : SUBSET SUBSET Commands,
                        deny : SUBSET SUBSET Commands]
  BY <1>2, <1>3, <1>4 DEF IsRole
<1>7. /\ DOMAIN edited.apps = DOMAIN NewRole.apps
      /\ \A d \in DOMAIN edited.apps.dashboards :
           edited.apps.dashboards[d] \in {"empty", "content", "control"}
  <2>1. edited.apps = role.apps \/ edited.apps = blank.apps
    BY <1>2, <1>3
  <2>2. QED BY <1>4, <2>1 DEF IsRole
<1>8. \A w \in ScheduleWindows(edited.schedule) :
        w \in [days : SUBSET Days, start : Minutes \cup {None}, end : Minutes \cup {None}]
  <2>1. edited.schedule = role.schedule \/ edited.schedule = blank.schedule
    BY <1>2, <1>3
  <2>2. QED BY <1>4, <2>1 DEF IsRole
<1>9. IsRole(edited)
  BY <1>1, <1>5, <1>6, <1>7, <1>8 DEF IsRole
<1>10. QED BY <1>9 DEF edited

\* The schema stores what it takes, changing only ceilings and dashboard levels.
LEMMA ValidatedIsStored ==
  ASSUME NEW role, IsRole(role)
  PROVE  /\ Stored(Validated(role))
         /\ \A section \in DOMAIN NewRole \ {"tiers", "apps"} :
              Validated(role)[section] = role[section]
         /\ \A field \in DOMAIN NewRole.apps \ {"dashboards"} :
              Validated(role).apps[field] = role.apps[field]
<1> DEFINE tiers == [role.tiers EXCEPT !.max = TierCeiling(role.tiers.max)]
           levels == [d \in DOMAIN role.apps.dashboards |-> DashboardLevel(role.apps.dashboards[d])]
           apps == [role.apps EXCEPT !.dashboards = levels]
           stored == Validated(role)
<1>1. DOMAIN NewRole = {"allow", "deny", "tiers", "capabilities", "apps", "attributes", "choices",
                        "history", "logbook", "schedule", "location"}
      /\ DOMAIN role = DOMAIN NewRole
  BY DEF NewRole, IsRole
<1>2. DOMAIN NewRole.apps = {"allow", "deny", "dashboards", "dashboard_edit", "report_as_admin"}
      /\ DOMAIN role.apps = DOMAIN NewRole.apps
  BY DEF NewRole, IsRole
<1>3. stored = [role EXCEPT !.tiers = tiers, !.apps = apps]
  BY <1>1, <1>2 DEF Validated
<1>4. /\ DOMAIN stored = DOMAIN NewRole /\ stored.tiers = tiers /\ stored.apps = apps
      /\ \A section \in DOMAIN NewRole \ {"tiers", "apps"} : stored[section] = role[section]
  BY <1>1, <1>3
<1>5. /\ DOMAIN apps = DOMAIN NewRole.apps /\ apps.dashboards = levels
      /\ \A field \in DOMAIN NewRole.apps \ {"dashboards"} : apps[field] = role.apps[field]
  BY <1>2
<1>6. tiers \in [max : DOMAIN TierOrder, allow : SUBSET SUBSET Commands, deny : SUBSET SUBSET Commands]
      /\ tiers.max # "open"
  BY DEF IsRole, TierOrder, TierCeiling
<1>7. \A d \in DOMAIN levels : levels[d] \in {"empty", "content"}
  BY DEF IsRole, DashboardLevel
<1> HIDE DEF stored, tiers, apps, levels
<1>8. /\ IsPolicy(stored.allow) /\ IsPolicy(stored.deny)
      /\ stored.schedule = role.schedule
  BY <1>1, <1>4 DEF IsRole
<1>9. IsRole(stored)
  BY <1>4, <1>5, <1>6, <1>7, <1>8 DEF IsRole
<1>10. Stored(stored)
  BY <1>4, <1>5, <1>6, <1>7, <1>9 DEF Stored
<1>11. QED BY <1>4, <1>5, <1>10 DEF stored

\* What a recording adds is a role's again.
NotesKeys(note) == \A e \in DOMAIN note.entities : note.entities[e] \in Keys

LEMMA AppliedIsRole ==
  ASSUME NEW role, IsRole(role), NEW note, NotesKeys(note)
  PROVE  /\ IsRole(Applied(role, note))
         /\ Applied(role, note).deny = role.deny
         /\ Applied(role, note).allow =
              IF role.allow = Whole \/ DOMAIN note.entities = {} THEN role.allow
              ELSE [role.allow EXCEPT !.entity_ids = Merged(role.allow.entity_ids, note.entities)]
         /\ Applied(role, note).apps.deny = role.apps.deny \ {{app} : app \in note.apps}
         /\ Applied(role, note).apps.allow =
              IF role.apps.allow = {} THEN {} ELSE role.apps.allow \cup {{app} : app \in note.apps}
         /\ Applied(role, note).capabilities = role.capabilities \cup note.capabilities
<1> DEFINE allow == IF role.allow = Whole \/ DOMAIN note.entities = {} THEN role.allow
              ELSE [role.allow EXCEPT !.entity_ids = Merged(role.allow.entity_ids, note.entities)]
           deny == role.apps.deny \ {{app} : app \in note.apps}
           let == IF role.apps.allow = {} THEN {}
                  ELSE role.apps.allow \cup {{app} : app \in note.apps}
           able == role.capabilities \cup note.capabilities
           apps == [role.apps EXCEPT !.deny = deny, !.allow = let]
           applied == Applied(role, note)
<1>1. DOMAIN NewRole = {"allow", "deny", "tiers", "capabilities", "apps", "attributes", "choices",
                        "history", "logbook", "schedule", "location"}
      /\ DOMAIN role = DOMAIN NewRole
  BY DEF NewRole, IsRole
<1>2. DOMAIN NewRole.apps = {"allow", "deny", "dashboards", "dashboard_edit", "report_as_admin"}
      /\ DOMAIN role.apps = DOMAIN NewRole.apps
  BY DEF NewRole, IsRole
<1>3. applied = [role EXCEPT !.allow = allow, !.apps = apps, !.capabilities = able]
  BY <1>1, <1>2 DEF Applied
<1>4. /\ DOMAIN applied = DOMAIN NewRole /\ applied.allow = allow /\ applied.apps = apps
      /\ applied.capabilities = able
      /\ \A section \in DOMAIN NewRole \ {"allow", "apps", "capabilities"} :
           applied[section] = role[section]
  <2> HIDE DEF applied, allow, apps, able
  <2>1. QED BY <1>1, <1>3
<1>5. /\ DOMAIN apps = DOMAIN NewRole.apps /\ apps.deny = deny /\ apps.allow = let
      /\ apps.dashboards = role.apps.dashboards
  <2> HIDE DEF deny, let
  <2>1. QED BY <1>2
<1>6. IsPolicy(allow)
  <2>1. CASE role.allow = Whole \/ DOMAIN note.entities = {}
    BY <2>1 DEF IsRole
  <2>2. CASE ~(role.allow = Whole \/ DOMAIN note.entities = {})
    <3> DEFINE p == role.allow
               merged == Merged(p.entity_ids, note.entities)
    <3>1. /\ DOMAIN p = DOMAIN EmptyPolicy /\ p.all \in SUBSET Keys
          /\ \A field \in DOMAIN p \ {"all", "label_ids"} : GrantsKeys(p[field])
      BY <2>2 DEF IsRole, IsPolicy
    <3>2. DOMAIN EmptyPolicy = {"all", "entity_ids", "device_ids", "area_ids", "domains",
                                "floor_ids", "label_ids"}
      BY DEF EmptyPolicy
    <3>3. GrantsKeys(p.entity_ids)
      BY <3>1, <3>2
    <3>4. GrantsKeys(merged)
      BY <3>3 DEF NotesKeys, GrantsKeys, Merged, Keys
    <3>5. allow = [p EXCEPT !.entity_ids = merged]
      BY <2>2
    <3> HIDE DEF p, merged, allow
    <3>6. /\ DOMAIN allow = DOMAIN EmptyPolicy /\ allow.all = p.all /\ allow.entity_ids = merged
          /\ \A field \in DOMAIN p \ {"entity_ids"} : allow[field] = p[field]
      BY <3>1, <3>2, <3>5
    <3>7. QED BY <3>1, <3>4, <3>6 DEF IsPolicy
  <2>3. QED BY <2>1, <2>2
<1> HIDE DEF applied, allow, apps, able, deny, let
<1>7. /\ IsPolicy(applied.deny) /\ applied.deny = role.deny
      /\ applied.tiers = role.tiers /\ applied.schedule = role.schedule
  BY <1>1, <1>4 DEF IsRole
<1>8. IsRole(applied)
  BY <1>4, <1>5, <1>6, <1>7 DEF IsRole
<1>9. QED BY <1>4, <1>5, <1>7, <1>8 DEF applied, allow, deny, let, able

\* A role a note was applied to permits what was noted, but for what it denies.
LEMMA RecordedIsPermitted ==
  ASSUME NEW old, IsRole(old), NEW note, NotesKeys(note)
  PROVE  LET new == Validated(Applied(old, note)) IN
         /\ \A e \in DOMAIN note.entities :
              Check(new, e, note.entities[e]) <=> ~Denied(old.deny, e, note.entities[e])
         /\ \A app \in note.apps :
              ~RolePermitsApp(new, app) => \E g \in old.apps.deny : app \in g /\ g # {app}
         /\ \A c \in note.capabilities : c \in new.capabilities
<1> DEFINE applied == Applied(old, note)
           new == Validated(applied)
           added == {{app} : app \in note.apps}
<1>1. IsRole(applied)
  BY AppliedIsRole
<1>2. /\ new.allow = applied.allow /\ new.deny = applied.deny
      /\ new.capabilities = applied.capabilities
      /\ new.apps.allow = applied.apps.allow /\ new.apps.deny = applied.apps.deny
  <2>1. {"allow", "deny", "capabilities"} \subseteq DOMAIN NewRole \ {"tiers", "apps"}
        /\ {"allow", "deny"} \subseteq DOMAIN NewRole.apps \ {"dashboards"}
    BY DEF NewRole
  <2> HIDE DEF applied
  <2>2. QED BY <1>1, <2>1, ValidatedIsStored
<1>3. /\ applied.deny = old.deny
      /\ applied.allow = IF old.allow = Whole \/ DOMAIN note.entities = {} THEN old.allow
            ELSE [old.allow EXCEPT !.entity_ids = Merged(old.allow.entity_ids, note.entities)]
      /\ applied.apps.deny = old.apps.deny \ added
      /\ applied.apps.allow = IF old.apps.allow = {} THEN {} ELSE old.apps.allow \cup added
      /\ applied.capabilities = old.capabilities \cup note.capabilities
  BY AppliedIsRole
<1> HIDE DEF new, applied
<1>4. ASSUME NEW e \in DOMAIN note.entities
      PROVE  Allowed(new.allow, e, note.entities[e])
  <2> DEFINE p == old.allow
             merged == Merged(p.entity_ids, note.entities)
  <2>1. CASE p = Whole
    BY <1>2, <1>3, <2>1 DEF Allowed
  <2>2. CASE p # Whole
    <3>1. new.allow = [p EXCEPT !.entity_ids = merged]
      BY <1>2, <1>3, <2>2
    <3>2. "entity_ids" \in DOMAIN p
          /\ GrantsKeys(p.entity_ids)
      BY <2>2 DEF IsRole, IsPolicy, EmptyPolicy
    <3>3. new.allow.entity_ids = merged
      <4> HIDE DEF merged, p
      <4>1. QED BY <3>1, <3>2
    <3>4. /\ e \in DOMAIN merged
          /\ note.entities[e] \in merged[e]
          /\ merged[e] \in SUBSET Keys
      BY <3>2 DEF Merged, GrantsKeys, NotesKeys, Keys
    <3> HIDE DEF merged, p
    <3>5. Opinion(new.allow.entity_ids, e) = merged[e] /\ merged[e] # None
      BY <3>3, <3>4, PolicyAssumption DEF Opinion
    <3>6. Exception(new.allow, e) = merged[e]
      BY <3>5, OwnEntryFirst, LevelsOf
    <3>7. QED BY <3>4, <3>5, <3>6 DEF Allowed
  <2>3. QED BY <2>1, <2>2
<1>5. \A e \in DOMAIN note.entities :
        Check(new, e, note.entities[e]) <=> ~Denied(old.deny, e, note.entities[e])
  BY <1>2, <1>3, <1>4 DEF Check
<1>6. ASSUME NEW app \in note.apps, ~RolePermitsApp(new, app)
      PROVE  \E g \in old.apps.deny : app \in g /\ g # {app}
  <2>1. {app} \in added
    BY <1>6
  <2>2. /\ new.apps.deny = old.apps.deny \ added
        /\ new.apps.allow = {} \/ {app} \in new.apps.allow
    BY <1>2, <1>3, <2>1
  <2>3. \E g \in new.apps.deny : app \in g
    BY <1>6, <2>2 DEF RolePermitsApp, Matches
  <2> HIDE DEF added
  <2>4. QED BY <2>1, <2>2, <2>3
<1>7. \A c \in note.capabilities : c \in new.capabilities
  BY <1>2, <1>3
<1>8. QED BY <1>5, <1>6, <1>7 DEF new, applied

\* Roles are made blank or cloned from what the integration predefines.
LEMMA MadeStored ==
  ASSUME NEW role \in {NewRole, DefaultRoles.admin, DefaultRoles.read_only}
  PROVE  Stored(role)
<1>1. DOMAIN NewRole = {"allow", "deny", "tiers", "capabilities", "apps", "attributes", "choices",
                        "history", "logbook", "schedule", "location"}
  BY DEF NewRole
<1>2. /\ NewRole.tiers = [max |-> "user", allow |-> {}, deny |-> {}]
      /\ NewRole.apps.dashboards = <<>> /\ NewRole.allow = EmptyPolicy
  BY DEF NewRole
<1>3. Stored(NewRole)
  BY <1>2, NewRoleIsRole DEF Stored
<1>4. Stored(DefaultRoles.admin)
  <2> DEFINE admin == DefaultRoles.admin
             tiers == [max |-> "admin", allow |-> {Commands}, deny |-> {}]
  <2>1. admin = [NewRole EXCEPT !.allow = Whole, !.tiers = tiers]
    BY DEF DefaultRoles
  <2>2. /\ DOMAIN admin = DOMAIN NewRole /\ admin.allow = Whole /\ admin.tiers = tiers
        /\ \A section \in DOMAIN NewRole \ {"allow", "tiers"} : admin[section] = NewRole[section]
    <3> HIDE DEF admin, tiers
    <3>1. QED BY <1>1, <2>1
  <2>3. tiers \in [max : DOMAIN TierOrder, allow : SUBSET SUBSET Commands,
                   deny : SUBSET SUBSET Commands]
        /\ tiers.max # "open"
    BY DEF TierOrder
  <2> HIDE DEF admin, tiers
  <2>4. IsPolicy(admin.allow) /\ IsPolicy(admin.deny) /\ admin.apps = NewRole.apps
        /\ admin.schedule = NewRole.schedule
    BY <1>1, <2>2, NewRoleIsRole DEF IsRole, IsPolicy
  <2>5. Stored(admin)
    BY <1>2, <2>2, <2>3, <2>4, NewRoleIsRole DEF Stored, IsRole
  <2>6. QED BY <2>5 DEF admin
<1>5. Stored(DefaultRoles.read_only)
  <2> DEFINE read_only == DefaultRoles.read_only
             allow == [EmptyPolicy EXCEPT !.all = {"read"}]
             tiers == [max |-> "user", allow |-> {}, deny |-> BaselineDeny]
             able == {"notifications"} \cap Capabilities
  <2>1. read_only = [NewRole EXCEPT !.allow = allow, !.tiers = tiers, !.capabilities = able]
    <3>1. read_only = Predefined({"read"}, {"notifications"})
      BY DEF DefaultRoles
    <3>2. read_only = [NewRole EXCEPT !.allow.all = {"read"}, !.tiers.deny = BaselineDeny,
                                      !.capabilities = able]
      BY <3>1 DEF Predefined
    <3>3. [NewRole.allow EXCEPT !.all = {"read"}] = allow
      BY <1>2
    <3>4. [NewRole.tiers EXCEPT !.deny = BaselineDeny] = tiers
      <4>1. [[max |-> "user", allow |-> {}, deny |-> {}] EXCEPT !.deny = BaselineDeny] = tiers
        OBVIOUS
      <4>2. QED BY <1>2, <4>1
    <3>5. QED BY <1>1, <3>2, <3>3, <3>4
  <2>2. /\ DOMAIN read_only = DOMAIN NewRole /\ read_only.allow = allow /\ read_only.tiers = tiers
        /\ \A section \in DOMAIN NewRole \ {"allow", "tiers", "capabilities"} :
             read_only[section] = NewRole[section]
    <3> HIDE DEF read_only, allow, tiers, able
    <3>1. QED BY <1>1, <2>1
  <2>3. tiers \in [max : DOMAIN TierOrder, allow : SUBSET SUBSET Commands,
                   deny : SUBSET SUBSET Commands]
        /\ tiers.max # "open"
    BY PolicyAssumption DEF TierOrder
  <2>4. IsPolicy(allow)
    BY DEF IsPolicy, EmptyPolicy, GrantsKeys, Keys
  <2> HIDE DEF read_only, tiers, allow
  <2>5. IsPolicy(read_only.deny) /\ read_only.apps = NewRole.apps
        /\ read_only.schedule = NewRole.schedule
    BY <1>1, <2>2, NewRoleIsRole DEF IsRole
  <2>6. Stored(read_only)
    BY <1>2, <2>2, <2>3, <2>4, <2>5, NewRoleIsRole DEF Stored, IsRole
  <2>7. QED BY <2>6 DEF read_only
<1>6. QED BY <1>3, <1>4, <1>5

LEMMA TypeOKIsStored ==
  TypeOK <=> /\ DOMAIN roles = Custom /\ \A r \in Custom : Stored(roles[r])
             /\ shows \in [Dashboards -> SUBSET Entities] /\ edits \in 0..MaxEdits
  BY DEF TypeOK, Stored

LEMMA SaveStores ==
  ASSUME TypeOK, NEW r \in Custom, NEW section \in DOMAIN SectionValues,
         NEW value \in SectionValues[section], Save(r, section, value)
  PROVE  TypeOK'
<1>1. IsRole([roles[r] EXCEPT ![section] = value])
  BY ValuesAssumption, EditKeepsRole, TypeOKIsStored DEF Stored
<1>2. Stored(Validated([roles[r] EXCEPT ![section] = value]))
  BY <1>1, ValidatedIsStored
<1>3. /\ DOMAIN roles' = Custom
      /\ roles'[r] = Validated([roles[r] EXCEPT ![section] = value])
      /\ \A x \in Custom \ {r} : roles'[x] = roles[x]
  BY DEF Save, TypeOK
<1>4. \A x \in Custom : Stored(roles'[x])
  BY <1>2, <1>3, TypeOKIsStored
<1>5. shows' \in [Dashboards -> SUBSET Entities] /\ edits' \in 0..MaxEdits
  BY PolicyAssumption DEF Save, TypeOK
<1>6. QED BY <1>3, <1>4, <1>5 DEF TypeOK, Stored

LEMMA RecordingStores ==
  ASSUME TypeOK, NEW r \in Custom, NEW note \in NoteValues, StopRecording(r, note)
  PROVE  TypeOK' /\ roles'[r] = Validated(Applied(roles[r], note))
<1>1. IsRole(Applied(roles[r], note))
  BY ValuesAssumption, AppliedIsRole, TypeOKIsStored DEF Stored, NotesKeys
<1>2. Stored(Validated(Applied(roles[r], note)))
  BY <1>1, ValidatedIsStored
<1>3. /\ DOMAIN roles' = Custom
      /\ roles'[r] = Validated(Applied(roles[r], note))
      /\ \A x \in Custom \ {r} : roles'[x] = roles[x]
  BY DEF StopRecording, TypeOK
<1>4. \A x \in Custom : Stored(roles'[x])
  BY <1>2, <1>3, TypeOKIsStored
<1>5. shows' \in [Dashboards -> SUBSET Entities] /\ edits' \in 0..MaxEdits
  BY PolicyAssumption DEF StopRecording, TypeOK
<1>6. QED BY <1>3, <1>4, <1>5 DEF TypeOK, Stored

LEMMA TypeOKInit == Init => TypeOK
<1> SUFFICES ASSUME Init PROVE TypeOK
  OBVIOUS
<1>1. DOMAIN roles = Custom /\ \A r \in Custom : Stored(roles[r])
  BY MadeStored DEF Init
<1>2. shows \in [Dashboards -> SUBSET Entities] /\ edits \in 0..MaxEdits
  BY PolicyAssumption DEF Init
<1>3. QED BY <1>1, <1>2, TypeOKIsStored

LEMMA TypeOKStep == TypeOK /\ [Next]_vars => TypeOK'
<1> SUFFICES ASSUME TypeOK, [Next]_vars PROVE TypeOK'
  OBVIOUS
<1>1. ASSUME NEW d \in Dashboards, NEW entities \in DashboardValues, EditDashboard(d, entities)
      PROVE  TypeOK'
  <2>1. UNCHANGED roles
    BY <1>1 DEF EditDashboard
  <2>2. shows' \in [Dashboards -> SUBSET Entities] /\ edits' \in 0..MaxEdits
    BY <1>1, ValuesAssumption, PolicyAssumption DEF EditDashboard, TypeOK
  <2>3. QED BY <2>1, <2>2 DEF TypeOK
<1>2. CASE UNCHANGED vars
  BY <1>2 DEF vars, TypeOK
<1>3. QED BY <1>1, <1>2, SaveStores, RecordingStores DEF Next

LEMMA AlwaysTyped == Spec => []TypeOK
  BY TypeOKInit, TypeOKStep, PTL DEF Spec

-------------------------------------------------------------------------------
(* Theorems. *)

\* Whatever is edited or recorded, every stored role is one the schema takes,
\* with a ceiling and dashboard levels that are still in use.
THEOREM RolesStayValid == Spec => []TypeOK
  BY AlwaysTyped

\* Nothing a role says elsewhere gives back what its deny side takes (_compile_check).
THEOREM DeniedStaysDenied == Spec => []DenialWins
<1>1. DenialWins
  <2> SUFFICES ASSUME NEW r \in Custom, NEW e \in Entities, NEW key \in Keys,
                      \/ roles[r].deny = Whole
                      \/ \E o \in Says(roles[r].deny, e) \ {None} : key \in o
               PROVE  /\ ~Check(roles[r], e, key)
                      /\ key = "read" => \A section \in GrantSections :
                                           ~PastAllowed({roles[r]}, None, section, e)
    BY DEF DenialWins, Says
  <2>1. Denied(roles[r].deny, e, key)
    BY SaidIsDenied
  <2>2. QED BY <2>1, DeniedIsRefused
<1>2. QED BY <1>1, PTL

\* Whoever full access lets skip the gates would have been refused by none.
THEOREM FullAccessIsUnrestricted == Spec => []FullAccessUnrestricted
<1>1. FullAccessUnrestricted
  BY FullAccessRefusesNothing DEF FullAccessUnrestricted
<1>2. QED BY <1>1, PTL

\* A role's windows are those that opened on one of its days, across midnight and
\* across the week, whatever the length of either.
THEOREM InForceWhenOpened == Spec => []InForceOnTheirDay
<1>1. TypeOK => InForceOnTheirDay
  <2> SUFFICES ASSUME TypeOK, NEW r \in Custom, NEW day \in Days, NEW minute \in Minutes
               PROVE
      LET windows == ScheduleWindows(roles[r].schedule)
          open == \/ windows = {}
                  \/ \E w \in windows, d \in Days :
                       (w.days = {} \/ d \in w.days) /\ Since(w, d, day, minute) < Length(w)
      IN  \A place \in SUBSET Zones :
            /\ InForce(roles[r], day, minute, place) => open
            /\ open /\ roles[r].location.zones = {} => InForce(roles[r], day, minute, place)
            /\ InForce(roles[r], day, minute, None) => InForce(roles[r], day, minute, place)
    BY DEF InForceOnTheirDay
  <2> DEFINE windows == ScheduleWindows(roles[r].schedule)
             open == \/ windows = {}
                     \/ \E w \in windows, d \in Days :
                          (w.days = {} \/ d \in w.days) /\ Since(w, d, day, minute) < Length(w)
  <2>1. \A w \in windows :
          w \in [days : SUBSET Days, start : Minutes \cup {None}, end : Minutes \cup {None}]
    BY DEF TypeOK, IsRole
  <2>2. \A w \in windows :
          WindowActive(w, day, minute)
          <=> \E d \in Days : (w.days = {} \/ d \in w.days) /\ Since(w, d, day, minute) < Length(w)
    BY <2>1, ActiveSinceADay
  <2>3. ScheduleActive(roles[r].schedule, day, minute) <=> open
    BY <2>2 DEF ScheduleActive
  <2>4. ASSUME NEW place
        PROVE  /\ roles[r].location.zones = {} => LocationActive(roles[r].location, place)
               /\ LocationActive(roles[r].location, None) => LocationActive(roles[r].location, place)
    BY DEF LocationActive
  <2>5. QED BY <2>3, <2>4 DEF InForce
<1>2. QED BY <1>1, AlwaysTyped, PTL

\* An edited dashboard shows, and gives control of nothing and sight of nothing
\* the role speaks of (_granted_by_a_dashboard).
THEOREM DashboardsGiveNoControl == Spec => DashboardsOnlyShow
<1>1. [\A r \in Custom, e \in Entities :
       (roles'[r] = roles[r] /\ shows' # shows) =>
         /\ Check(roles[r], e, "control")' => Check(roles[r], e, "control")
         /\ Check(roles[r], e, "read")' =>
              \/ Check(roles[r], e, "read")
              \/ /\ ~Denied(roles[r].deny, e, "read")
                 /\ roles[r].allow # Whole
                 /\ Exception(roles[r].allow, e) = None]_vars
  <2> SUFFICES ASSUME NEW r \in Custom, NEW e \in Entities, roles'[r] = roles[r]
      PROVE  /\ Check(roles[r], e, "control")' => Check(roles[r], e, "control")
             /\ Check(roles[r], e, "read")' =>
                  \/ Check(roles[r], e, "read")
                  \/ /\ ~Denied(roles[r].deny, e, "read")
                     /\ roles[r].allow # Whole
                     /\ Exception(roles[r].allow, e) = None
    OBVIOUS
  <2>1. \A key : Denied(roles'[r].deny, e, key) = Denied(roles[r].deny, e, key)
                 /\ Allowed(roles'[r].allow, e, key) = Allowed(roles[r].allow, e, key)
                 /\ Withheld(roles'[r].allow, e, key) = Withheld(roles[r].allow, e, key)
    OBVIOUS
  <2>2. Check(roles[r], e, "control")' => Check(roles[r], e, "control")
    BY <2>1 DEF Check, GrantedByADashboard
  <2>3. Check(roles[r], e, "read")' =>
          /\ ~Denied(roles[r].deny, e, "read")
          /\ Allowed(roles[r].allow, e, "read") \/ ~Withheld(roles[r].allow, e, "read")
    BY <2>1 DEF Check
  <2>4. Allowed(roles[r].allow, e, "read") /\ ~Denied(roles[r].deny, e, "read")
          => Check(roles[r], e, "read")
    BY DEF Check
  <2>5. ~Allowed(roles[r].allow, e, "read") /\ ~Withheld(roles[r].allow, e, "read")
          => roles[r].allow # Whole /\ Exception(roles[r].allow, e) = None
    BY DEF Allowed, Withheld
  <2>6. QED BY <2>2, <2>3, <2>4, <2>5
<1>2. QED BY <1>1, PTL DEF DashboardsOnlyShow

\* A recorded role permits what was recorded but for what it denies, and the
\* answer to record/stop names exactly what stays blocked (record.apply).
THEOREM RecordingIsEnough == Spec => RecordingSuffices
<1>1. TypeOK =>
      [\A r \in Custom, note \in NoteValues :
       StopRecording(r, note) =>
         /\ \A e \in DOMAIN note.entities :
              (e \in StillBlocked(roles[r], note))' <=> Denied(roles[r].deny, e, note.entities[e])
         /\ \A app \in note.apps :
              (app \in BlockedApps(roles[r], note))' => \E g \in roles[r].apps.deny : app \in g /\ g # {app}
         /\ \A c \in note.capabilities : c \in roles'[r].capabilities]_vars
  <2> SUFFICES ASSUME TypeOK, NEW r \in Custom, NEW note \in NoteValues, StopRecording(r, note)
      PROVE
         /\ \A e \in DOMAIN note.entities :
              (e \in StillBlocked(roles[r], note))' <=> Denied(roles[r].deny, e, note.entities[e])
         /\ \A app \in note.apps :
              (app \in BlockedApps(roles[r], note))' => \E g \in roles[r].apps.deny : app \in g /\ g # {app}
         /\ \A c \in note.capabilities : c \in roles'[r].capabilities
    OBVIOUS
  <2>1. IsRole(roles[r]) /\ NotesKeys(note)
    BY ValuesAssumption DEF TypeOK, NotesKeys
  <2>2. roles'[r] = Validated(Applied(roles[r], note))
    BY RecordingStores
  <2>3. \A e \in DOMAIN note.entities :
          Check(roles[r], e, note.entities[e])' <=> ~Denied(roles[r].deny, e, note.entities[e])
    <3>1. \A e \in DOMAIN note.entities :
            Check(roles'[r], e, note.entities[e]) <=> ~Denied(roles[r].deny, e, note.entities[e])
      BY <2>1, <2>2, RecordedIsPermitted
    <3>2. UNCHANGED shows
      BY DEF StopRecording
    <3>3. QED BY <3>1, <3>2 DEF Check, GrantedByADashboard
  <2>4. \A e \in DOMAIN note.entities :
          (e \in StillBlocked(roles[r], note))' <=> Denied(roles[r].deny, e, note.entities[e])
    BY <2>3 DEF StillBlocked
  <2>5. \A app \in note.apps :
          ~RolePermitsApp(roles'[r], app) => \E g \in roles[r].apps.deny : app \in g /\ g # {app}
    BY <2>1, <2>2, RecordedIsPermitted
  <2>6. \A app \in note.apps : (app \in BlockedApps(roles[r], note))' <=> ~RolePermitsApp(roles'[r], app)
    BY DEF BlockedApps
  <2>7. \A c \in note.capabilities : c \in roles'[r].capabilities
    BY <2>1, <2>2, RecordedIsPermitted
  <2>8. QED BY <2>4, <2>5, <2>6, <2>7
<1>2. QED BY <1>1, AlwaysTyped, PTL DEF RecordingSuffices
=============================================================================
