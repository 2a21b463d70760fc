------------------------------ MODULE GatesProofs ------------------------------
(***************************************************************************)
(* What holds of Gates for every house, every set of roles and every       *)
(* request.                                                                *)
(***************************************************************************)
EXTENDS Gates, PolicyProofs, FiniteSetTheorems, WellFoundedInduction

-------------------------------------------------------------------------------
(* The invariant. *)

\* The roles are those the schema takes, and every member of a group is one of
\* the entities there are.
Housed == TypeOK /\ members \in [Real -> SUBSET Real]

LEMMA HousedInit == GInit => Housed
  BY TypeOKInit, GatesAssumption DEF GInit, Housed

LEMMA HousedStep == Housed /\ [GNext]_gvars => Housed'
<1> SUFFICES ASSUME Housed, [GNext]_gvars PROVE Housed'
  OBVIOUS
<1>1. TypeOK /\ members \in [Real -> SUBSET Real]
  BY DEF Housed
<1>2. CASE EditRole
  <2>1. Next
    BY <1>2 DEF EditRole, Next
  <2>2. QED BY <1>1, <1>2, <2>1, TypeOKStep DEF EditRole, house, Housed
<1>3. CASE \E d \in Dashboards, entities \in DashboardValues :
             EditDashboard(d, entities) /\ UNCHANGED house
  <2>1. Next /\ UNCHANGED house
    BY <1>3 DEF Next
  <2>2. QED BY <1>1, <2>1, TypeOKStep DEF house, Housed
<1>4. CASE GroupChanges
  <2>1. UNCHANGED vars /\ members' \in [Real -> SUBSET Real]
    BY <1>4, GatesAssumption DEF GroupChanges
  <2>2. QED BY <1>1, <2>1, TypeOKStep DEF Housed
<1>5. CASE Rebuild
  BY <1>1, <1>5, TypeOKStep DEF Rebuild, Housed
<1>6. CASE UNCHANGED gvars
  BY <1>1, <1>6, TypeOKStep DEF gvars, house, Housed
<1>7. QED BY <1>2, <1>3, <1>4, <1>5, <1>6 DEF GNext

LEMMA AlwaysHoused == GSpec => []Housed
  BY HousedInit, HousedStep, PTL DEF GSpec

-------------------------------------------------------------------------------
(* One more role. *)

\* Whatever is permitted to the holder of some roles is permitted to the holder
\* of more.
LEMMA PermitsAdd ==
  ASSUME NEW held, NEW more, held \subseteq more, NEW veto
  PROVE  /\ HasFullAccess(held, veto) => HasFullAccess(more, veto)
         /\ \A c, tier : TierAllowed(held, c, tier) => TierAllowed(more, c, tier)
         /\ \A c, app : DashboardEditAllowed(held, c, app) => DashboardEditAllowed(more, c, app)
         /\ \A app : AppAllowed(held, app) => AppAllowed(more, app)
         /\ \A section : GrantsAnyPast(held, section) => GrantsAnyPast(more, section)
         /\ \A e, key : CheckEntity(held, veto, e, key) => CheckEntity(more, veto, e, key)
         /\ \A section, e : PastAllowed(held, veto, section, e) => PastAllowed(more, veto, section, e)
<1>1. /\ HasFullAccess(held, veto) => HasFullAccess(more, veto)
      /\ \A c, tier : TierAllowed(held, c, tier) => TierAllowed(more, c, tier)
      /\ \A c, app : DashboardEditAllowed(held, c, app) => DashboardEditAllowed(more, c, app)
      /\ \A app : AppAllowed(held, app) => AppAllowed(more, app)
      /\ \A section : GrantsAnyPast(held, section) => GrantsAnyPast(more, section)
  BY DEF HasFullAccess, TierAllowed, DashboardEditAllowed, AppAllowed, GrantsAnyPast
<1>2. \A e, key : CheckEntity(held, veto, e, key) => CheckEntity(more, veto, e, key)
  BY DEF CheckEntity
<1>3. \A section, e : PastAllowed(held, veto, section, e) => PastAllowed(more, veto, section, e)
  BY <1>2 DEF PastAllowed
<1>4. QED BY <1>1, <1>2, <1>3

\* A role that says nothing of attributes and options leaves both as they were.
LEMMA SilentRole ==
  ASSUME NEW held, NEW role, HidingRules(role) = {}, ChoiceRules(role) = {}
  PROVE  /\ HidesAttributes(held \cup {role}) <=> HidesAttributes(held)
         /\ \A e : OptionsAllowed(held \cup {role}, e) = OptionsAllowed(held, e)
<1>1. HidesAttributes(held \cup {role}) <=> HidesAttributes(held)
  BY DEF HidesAttributes
<1>2. UNION {ChoiceRules(r) : r \in held \cup {role}} = UNION {ChoiceRules(r) : r \in held}
  OBVIOUS
<1>3. QED BY <1>1, <1>2 DEF OptionsAllowed

LEMMA PassesAdd ==
  ASSUME NEW held, NEW veto, NEW req, NEW role, HidingRules(role) = {}, ChoiceRules(role) = {},
         Passes(held, veto, req)
  PROVE  Passes(held \cup {role}, veto, req)
<1> DEFINE more == held \cup {role}
<1>1. held \subseteq more
  OBVIOUS
<1>2. CASE HasFullAccess(held, veto)
  BY <1>1, <1>2, PermitsAdd DEF Passes
<1>3. CASE ~HasFullAccess(held, veto)
  <2>1. /\ ~degraded
        /\ ~TierRefuses(held, req) /\ ~AppRefuses(held, req) /\ ~AttributesRefuse(held, req)
        /\ ~ResourceRefuses(held, veto, req) /\ ~ChoiceRefuses(held, req)
        /\ ~BoundRefuses(held, veto, req)
    BY <1>3 DEF Passes
  <2>2. ~TierRefuses(more, req) /\ ~AppRefuses(more, req)
    BY <1>1, <2>1, PermitsAdd DEF TierRefuses, DashboardEdit, AppRefuses
  <2>3. ~AttributesRefuse(more, req)
    BY <2>1, SilentRole DEF AttributesRefuse
  <2>4. ~ResourceRefuses(more, veto, req)
    BY <1>1, <2>1, PermitsAdd DEF ResourceRefuses
  <2>5. ~ChoiceRefuses(more, req)
    BY <2>1, SilentRole DEF ChoiceRefuses
  <2>6. ~ServiceRefuses(held, veto, req) => ~ServiceRefuses(more, veto, req)
    BY <1>1, PermitsAdd DEF ServiceRefuses
  <2>7. ~BoundRefuses(more, veto, req)
    BY <2>1, <2>6 DEF BoundRefuses
  <2>8. QED BY <2>1, <2>2, <2>3, <2>4, <2>5, <2>7 DEF Passes
<1>4. QED BY <1>2, <1>3

-------------------------------------------------------------------------------
(* Groups of groups. *)

Nearer(S) == S \cup UNION {members[e] : e \in S \cap Real}

\* The walk over members is defined for any number of rounds.
LEMMA WalkExists ==
  ASSUME NEW S, NEW k \in Nat
  PROVE  \E f : f = [n \in 0..k |-> IF n = 0 THEN S ELSE Nearer(f[n - 1])]
<1> DEFINE Less == {p \in Nat \X Nat : p[1] < p[2]}
           Walks(m) == \E f : f = [n \in 0..m |-> IF n = 0 THEN S ELSE Nearer(f[n - 1])]
           stuck == {m \in Nat : ~Walks(m)}
<1>1. SUFFICES ASSUME stuck # {} PROVE FALSE
  OBVIOUS
<1>2. IsWellFoundedOn(Less, Nat)
  BY NatLessThanWellFounded DEF OpToRel
<1>3. PICK m \in stuck : \A j \in stuck : ~(<<j, m>> \in Less)
  <2> HIDE DEF Less
  <2>1. stuck \subseteq Nat
    OBVIOUS
  <2> HIDE DEF stuck
  <2>2. QED BY <1>1, <1>2, <2>1, WFMin
<1>4. CASE m = 0
  <2>1. [n \in 0..0 |-> S] = [n \in 0..0 |-> IF n = 0 THEN S ELSE Nearer([i \in 0..0 |-> S][n - 1])]
    OBVIOUS
  <2>2. Walks(0)
    BY <2>1
  <2>3. QED BY <1>3, <1>4, <2>2
<1>5. CASE m # 0
  <2>1. m - 1 \in Nat /\ <<m - 1, m>> \in Less
    BY <1>3, <1>5
  <2>2. Walks(m - 1)
    BY <1>3, <2>1
  <2>3. PICK f : f = [n \in 0..(m - 1) |-> IF n = 0 THEN S ELSE Nearer(f[n - 1])]
    BY <2>2
  <2> DEFINE g == [n \in 0..m |-> IF n = m THEN Nearer(f[m - 1]) ELSE f[n]]
  <2>4. \A n \in 0..m : g[n] = IF n = 0 THEN S ELSE Nearer(g[n - 1])
    <3> SUFFICES ASSUME NEW n \in 0..m PROVE g[n] = IF n = 0 THEN S ELSE Nearer(g[n - 1])
      OBVIOUS
    <3>1. CASE n = m
      <4>1. n - 1 \in 0..m /\ n - 1 # m /\ n # 0
        BY <1>5, <3>1
      <4>2. g[n - 1] = f[m - 1] /\ g[n] = Nearer(f[m - 1])
        BY <3>1, <4>1
      <4> HIDE DEF g
      <4>3. QED BY <4>1, <4>2
    <3>2. CASE n # m
      <4>1. n \in 0..(m - 1) /\ (n # 0 => n - 1 \in 0..(m - 1) /\ n - 1 \in 0..m /\ n - 1 # m)
        BY <1>5, <3>2
      <4>2. g[n] = f[n] /\ (n # 0 => g[n - 1] = f[n - 1])
        BY <3>2, <4>1
      <4>3. f[n] = IF n = 0 THEN S ELSE Nearer(f[n - 1])
        BY <2>3, <4>1
      <4> HIDE DEF g
      <4>4. QED BY <4>2, <4>3
    <3>3. QED BY <3>1, <3>2
  <2>5. g = [n \in 0..m |-> IF n = 0 THEN S ELSE Nearer(g[n - 1])]
    <3>1. g = [n \in 0..m |-> g[n]]
      OBVIOUS
    <3> HIDE DEF g
    <3>2. QED BY <2>4, <3>1
  <2>6. Walks(m)
    BY <2>5
  <2>7. QED BY <1>3, <2>6
<1>6. QED BY <1>4, <1>5

\* As many rounds as there are entities reach whatever any number would.
LEMMA MembersReached ==
  ASSUME Housed, NEW S
  PROVE  /\ S \subseteq ExpandMembers(S)
         /\ \A g \in ExpandMembers(S) \cap Real : members[g] \subseteq ExpandMembers(S)
<1> DEFINE k == Cardinality(Real)
           walk == CHOOSE f : f = [n \in 0..k |-> IF n = 0 THEN S ELSE Nearer(f[n - 1])]
           Closed(n) == \A g \in walk[n] \cap Real : members[g] \subseteq walk[n]
           Fine(n) == S \subseteq walk[n] /\ (Closed(n) \/ Cardinality(walk[n] \cap Real) >= n)
           Less == {p \in Nat \X Nat : p[1] < p[2]}
<1>1. IsFiniteSet(Real) /\ k \in Nat
  BY GatesAssumption, FS_Subset, FS_CardinalityType DEF Real
<1>2. members \in [Real -> SUBSET Real]
  BY DEF Housed
<1>3. walk = [n \in 0..k |-> IF n = 0 THEN S ELSE Nearer(walk[n - 1])]
  <2> HIDE DEF k
  <2>1. QED BY <1>1, WalkExists
<1>4. ExpandMembers(S) = walk[k]
  BY DEF ExpandMembers, Nearer
<1> HIDE DEF k, walk
<1>5. walk[0] = S /\ \A n \in 1..k : walk[n] = Nearer(walk[n - 1])
  BY <1>1, <1>3
<1>6. \A n \in 0..k : IsFiniteSet(walk[n] \cap Real) /\ Cardinality(walk[n] \cap Real) \in Nat
                      /\ Cardinality(walk[n] \cap Real) <= k
                      /\ (Cardinality(walk[n] \cap Real) = k => walk[n] \cap Real = Real)
  <2> SUFFICES ASSUME NEW n \in 0..k
               PROVE  IsFiniteSet(walk[n] \cap Real) /\ Cardinality(walk[n] \cap Real) \in Nat
                      /\ Cardinality(walk[n] \cap Real) <= k
                      /\ (Cardinality(walk[n] \cap Real) = k => walk[n] \cap Real = Real)
    OBVIOUS
  <2>1. walk[n] \cap Real \in SUBSET Real
    OBVIOUS
  <2>2. QED BY <1>1, <2>1, FS_Subset, FS_CardinalityType DEF k
<1>7. Fine(0)
  BY <1>1, <1>5, <1>6
<1>8. ASSUME NEW n \in 1..k, Fine(n - 1) PROVE Fine(n)
  <2>1. n - 1 \in 0..k /\ n \in 0..k /\ n \in Nat
    BY <1>1
  <2>2. walk[n] = walk[n - 1] \cup UNION {members[e] : e \in walk[n - 1] \cap Real}
    BY <1>5 DEF Nearer
  <2>3. CASE Closed(n - 1)
    <3>1. walk[n] = walk[n - 1]
      BY <2>2, <2>3
    <3>2. QED BY <1>8, <2>3, <3>1
  <2>4. CASE ~Closed(n - 1)
    <3>0. PICK g \in walk[n - 1] \cap Real : ~(members[g] \subseteq walk[n - 1])
      BY <2>4
    <3>1. PICK e \in members[g] : e \notin walk[n - 1]
      BY <3>0
    <3>2. e \in Real /\ e \in walk[n]
      BY <1>2, <2>2, <3>0, <3>1
    <3>3. walk[n - 1] \cap Real \in SUBSET (walk[n] \cap Real)
          /\ walk[n - 1] \cap Real # walk[n] \cap Real
      BY <2>2, <3>1, <3>2
    <3>4. Cardinality(walk[n - 1] \cap Real) # Cardinality(walk[n] \cap Real)
          /\ Cardinality(walk[n - 1] \cap Real) <= Cardinality(walk[n] \cap Real)
      BY <1>6, <2>1, <3>3, FS_Subset
    <3>5. Cardinality(walk[n] \cap Real) >= n
      <4> DEFINE before == Cardinality(walk[n - 1] \cap Real)
                 after == Cardinality(walk[n] \cap Real)
      <4>1. before >= n - 1 /\ before \in Nat /\ after \in Nat /\ before # after /\ before <= after
        BY <1>6, <1>8, <2>1, <2>4, <3>4
      <4> HIDE DEF before, after
      <4>2. after >= n
        BY <2>1, <4>1
      <4>3. QED BY <4>2 DEF after
    <3>6. QED BY <1>8, <2>2, <3>5
  <2>5. QED BY <2>3, <2>4
<1>9. Fine(k)
  <2> DEFINE bad == {n \in 0..k : ~Fine(n)}
  <2>1. SUFFICES ASSUME bad # {} PROVE FALSE
    <3>1. k \in 0..k
      BY <1>1
    <3> HIDE DEF Fine
    <3>2. QED BY <3>1
  <2>2. IsWellFoundedOn(Less, Nat)
    BY NatLessThanWellFounded DEF OpToRel
  <2>3. PICK n \in bad : \A j \in bad : ~(<<j, n>> \in Less)
    <3>1. bad \subseteq Nat
      BY <1>1
    <3> HIDE DEF bad, Less
    <3>2. QED BY <2>1, <2>2, <3>1, WFMin
  <2>4. n \in 1..k /\ n - 1 \in 0..k /\ <<n - 1, n>> \in Less
    <3>1. n # 0
      BY <1>7
    <3>2. n \in 0..k
      OBVIOUS
    <3> HIDE DEF Fine, bad
    <3>3. QED BY <1>1, <3>1, <3>2
  <2>5. Fine(n - 1)
    BY <2>3, <2>4
  <2>6. Fine(n)
    BY <1>8, <2>4, <2>5
  <2>7. QED BY <2>6
<1>10. Closed(k)
  <2>1. Cardinality(walk[k] \cap Real) >= k => walk[k] \cap Real = Real
    <3> DEFINE c == Cardinality(walk[k] \cap Real)
    <3>1. k \in 0..k
      BY <1>1
    <3>2. c \in Nat /\ c <= k /\ (c = k => walk[k] \cap Real = Real)
      BY <1>6, <3>1
    <3> HIDE DEF c
    <3>3. c >= k => c = k
      BY <1>1, <3>2
    <3>4. QED BY <3>2, <3>3 DEF c
  <2>2. QED BY <1>2, <1>9, <2>1
<1>11. QED BY <1>4, <1>9, <1>10

\* And nothing a set that holds all its members does not have.
LEMMA MembersReachNoMore ==
  ASSUME Housed, NEW S, NEW T, S \subseteq T, \A g \in T \cap Real : members[g] \subseteq T
  PROVE  ExpandMembers(S) \subseteq T
<1> DEFINE k == Cardinality(Real)
           walk == CHOOSE f : f = [n \in 0..k |-> IF n = 0 THEN S ELSE Nearer(f[n - 1])]
           Less == {p \in Nat \X Nat : p[1] < p[2]}
           bad == {n \in 0..k : ~(walk[n] \subseteq T)}
<1>1. k \in Nat
  BY GatesAssumption, FS_Subset, FS_CardinalityType DEF Real
<1>2. walk = [n \in 0..k |-> IF n = 0 THEN S ELSE Nearer(walk[n - 1])]
  <2> HIDE DEF k
  <2>1. QED BY <1>1, WalkExists
<1>3. ExpandMembers(S) = walk[k]
  BY DEF ExpandMembers, Nearer
<1> HIDE DEF k, walk
<1>4. walk[0] = S /\ \A n \in 1..k : walk[n] = Nearer(walk[n - 1])
  BY <1>1, <1>2
<1>5. SUFFICES ASSUME bad # {} PROVE FALSE
  BY <1>1, <1>3
<1>6. IsWellFoundedOn(Less, Nat)
  BY NatLessThanWellFounded DEF OpToRel
<1>7. PICK n \in bad : \A j \in bad : ~(<<j, n>> \in Less)
  <2>1. bad \subseteq Nat
    BY <1>1
  <2> HIDE DEF bad, Less
  <2>2. QED BY <1>5, <1>6, <2>1, WFMin
<1>8. n \in 1..k /\ n - 1 \in 0..k /\ <<n - 1, n>> \in Less
  BY <1>1, <1>4
<1>9. walk[n - 1] \subseteq T
  BY <1>7, <1>8
<1>10. walk[n] \subseteq T
  BY <1>4, <1>8, <1>9 DEF Nearer
<1>11. QED BY <1>10

\* What Home Assistant passes on, least set or not, holds what it began with and
\* all members of what it holds.
LEMMA PassedOnHolds ==
  ASSUME Housed, NEW S
  PROVE  /\ PassedOn(S) \subseteq Real /\ S \cap Real \subseteq PassedOn(S)
         /\ \A g \in PassedOn(S) : members[g] \subseteq PassedOn(S)
<1>1. members \in [Real -> SUBSET Real]
  BY DEF Housed
<1>2. QED BY <1>1 DEF PassedOn

LEMMA PassedOnLeast ==
  ASSUME NEW S, NEW s \in SUBSET Real, S \cap Real \subseteq s, \A g \in s : members[g] \subseteq s
  PROVE  PassedOn(S) \subseteq s
  BY DEF PassedOn

\* The walk finds exactly what is passed on.
LEMMA WalkIsPassedOn ==
  ASSUME Housed, NEW S \in SUBSET Real
  PROVE  ExpandMembers(S) = PassedOn(S)
<1>1. members \in [Real -> SUBSET Real]
  BY DEF Housed
<1>2. ExpandMembers(S) \in SUBSET Real
  <2>1. S \subseteq Real /\ \A g \in Real \cap Real : members[g] \subseteq Real
    BY <1>1
  <2>2. QED BY <2>1, MembersReachNoMore
<1>3. /\ S \cap Real \subseteq ExpandMembers(S)
      /\ \A g \in ExpandMembers(S) : members[g] \subseteq ExpandMembers(S)
  BY <1>2, MembersReached
<1>4. PassedOn(S) \subseteq ExpandMembers(S)
  BY <1>2, <1>3, PassedOnLeast
<1>5. S \subseteq PassedOn(S) /\ \A g \in PassedOn(S) \cap Real : members[g] \subseteq PassedOn(S)
  BY PassedOnHolds
<1>6. ExpandMembers(S) \subseteq PassedOn(S)
  BY <1>5, MembersReachNoMore
<1>7. QED BY <1>4, <1>6

-------------------------------------------------------------------------------
(* What a request that acts may reach. *)

\* Whatever acts is judged as an act, but for commands not in the catalogue.
LEMMA ActsAreMutations ==
  ASSUME NEW req \in Requests, ~(Calls(req) = {} /\ req.name \notin Writes),
         ~(req.kind = "ws" /\ ~Known(req.name) /\ ~InvokesAService(req))
  PROVE  IsMutation(req)
<1>1. CASE req.kind = "http"
  BY <1>1, RequestsAssumption DEF IsMutation, Calls
<1>2. CASE req.kind = "ws"
  BY <1>2, RequestsAssumption DEF IsMutation, InvokesAService, Calls
<1>3. QED BY <1>1, <1>2, RequestsAssumption

\* What is judged has to be permitted, one by one, if no recorded past helps.
LEMMA JudgedIsPermitted ==
  ASSUME NEW held, NEW veto, NEW req, Passes(held, veto, req), ~HasFullAccess(held, veto),
         IsMutation(req), NEW e \in Judged(req)
  PROVE  CheckEntity(held, veto, e, "control")
  BY DEF Passes, ResourceRefuses, WidenedBy, Key

\* A request that acts names what it is about, or nothing but a service that is
\* permitted as it is; what the gates answer for is what the walk collected.
LEMMA ActsAreBound ==
  ASSUME NEW held, NEW veto, NEW req \in Requests, Passes(held, veto, req),
         ~HasFullAccess(held, veto), IsMutation(req)
  PROVE  /\ RestsOnService(req) => ~ServiceRefuses(held, veto, req)
         /\ \A r \in req.refs :
              /\ r.at \notin {"loose", "segment"}
              /\ RestsOnService(req) => r.seen /\ r.id \notin {All, Template}
              => \/ r \in Extracted(req) /\ Literally(r) = StandsFor(r.kind, r.id)
                 \/ Literally(r) = {}
<1>1. ~BoundRefuses(held, veto, req)
  BY DEF Passes
<1>2. Bounded(req) \/ (RestsOnService(req) /\ ~ServiceRefuses(held, veto, req))
  BY <1>1 DEF BoundRefuses, RestsOnService
<1>3. RestsOnService(req) => ~Bounded(req)
  BY DEF RestsOnService
<1>4. ASSUME NEW r \in req.refs, r.at \notin {"loose", "segment"},
             RestsOnService(req) => r.seen /\ r.id \notin {All, Template}
      PROVE  \/ r \in Extracted(req) /\ Literally(r) = StandsFor(r.kind, r.id)
             \/ Literally(r) = {}
  <2>1. r.seen /\ r.id \notin {All, Template}
    <3>1. CASE RestsOnService(req)
      BY <1>4, <3>1
    <3>2. CASE Bounded(req)
      <4>1. ~req.cut
        BY <3>2 DEF Bounded
      <4>2. r.seen
        BY <1>4, <4>1, RequestsAssumption
      <4>3. QED BY <3>2, <4>2 DEF Bounded, Unbounded, Templated
    <3>3. QED BY <1>2, <3>1, <3>2
  <2>2. r.at \in {"target", "key", "path", "query"}
    BY <1>4, <2>1, RequestsAssumption
  <2>3. QED BY <2>1, <2>2 DEF Extracted, Literally, Sentinels
<1>5. QED BY <1>2, <1>3, <1>4

\* Whatever the gates answer for is judged, but for the script behind a service.
LEMMA AnsweredIsJudged ==
  ASSUME Housed, NEW held, NEW veto, NEW req \in Requests, Passes(held, veto, req),
         ~HasFullAccess(held, veto), IsMutation(req), NEW e \in Real, e \in AnsweredFor(req)
  PROVE  e \in Judged(req) \/ (RestsOnService(req) /\ e = Behind[req.called])
<1> DEFINE named == {r \in req.refs : /\ r.at \notin {"loose", "segment"}
                                      /\ RestsOnService(req) => r.seen /\ r.id \notin {All, Template}}
           mentioned == {r \in req.refs : r.at \in {"loose", "segment"} /\ r.seen}
           literal == UNION {Literally(r) : r \in named}
           reached == ExpandToEntities(Extracted(req))
<1>1. \/ e \in PassedOn(literal) \/ e \in {r.id : r \in mentioned}
      \/ RestsOnService(req) /\ e = Behind[req.called]
  BY DEF AnsweredFor
<1>2. ASSUME e \in PassedOn(literal) PROVE e \in Judged(req)
  <2>1. members \in [Real -> SUBSET Real]
    BY DEF Housed
  <2>2. literal \subseteq UNION {StandsFor(r.kind, r.id) : r \in Extracted(req)}
    <3> SUFFICES ASSUME NEW r \in named, NEW f \in Literally(r)
                 PROVE  f \in UNION {StandsFor(s.kind, s.id) : s \in Extracted(req)}
      OBVIOUS
    <3>1. r \in Extracted(req) /\ Literally(r) = StandsFor(r.kind, r.id)
      BY ActsAreBound
    <3>2. QED BY <3>1
  <2> HIDE DEF literal
  <2>3. literal \subseteq reached /\ \A g \in reached \cap Real : members[g] \subseteq reached
    BY <2>2, MembersReached DEF ExpandToEntities
  <2> HIDE DEF reached
  <2>4. PassedOn(literal) \subseteq reached \cap Real
    BY <2>1, <2>3, PassedOnLeast
  <2>5. QED BY <1>2, <2>4 DEF Judged, reached
<1>3. ASSUME e \in {r.id : r \in mentioned} PROVE e \in Judged(req)
  BY <1>3 DEF Judged, Mentioned, Segments
<1>4. QED
  <2> HIDE DEF literal, mentioned
  <2>1. QED BY <1>1, <1>2, <1>3

\* Whatever else is reached is reached in one of the ways listed.
LEMMA OverlookedIsListed ==
  ASSUME Housed, NEW req \in Requests, NEW e \in Acts(req), e \notin AnsweredFor(req)
  PROVE  Overlooks(req)
<1> SUFFICES ASSUME ~Overlooks(req) PROVE FALSE
  OBVIOUS
<1> DEFINE named == {r \in req.refs : /\ r.at \notin {"loose", "segment"}
                                      /\ RestsOnService(req) => r.seen /\ r.id \notin {All, Template}}
           mentioned == {r \in req.refs : r.at \in {"loose", "segment"} /\ r.seen}
           literal == UNION {Literally(r) : r \in named}
           ids == {r.id : r \in mentioned}
           all == {Behind[c] : c \in Calls(req)} \cup UNION {Referenced(r) : r \in req.refs}
           s == PassedOn(literal) \cup (ids \cap Real)
<1>1. e \in PassedOn(all)
  BY DEF Acts
<1>2. PassedOn(literal) \cup ids \subseteq AnsweredFor(req)
  BY DEF AnsweredFor
<1>3. ~RestsOnService(req) /\ \A c \in Calls(req) : Behind[c] = None
  BY DEF Overlooks
<1>4. ASSUME NEW r \in req.refs, NEW f \in Referenced(r), f \in Real PROVE f \in s
  <2>1. f \in Literally(r)
    <3> SUFFICES ASSUME r.kind = "label", AreaFor(f) # None, r.id \in AreaLabels[AreaFor(f)]
                 PROVE  FALSE
      BY <1>4 DEF Referenced
    <3>1. AreaFor(f) \in DOMAIN AreaLabels
      BY <1>4, GatesAssumption
    <3>2. QED BY <3>1 DEF Overlooks
  <2>2. CASE r.at \in {"loose", "segment"}
    <3>1. r.seen /\ r.kind = "entity" /\ r.id \notin {All, Template, None}
      BY <2>2, RequestsAssumption DEF Overlooks, Sentinels
    <3>2. f = r.id
      BY <2>1, <3>1 DEF Literally, StandsFor
    <3>3. QED BY <1>4, <2>2, <3>1, <3>2
  <2>3. CASE r.at \notin {"loose", "segment"}
    <3>1. f \in literal
      BY <1>3, <2>1, <2>3
    <3> HIDE DEF literal
    <3>2. QED BY <1>4, <3>1, PassedOnHolds
  <2>4. QED BY <2>2, <2>3
<1>5. None \notin Real
  BY GatesAssumption DEF Real
<1>6. all \cap Real \subseteq s
  <2> HIDE DEF s
  <2>1. QED BY <1>3, <1>4, <1>5
<1>7. ASSUME NEW i \in ids, i \in Real PROVE members[i] = {}
  BY <1>7 DEF Overlooks
<1> HIDE DEF literal, ids, all
<1>8. s \in SUBSET Real /\ \A g \in s : members[g] \subseteq s
  <2>1. PassedOn(literal) \subseteq Real /\ \A g \in PassedOn(literal) : members[g] \subseteq PassedOn(literal)
    BY PassedOnHolds
  <2>2. QED BY <1>7, <2>1
<1> HIDE DEF s
<1>9. e \in s
  BY <1>1, <1>6, <1>8, PassedOnLeast
<1>10. QED BY <1>2, <1>9 DEF s

LEMMA ActsArePermitted ==
  ASSUME Housed, NEW held, NEW veto, NEW req \in Requests, IsMutation(req),
         Passes(held, veto, req), ~HasFullAccess(held, veto), NEW e \in Acts(req),
         e \in AnsweredFor(req)
  PROVE  /\ CheckEntity(held, veto, e, "control")
         /\ DomainOf[e] \in SelectDomains /\ OptionsAllowed(held, e) # None
              => Leaves(req) \subseteq OptionsAllowed(held, e)
<1>1. e \in Real
  BY DEF Acts, PassedOn
<1>2. CASE e \in Judged(req)
  <2>1. CheckEntity(held, veto, e, "control")
    BY <1>2, JudgedIsPermitted
  <2>2. ASSUME OptionsAllowed(held, e) # None
        PROVE  Leaves(req) \subseteq OptionsAllowed(held, e)
    <3>1. ~ChoiceRefuses(held, req)
      BY DEF Passes
    <3>2. /\ SelectServices(req) \cap Cycling = {}
          /\ "select_option" \in SelectServices(req) => req.options \subseteq OptionsAllowed(held, e)
      BY <1>2, <2>2, <3>1 DEF ChoiceRefuses
    <3>3. QED BY <3>2 DEF Leaves
  <2>3. QED BY <2>1, <2>2
<1>3. CASE RestsOnService(req) /\ e = Behind[req.called]
  <2>1. req.called \in DOMAIN Behind /\ e # None
    BY <1>1, <1>3, RequestsAssumption, GatesAssumption DEF RestsOnService, CallsUntargeted, Real
  <2>2. DomainOf[e] \notin SelectDomains /\ req.called \notin AdminServices
    BY <1>3, <2>1, AnswersAssumption DEF SelectDomains
  <2>3. ~ServiceRefuses(held, veto, req)
    BY <1>3, ActsAreBound
  <2>4. CheckEntity(held, veto, e, "control")
    BY <1>3, <2>1, <2>2, <2>3 DEF ServiceRefuses
  <2>5. QED BY <2>2, <2>4
<1>4. QED BY <1>1, <1>2, <1>3, AnsweredIsJudged

\* Nobody below the administrators' tier passes with an unknown command, unless
\* it is a file or the layout of a dashboard they may edit.
LEMMA UnknownIsAdmins ==
  ASSUME NEW held, NEW veto, NEW req, Passes(held, veto, req), ~HasFullAccess(held, veto),
         ~Known(req.name)
  PROVE  \/ TierAllowed(held, req.name, "admin") \/ req.name \in Files
         \/ DashboardEdit(held, req)
  BY DEF Passes, TierRefuses, TierFor

-------------------------------------------------------------------------------
(* What a recording lets through. *)

LEMMA RecordedPasses ==
  ASSUME NEW old, IsRole(old), NEW req \in Requests
  PROVE  LET after == {Validated(Applied(old, Note(req)))} IN
         /\ ResourceRefuses(after, None, req) =>
              \/ \E e \in Judged(req) : Denied(old.deny, e, Key(req))
              \/ Segments(req) # {}
         /\ AppRefuses(after, req) => \E g \in old.apps.deny : \E a, b \in g : a # b
         /\ (CallsUntargeted(req) /\ Behind[req.called] # None /\ req.called \notin AdminServices
              /\ TierAllowed(after, req.called, "open") /\ ServiceRefuses(after, None, req))
              => Denied(old.deny, Behind[req.called], "control")
<1> DEFINE note == Note(req)
           new == Validated(Applied(old, note))
           after == {new}
<1>1. /\ ExpandToEntities(Extracted(req)) \cup Mentioned(req) \subseteq DOMAIN note.entities
      /\ req.called # None /\ Behind[req.called] # None => Behind[req.called] \in DOMAIN note.entities
      /\ \A e \in DOMAIN note.entities : note.entities[e] = Key(req)
      /\ note.apps = {app \in Apps : AppNamed(app, req)}
  BY DEF Note
<1>2. NotesKeys(note)
  BY <1>1 DEF NotesKeys, Key, Keys
<1>3. /\ \A e \in DOMAIN note.entities : Check(new, e, Key(req)) <=> ~Denied(old.deny, e, Key(req))
      /\ \A app \in note.apps :
           ~RolePermitsApp(new, app) => \E g \in old.apps.deny : app \in g /\ g # {app}
  <2> HIDE DEF note
  <2>1. QED BY <1>1, <1>2, RecordedIsPermitted
<1> HIDE DEF note, new
<1>4. \A e, key : CheckEntity(after, None, e, key) <=> Check(new, e, key)
  BY DEF CheckEntity
<1>5. ASSUME ResourceRefuses(after, None, req), Segments(req) = {}
      PROVE  \E e \in Judged(req) : Denied(old.deny, e, Key(req))
  <2>1. PICK e \in Judged(req) : ~Check(new, e, Key(req))
    BY <1>4, <1>5 DEF ResourceRefuses
  <2>2. e \in DOMAIN note.entities
    BY <1>1, <1>5 DEF Judged
  <2>3. QED BY <1>3, <2>1, <2>2
<1>6. ASSUME AppRefuses(after, req)
      PROVE  \E g \in old.apps.deny : \E a, b \in g : a # b
  <2>1. PICK app \in note.apps : ~RolePermitsApp(new, app)
    BY <1>1, <1>6 DEF AppRefuses, AppAllowed
  <2>2. PICK g \in old.apps.deny : app \in g /\ g # {app}
    BY <1>3, <2>1
  <2>3. QED BY <2>2
<1>7. ASSUME CallsUntargeted(req), Behind[req.called] # None, req.called \notin AdminServices,
             TierAllowed(after, req.called, "open"), ServiceRefuses(after, None, req)
      PROVE  Denied(old.deny, Behind[req.called], "control")
  <2>1. IsMutation(req)
    BY <1>7, RequestsAssumption DEF CallsUntargeted, IsMutation, InvokesAService
  <2>2. ~Check(new, Behind[req.called], "control")
    BY <1>4, <1>7 DEF ServiceRefuses
  <2>3. Behind[req.called] \in DOMAIN note.entities
    BY <1>1, <1>7 DEF CallsUntargeted
  <2>4. QED BY <1>3, <2>1, <2>2, <2>3 DEF Key
<1>8. QED BY <1>5, <1>6, <1>7 DEF note, new

-------------------------------------------------------------------------------
(* What comes back, filter by filter. *)

ReadableBy(held, veto) == {e \in Real : CheckEntity(held, veto, e, "read")}

\* What OnlyPermittedShown asks of a row, for what may be shown.
Fits(held, veto, shown, row) ==
  LET readable == ReadableBy(held, veto)
  IN  /\ (({row.entity, row.cause} \ {None}) \cup row.listed) \cap Real \subseteq shown
      /\ row.read # None =>
           ~row.read.all /\ {e \in Real : DomainOf[e] \in row.read.domains} \subseteq readable
      /\ row.entity \in Real => \A name \in row.names : ~AttributeHidden(held, row.entity, name)
      /\ row.holder # None =>
           LET inside == PassedOn(StandsFor(row.holder[1], row.holder[2]))
           IN  inside = {} \/ inside \cap readable # {}
      /\ row.app # None => row.app # "denial" /\ AppAllowed(held, row.app)

\* What holds entities is left standing only for one that may be read.
LEMMA HolderFits ==
  ASSUME Housed, NEW held, NEW veto, NEW row, HolderVisible(held, veto, row), row.holder # None,
         row.holder[1] \in {"device", "area", "floor", "label"}
  PROVE  LET inside == PassedOn(StandsFor(row.holder[1], row.holder[2]))
         IN  inside = {} \/ inside \cap ReadableBy(held, veto) # {}
<1> DEFINE within == StandsFor(row.holder[1], row.holder[2])
<1>1. within \in SUBSET Real
  BY DEF StandsFor
<1>2. ExpandMembers(within) = {} \/ \E e \in ExpandMembers(within) : Readable(held, veto, e)
  BY DEF HolderVisible
<1> HIDE DEF within
<1>3. ExpandMembers(within) = PassedOn(within) /\ PassedOn(within) \subseteq Real
  BY <1>1, WalkIsPassedOn, PassedOnHolds
<1>4. QED BY <1>2, <1>3 DEF within, ReadableBy, Readable

RowFields == {"entity", "cause", "names", "listed", "read", "holder", "app"}

\* A well formed row is a record, blank where its filter reads nothing.
LEMMA RowBlank ==
  ASSUME NEW command, NEW row, WellFormed(command, row), row.app # "denial"
  PROVE  /\ DOMAIN row = RowFields
         /\ "cause" \notin Fills(command, row) => row.cause = None
         /\ "names" \notin Fills(command, row) => row.names = {}
         /\ "listed" \notin Fills(command, row) => row.listed = {}
         /\ "read" \notin Fills(command, row) => row.read = None
         /\ "holder" \notin Fills(command, row) => row.holder = None
         /\ "app" \notin Fills(command, row) => row.app = None
         /\ "entity" \notin Fills(command, row) => row.entity = None
<1>1. DOMAIN Row(None, {}) = RowFields
  BY DEF Row, RowFields
<1>2. DOMAIN row = RowFields
      /\ \A field \in RowFields \ Fills(command, row) : row[field] = Row(None, {})[field]
  BY <1>1 DEF WellFormed
<1>3. /\ Row(None, {}).cause = None /\ Row(None, {}).names = {} /\ Row(None, {}).listed = {}
      /\ Row(None, {}).read = None /\ Row(None, {}).holder = None /\ Row(None, {}).app = None
      /\ Row(None, {}).entity = None
  BY DEF Row
<1>4. \A field \in RowFields : field \notin Fills(command, row) => row[field] = Row(None, {})[field]
  BY <1>2
<1>5. RowFields = {"entity", "cause", "names", "listed", "read", "holder", "app"}
  BY DEF RowFields
<1>6. QED BY <1>2, <1>3, <1>4, <1>5

\* Taking attributes out of a row changes nothing else about it.
LEMMA StrippedRow ==
  ASSUME NEW held, NEW row, DOMAIN row = RowFields
  PROVE  LET e == IF row.entity = None THEN Unknown ELSE row.entity IN
         /\ DOMAIN Stripped(held, row) = RowFields
         /\ \A field \in RowFields \ {"names"} : Stripped(held, row)[field] = row[field]
         /\ Stripped(held, row).names = {name \in row.names : ~AttributeHidden(held, e, name)}
  BY DEF Stripped, RowFields

LEMMA StateFits ==
  ASSUME NEW held, NEW veto, NEW shown, NEW row, DOMAIN row = RowFields,
         row.cause = None, row.listed = {}, row.read = None, row.holder = None, row.app = None,
         row.entity # None, row.entity \in Real => row.entity \in shown
  PROVE  Fits(held, veto, shown, Stripped(held, row))
<1> DEFINE new == Stripped(held, row)
<1>1. /\ new.entity = row.entity /\ new.cause = None /\ new.listed = {} /\ new.read = None
      /\ new.holder = None /\ new.app = None
      /\ new.names = {name \in row.names : ~AttributeHidden(held, row.entity, name)}
  BY StrippedRow DEF RowFields
<1> HIDE DEF new
<1>2. QED BY <1>1 DEF Fits, new

\* What is walked loses what may not be read, wherever it stands.
LEMMA PruneFits ==
  ASSUME Housed, NEW held, NEW veto, NEW shown, ReadableBy(held, veto) \subseteq shown,
         NEW row, DOMAIN row = RowFields, row.cause = None, row.read = None, row.app = None,
         row.holder # None => row.holder[1] \in {"device", "area", "floor", "label"},
         NEW new \in Prune(held, veto, row)
  PROVE  Fits(held, veto, shown, new)
<1> DEFINE thin == Stripped(held, row)
           e == IF row.entity = None THEN Unknown ELSE row.entity
<1>1. /\ row.entity # None => Readable(held, veto, row.entity)
      /\ HolderVisible(held, veto, row)
      /\ new = [thin EXCEPT !.listed = {f \in @ : Readable(held, veto, f)}]
  BY DEF Prune
<1>2. /\ DOMAIN thin = RowFields
      /\ \A field \in RowFields \ {"names"} : thin[field] = row[field]
      /\ thin.names = {name \in row.names : ~AttributeHidden(held, e, name)}
  BY StrippedRow
<1> HIDE DEF thin
<1>3. /\ new.entity = row.entity /\ new.cause = None /\ new.read = None /\ new.app = None
      /\ new.holder = row.holder
      /\ new.names = {name \in row.names : ~AttributeHidden(held, e, name)}
      /\ new.listed = {f \in row.listed : Readable(held, veto, f)}
  BY <1>1, <1>2 DEF RowFields
<1>4. None \notin Real
  BY GatesAssumption DEF Real
<1>5. (({new.entity, new.cause} \ {None}) \cup new.listed) \cap Real \subseteq shown
  BY <1>1, <1>3 DEF ReadableBy, Readable
<1>6. new.holder # None =>
        LET inside == PassedOn(StandsFor(new.holder[1], new.holder[2]))
        IN  inside = {} \/ inside \cap ReadableBy(held, veto) # {}
  BY <1>1, <1>3, HolderFits
<1>7. QED BY <1>3, <1>4, <1>5, <1>6 DEF Fits

\* A template's answer comes back only where it read nothing that may not be.
LEMMA TemplateFits ==
  ASSUME NEW held, NEW veto, NEW shown, ReadableBy(held, veto) \subseteq shown,
         NEW row, row.entity = None, row.cause = None, row.names = {}, row.holder = None,
         row.app = None, NEW new \in TemplateRow(held, veto, row)
  PROVE  Fits(held, veto, shown, new)
<1>1. /\ new = row /\ row.read # None /\ ~row.read.all
      /\ \A e \in row.listed : Readable(held, veto, e)
      /\ \A d \in row.read.domains : \A e \in {f \in Real : DomainOf[f] = d} : Readable(held, veto, e)
  BY DEF TemplateRow
<1>2. {e \in Real : DomainOf[e] \in row.read.domains} \subseteq ReadableBy(held, veto)
  BY <1>1 DEF ReadableBy, Readable
<1>3. QED BY <1>1, <1>2 DEF Fits, ReadableBy, Readable

LEMMA WholeFits ==
  ASSUME NEW held, NEW veto, NEW shown, ReadableBy(held, veto) \subseteq shown,
         NEW row, row.cause = None, row.names = {}, row.read = None, row.holder = None,
         row.app = None, NEW new \in WholeRow(held, veto, row)
  PROVE  Fits(held, veto, shown, new)
<1>1. new = row /\ \A e \in ({row.entity} \ {None}) \cup row.listed : Readable(held, veto, e)
  BY DEF WholeRow
<1>2. QED BY <1>1 DEF Fits, ReadableBy, Readable

LEMMA CardFits ==
  ASSUME NEW held, NEW veto, NEW shown, ReadableBy(held, veto) \subseteq shown,
         NEW row, DOMAIN row = RowFields, row.cause = None, row.names = {}, row.read = None,
         row.holder = None, row.app = None, NEW new \in CardRow(held, veto, row)
  PROVE  Fits(held, veto, shown, new)
<1>1. /\ row.entity # None => Readable(held, veto, row.entity)
      /\ new = [row EXCEPT !.listed = {f \in @ : Readable(held, veto, f)}]
  BY DEF CardRow
<1>2. /\ new.entity = row.entity /\ new.cause = None /\ new.names = {} /\ new.read = None
      /\ new.holder = None /\ new.app = None
      /\ new.listed = {f \in row.listed : Readable(held, veto, f)}
  BY <1>1 DEF RowFields
<1>3. QED BY <1>1, <1>2 DEF Fits, ReadableBy, Readable

LEMMA SearchFits ==
  ASSUME Housed, NEW held, NEW veto, NEW shown, ReadableBy(held, veto) \subseteq shown,
         NEW row, row.cause = None, row.names = {}, row.listed = {}, row.read = None, row.app = None,
         row.holder # None => row.holder[1] \in {"device", "area", "floor", "label"},
         NEW new \in SearchRow(held, veto, row)
  PROVE  Fits(held, veto, shown, new)
<1>1. /\ new = row /\ HolderVisible(held, veto, row)
      /\ row.entity # None => Readable(held, veto, row.entity)
  BY DEF SearchRow
<1>2. row.holder # None =>
        LET inside == PassedOn(StandsFor(row.holder[1], row.holder[2]))
        IN  inside = {} \/ inside \cap ReadableBy(held, veto) # {}
  BY <1>1, HolderFits
<1>3. QED BY <1>1, <1>2 DEF Fits, ReadableBy, Readable

\* A list of apps names those that may be seen, and so does a default panel.
LEMMA AppFits ==
  ASSUME NEW held, NEW veto, NEW shown, NEW row, DOMAIN row = RowFields,
         row.entity = None, row.cause = None, row.names = {}, row.listed = {}, row.read = None,
         row.holder = None, row.app # "denial",
         NEW new \in AppRow(held, row) \cup DefaultRow(held, row)
  PROVE  Fits(held, veto, shown, new)
<1> DEFINE instead == IF \E d \in Dashboards : AppAllowed(held, d)
                      THEN CHOOSE d \in Dashboards : AppAllowed(held, d) ELSE None
<1>1. None \notin Real
  BY GatesAssumption DEF Real
<1>2. instead # None => instead # "denial" /\ AppAllowed(held, instead)
  BY GatesAssumption, PolicyAssumption
<1>3. CASE new = row /\ AppAllowed(held, row.app)
  BY <1>1, <1>3 DEF Fits
<1>4. CASE new = [row EXCEPT !.app = instead]
  <2>1. /\ new.entity = None /\ new.cause = None /\ new.names = {} /\ new.listed = {}
        /\ new.read = None /\ new.holder = None /\ new.app = instead
    BY <1>4 DEF RowFields
  <2> HIDE DEF instead
  <2>2. QED BY <1>1, <1>2, <2>1 DEF Fits
<1>5. QED BY <1>3, <1>4 DEF AppRow, DefaultRow

\* One entity's history, and a logbook row, for what the section's grants add.
LEMMA LogbookFits ==
  ASSUME NEW held, NEW veto, NEW shown, NEW row, row.names = {}, row.listed = {}, row.read = None,
         row.holder = None, row.app = None,
         {e \in Real : PastAllowed(held, veto, "logbook", e)} \subseteq shown,
         NEW new \in LogbookRow(held, veto, row)
  PROVE  Fits(held, veto, shown, new)
<1>1. new = row /\ \A e \in {row.entity, row.cause} \ {None} : PastAllowed(held, veto, "logbook", e)
  BY DEF LogbookRow
<1>2. QED BY <1>1 DEF Fits

\* Which filter a command has, and what it fills in.
CommandSets ==
  StateCommands \cup HistoryCommands \cup LogbookCommands \cup TemplateCommands \cup WholeCommands
    \cup CardCommands \cup AppCommands \cup DefaultCommands \cup {"subscribe_events", "search/related"}

LEMMA Disjoint ==
  ASSUME NEW c
  PROVE  /\ c \in StateCommands => c \notin HistoryCommands \cup LogbookCommands \cup TemplateCommands
              \cup WholeCommands \cup CardCommands \cup AppCommands \cup DefaultCommands
              \cup {"subscribe_events", "search/related"}
         /\ c \in HistoryCommands => c \notin LogbookCommands \cup TemplateCommands
              \cup WholeCommands \cup CardCommands \cup AppCommands \cup DefaultCommands
              \cup {"subscribe_events", "search/related"}
         /\ c \in LogbookCommands => c \notin TemplateCommands
              \cup WholeCommands \cup CardCommands \cup AppCommands \cup DefaultCommands
              \cup {"subscribe_events", "search/related"}
         /\ c \in TemplateCommands => c \notin WholeCommands \cup CardCommands \cup AppCommands
              \cup DefaultCommands \cup {"subscribe_events", "search/related"}
         /\ c \in WholeCommands => c \notin CardCommands \cup AppCommands
              \cup DefaultCommands \cup {"subscribe_events", "search/related"}
         /\ c \in CardCommands => c \notin AppCommands
              \cup DefaultCommands \cup {"subscribe_events", "search/related"}
         /\ c \in AppCommands => c \notin DefaultCommands \cup {"subscribe_events", "search/related"}
         /\ c \in DefaultCommands => c \notin {"subscribe_events", "search/related"}
  BY DEF StateCommands, HistoryCommands, LogbookCommands, TemplateCommands, WholeCommands,
         CardCommands, AppCommands, DefaultCommands

LEMMA FilterOf ==
  ASSUME NEW held, NEW veto, NEW c, NEW row
  PROVE  LET kept == FilteredRow(held, veto, c, row) IN
         /\ c \in StateCommands =>
              kept = StateRow(held, veto, row) /\ Fills(c, row) = {"entity", "names"}
         /\ c \in HistoryCommands =>
              kept = HistoryRow(held, veto, row) /\ Fills(c, row) = {"entity", "names"}
         /\ c \in LogbookCommands =>
              kept = LogbookRow(held, veto, row) /\ Fills(c, row) = {"entity", "cause"}
         /\ c \in TemplateCommands =>
              kept = TemplateRow(held, veto, row) /\ Fills(c, row) = {"listed", "read"}
         /\ c \in WholeCommands =>
              kept = WholeRow(held, veto, row) /\ Fills(c, row) = {"entity", "listed"}
         /\ c \in CardCommands =>
              kept = CardRow(held, veto, row) /\ Fills(c, row) = {"entity", "listed"}
         /\ c \in AppCommands => kept = AppRow(held, row) /\ Fills(c, row) = {"app"}
         /\ c \in DefaultCommands => kept = DefaultRow(held, row) /\ Fills(c, row) = {"app"}
         /\ c = "search/related" =>
              kept = SearchRow(held, veto, row) /\ Fills(c, row) = {"entity", "holder"}
         /\ c = "subscribe_events" =>
              /\ kept = EventRow(held, veto, row)
              /\ Fills(c, row) = IF row.entity # None THEN {"entity", "names"}
                                 ELSE {"entity", "names", "listed", "holder"}
         /\ c \notin CommandSets =>
              kept = Prune(held, veto, row) /\ Fills(c, row) = {"entity", "names", "listed", "holder"}
<1>1. "search/related" # "subscribe_events"
  OBVIOUS
<1>2. QED BY <1>1, Disjoint DEF FilteredRow, Fills, CommandSets

\* Whatever the command, what its filter leaves of a row fits, for what may be
\* read and, of the past, for what its section grants.
LEMMA FilteredFits ==
  ASSUME Housed, NEW held, NEW veto, NEW shown, ReadableBy(held, veto) \subseteq shown,
         NEW c, NEW row, WellFormed(c, row), row.app # "denial",
         c \in HistoryCommands => {e \in Real : PastAllowed(held, veto, "history", e)} \subseteq shown,
         c \in LogbookCommands => {e \in Real : PastAllowed(held, veto, "logbook", e)} \subseteq shown,
         NEW new \in FilteredRow(held, veto, c, row)
  PROVE  Fits(held, veto, shown, new)
<1>1. /\ DOMAIN row = RowFields
      /\ c \in StateCommands \cup HistoryCommands => row.entity # None
      /\ row.holder # None => row.holder[1] \in {"device", "area", "floor", "label"}
  BY RowBlank DEF WellFormed
<1>2. CASE c \in StateCommands
  <2>1. /\ new = Stripped(held, row) /\ Readable(held, veto, row.entity) /\ row.entity # None
        /\ row.cause = None /\ row.listed = {} /\ row.read = None /\ row.holder = None
        /\ row.app = None
    BY <1>1, <1>2, FilterOf, RowBlank DEF StateRow
  <2>2. QED BY <1>1, <2>1, StateFits DEF ReadableBy, Readable
<1>3. CASE c \in HistoryCommands
  <2>1. /\ new = Stripped(held, row) /\ PastAllowed(held, veto, "history", row.entity)
        /\ row.entity # None /\ row.cause = None /\ row.listed = {} /\ row.read = None
        /\ row.holder = None /\ row.app = None
    BY <1>1, <1>3, FilterOf, RowBlank DEF HistoryRow
  <2>2. row.entity \in Real => row.entity \in shown
    BY <1>3, <2>1
  <2>3. QED BY <1>1, <2>1, <2>2, StateFits
<1>4. CASE c \in LogbookCommands
  <2>1. /\ new \in LogbookRow(held, veto, row)
        /\ row.names = {} /\ row.listed = {} /\ row.read = None /\ row.holder = None
        /\ row.app = None
    BY <1>4, FilterOf, RowBlank
  <2>2. QED BY <1>4, <2>1, LogbookFits
<1>5. CASE c \in TemplateCommands
  <2>1. /\ new \in TemplateRow(held, veto, row)
        /\ row.entity = None /\ row.cause = None /\ row.names = {} /\ row.holder = None
        /\ row.app = None
    BY <1>5, FilterOf, RowBlank
  <2>2. QED BY <2>1, TemplateFits
<1>6. CASE c \in WholeCommands \cup CardCommands
  <2>1. /\ new \in WholeRow(held, veto, row) \cup CardRow(held, veto, row)
        /\ row.cause = None /\ row.names = {} /\ row.read = None /\ row.holder = None
        /\ row.app = None
    BY <1>6, FilterOf, RowBlank
  <2>2. QED BY <1>1, <2>1, WholeFits, CardFits
<1>7. CASE c \in AppCommands \cup DefaultCommands
  <2>1. /\ new \in AppRow(held, row) \cup DefaultRow(held, row)
        /\ row.entity = None /\ row.cause = None /\ row.names = {} /\ row.listed = {}
        /\ row.read = None /\ row.holder = None
    BY <1>7, FilterOf, RowBlank
  <2>2. QED BY <1>1, <2>1, AppFits
<1>8. CASE c = "search/related"
  <2>1. /\ new \in SearchRow(held, veto, row)
        /\ row.cause = None /\ row.names = {} /\ row.listed = {} /\ row.read = None
        /\ row.app = None
    BY <1>8, FilterOf, RowBlank
  <2>2. QED BY <1>1, <2>1, SearchFits
<1>9. CASE c = "subscribe_events" /\ row.entity # None
  <2>1. /\ new = Stripped(held, row) /\ Readable(held, veto, row.entity)
        /\ row.cause = None /\ row.listed = {} /\ row.read = None /\ row.holder = None
        /\ row.app = None
    BY <1>9, FilterOf, RowBlank DEF EventRow, StateRow
  <2>2. QED BY <1>1, <1>9, <2>1, StateFits DEF ReadableBy, Readable
<1>10. CASE (c = "subscribe_events" /\ row.entity = None) \/ c \notin CommandSets
  <2>1. /\ new \in Prune(held, veto, row)
        /\ row.cause = None /\ row.read = None /\ row.app = None
    BY <1>10, FilterOf, RowBlank DEF EventRow
  <2>2. QED BY <1>1, <2>1, PruneFits
<1>11. QED BY <1>2, <1>3, <1>4, <1>5, <1>6, <1>7, <1>8, <1>9, <1>10 DEF CommandSets

\* What is shown of a command: what may be read, and the past its section grants.
ShownOf(held, veto, c) ==
  ReadableBy(held, veto) \cup
    CASE c \in HistoryCommands -> {e \in Real : PastAllowed(held, veto, "history", e)}
      [] c \in LogbookCommands -> {e \in Real : PastAllowed(held, veto, "logbook", e)}
      [] OTHER -> {}

LEMMA ShownOfPast ==
  ASSUME NEW held, NEW veto, NEW c
  PROVE  LET shown == ShownOf(held, veto, c) IN
         /\ ReadableBy(held, veto) \subseteq shown
         /\ c \in HistoryCommands => {e \in Real : PastAllowed(held, veto, "history", e)} \subseteq shown
         /\ c \in LogbookCommands => {e \in Real : PastAllowed(held, veto, "logbook", e)} \subseteq shown
  BY Disjoint DEF ShownOf

\* What is judged of a request over REST may be controlled, or is shown.
LEMMA JudgedIsShown ==
  ASSUME NEW held, NEW veto, NEW req, req.kind = "http", Passes(held, veto, req),
         ~HasFullAccess(held, veto), NEW e \in Judged(req), e \in Real
  PROVE  IF req.name \in Writes THEN CheckEntity(held, veto, e, "control")
         ELSE e \in ShownOf(held, veto, req.name)
<1>1. \/ CheckEntity(held, veto, e, Key(req))
      \/ WidenedBy(req) # None /\ PastAllowed(held, veto, WidenedBy(req), e)
  BY DEF Passes, ResourceRefuses
<1>2. CASE req.name \in Writes
  BY <1>1, <1>2 DEF Key, WidenedBy, IsMutation
<1>3. CASE req.name \notin Writes
  <2>1. Key(req) = "read"
    BY <1>3 DEF Key, IsMutation
  <2>2. CASE CheckEntity(held, veto, e, "read")
    BY <1>3, <2>2 DEF ShownOf, ReadableBy
  <2>3. CASE WidenedBy(req) # None /\ PastAllowed(held, veto, WidenedBy(req), e)
    <3>1. \/ req.name \in HistoryCommands /\ WidenedBy(req) = "history"
          \/ req.name \in LogbookCommands /\ WidenedBy(req) = "logbook"
      BY <2>3 DEF WidenedBy
    <3>2. QED BY <1>3, <2>3, <3>1, ShownOfPast
  <2>4. QED BY <1>1, <2>1, <2>2, <2>3
<1>4. QED BY <1>2, <1>3

\* Whatever is asked about is judged, unless it is what a service is named after.
LEMMA AskedIsJudged ==
  ASSUME Housed, NEW req \in Requests, NEW r \in req.refs, r.seen, r.id \notin Sentinels,
         NEW e \in StandsFor(r.kind, r.id), e \in Real
  PROVE  e \in Judged(req)
<1>1. CASE r.at \in {"loose", "segment"}
  <2>1. e = r.id
    BY <1>1, RequestsAssumption DEF StandsFor
  <2>2. QED BY <1>1, <2>1 DEF Judged, Mentioned, Segments
<1>2. CASE r.at \notin {"loose", "segment"}
  <2>1. r \in Extracted(req)
    BY <1>2, RequestsAssumption DEF Extracted, Sentinels
  <2>2. e \in UNION {StandsFor(s.kind, s.id) : s \in Extracted(req)}
    BY <2>1
  <2>3. e \in ExpandToEntities(Extracted(req))
    BY <2>2, MembersReached DEF ExpandToEntities
  <2>4. QED BY <2>3 DEF Judged
<1>3. QED BY <1>1, <1>2

\* A body that is not filtered goes back only where the request asks about
\* something, and all of that is permitted.
LEMMA WholeIsAsked ==
  ASSUME Housed, NEW held, NEW veto, NEW req \in Requests, Passes(held, veto, req),
         ~HasFullAccess(held, veto), req.kind = "http", Bodies[req.name] = "large",
         Relayed(held, veto, req) # {}
  PROVE  /\ AsksAbout(req) # {}
         /\ \A e \in AsksAbout(req) \cap Real :
              IF req.name \in Writes THEN CheckEntity(held, veto, e, "control")
              ELSE e \in ShownOf(held, veto, req.name)
<1> DEFINE asked == UNION {StandsFor(r.kind, r.id) : r \in {s \in req.refs : s.seen /\ s.id \notin Sentinels}}
           behind == IF RestsOnService(req) THEN {Behind[req.called]} \ {None} ELSE {}
<1>0. AsksAbout(req) = behind \cup asked
  BY DEF AsksAbout
<1>1. Resources(req) # {}
  BY DEF Relayed
<1>2. AsksAbout(req) # {}
  <2>1. CASE RestsOnService(req)
    BY <1>0, <1>1, <2>1 DEF Resources
  <2>2. CASE ~RestsOnService(req)
    <3>1. PICK e : e \in Judged(req)
      BY <1>1, <2>2 DEF Resources
    <3>2. CASE e \in Mentioned(req) \cup Segments(req)
      <4>1. PICK r \in req.refs : r.id = e /\ r.at \in {"loose", "segment"} /\ r.seen
        BY <3>2, RequestsAssumption DEF Mentioned, Segments
      <4>2. r.kind = "entity" /\ r.id \notin Sentinels
        BY <4>1, RequestsAssumption
      <4>3. e \in StandsFor(r.kind, r.id)
        BY <4>1, <4>2 DEF StandsFor
      <4>4. QED BY <1>0, <4>1, <4>2, <4>3
    <3>3. CASE e \in ExpandToEntities(Extracted(req))
      <4> DEFINE found == UNION {StandsFor(r.kind, r.id) : r \in Extracted(req)}
      <4>1. found \subseteq asked
        BY DEF Extracted
      <4>2. found # {}
        <5> SUFFICES ASSUME found = {} PROVE FALSE
          OBVIOUS
        <5> HIDE DEF found
        <5>1. ExpandMembers(found) \subseteq {}
          BY MembersReachNoMore
        <5>2. QED BY <3>3, <5>1 DEF ExpandToEntities, found
      <4>3. QED
        <5> HIDE DEF found, asked
        <5>1. QED BY <1>0, <4>1, <4>2
    <3>4. QED BY <3>1, <3>2, <3>3 DEF Judged
  <2>3. QED BY <2>1, <2>2
<1>3. ASSUME NEW e \in asked, e \in Real
      PROVE  IF req.name \in Writes THEN CheckEntity(held, veto, e, "control")
             ELSE e \in ShownOf(held, veto, req.name)
  <2>1. PICK r \in req.refs : r.seen /\ r.id \notin Sentinels /\ e \in StandsFor(r.kind, r.id)
    BY <1>3
  <2>2. e \in Judged(req)
    BY <1>3, <2>1, AskedIsJudged
  <2>3. QED BY <1>3, <2>2, JudgedIsShown
<1>4. ASSUME NEW e \in behind
      PROVE  req.name \in Writes /\ CheckEntity(held, veto, e, "control")
  <2>1. RestsOnService(req) /\ e = Behind[req.called] /\ e # None
    BY <1>4
  <2>2. req.called \in DOMAIN Behind /\ req.name \in Writes /\ req.called # None
    BY <2>1, RequestsAssumption DEF RestsOnService, CallsUntargeted
  <2>3. req.called \notin AdminServices
    BY <2>1, <2>2, AnswersAssumption
  <2>4. ~ServiceRefuses(held, veto, req)
    BY <2>1, <2>2, ActsAreBound DEF IsMutation
  <2>5. QED BY <2>1, <2>2, <2>3, <2>4 DEF ServiceRefuses
<1>5. QED
  <2> HIDE DEF asked, behind
  <2>1. QED BY <1>0, <1>2, <1>3, <1>4

LEMMA RelayedFits ==
  ASSUME Housed, NEW held, NEW veto, NEW req \in Requests, Passes(held, veto, req),
         ~HasFullAccess(held, veto), ~(req.kind = "http" /\ Bodies[req.name] = "large"),
         NEW row \in Relayed(held, veto, req)
  PROVE  Fits(held, veto, ShownOf(held, veto, req.name), row)
<1>1. req.kind \in {"ws", "http"} /\ req.name \in DOMAIN Answers
  BY RequestsAssumption
<1>2. CASE req.kind = "ws" \/ Bodies[req.name] = "json"
  <2>1. PICK answered \in Answers[req.name] :
             answered.app # "denial" /\ row \in FilteredRow(held, veto, req.name, answered)
    BY <1>2 DEF Relayed, Filtered
  <2>2. WellFormed(req.name, answered)
    BY <1>1, <2>1, AnswersAssumption
  <2>3. QED BY <2>1, <2>2, ShownOfPast, FilteredFits
<1>3. CASE req.kind = "http" /\ Bodies[req.name] \notin {"json", "large"}
  <2>1. PICK r \in req.refs :
               /\ Bodies[req.name] = "image" /\ r.at \in {"path", "query", "segment"}
               /\ \E e \in StandsFor(r.kind, r.id) : row = Row(e, {})
    BY <1>3 DEF Relayed
  <2>2. PICK e \in StandsFor(r.kind, r.id) : row = Row(e, {})
    BY <2>1
  <2>3. /\ row.entity = e /\ row.cause = None /\ row.listed = {} /\ row.names = {}
        /\ row.read = None /\ row.holder = None /\ row.app = None
    BY <2>2 DEF Row
  <2>4. req.name \notin Writes
    BY <1>3, <2>1, RequestsAssumption, AnswersAssumption
  <2>5. ASSUME e \in Real PROVE e \in ShownOf(held, veto, req.name)
    <3>1. r.seen /\ r.id \notin Sentinels
      BY <2>1, RequestsAssumption
    <3>2. e \in Judged(req)
      BY <2>2, <2>5, <3>1, AskedIsJudged
    <3>3. QED BY <1>3, <2>4, <2>5, <3>2, JudgedIsShown
  <2>6. QED BY <2>3, <2>5 DEF Fits
<1>4. QED BY <1>1, <1>2, <1>3

-------------------------------------------------------------------------------
(* Theorems. *)

\* However requests, roles and denials are, one more role takes no request away.
THEOREM MoreRolesPass == GSpec => []RolesOnlyAdd
<1>1. RolesOnlyAdd
  BY PassesAdd DEF RolesOnlyAdd
<1>2. QED BY <1>1, PTL

\* Whatever house, groups and roles there are, whatever passes reaches only what
\* may be controlled, and leaves no select where it may not be.
THEOREM ActsStayPermitted == GSpec => []OnlyPermittedActs
<1>1. Housed => OnlyPermittedActs
  <2> SUFFICES ASSUME Housed, NEW req \in Requests, NEW held \in Holdings, NEW veto \in Denials,
                      Acts(req) # {}, ~HasFullAccess(held, veto), Passes(held, veto, req)
               PROVE
      IF req.kind = "ws" /\ ~Known(req.name) /\ ~InvokesAService(req)
      THEN \/ TierAllowed(held, req.name, "admin") \/ req.name \in Files
           \/ DashboardEdit(held, req)
      ELSE /\ \A e \in Acts(req) :
                \/ e \notin AnsweredFor(req) /\ Overlooks(req)
                \/ /\ CheckEntity(held, veto, e, "control")
                   /\ DomainOf[e] \in SelectDomains /\ OptionsAllowed(held, e) # None
                        => Leaves(req) \subseteq OptionsAllowed(held, e)
           /\ RestsOnService(req) => ~ServiceRefuses(held, veto, req)
    BY DEF OnlyPermittedActs
  <2>1. CASE req.kind = "ws" /\ ~Known(req.name) /\ ~InvokesAService(req)
    BY <2>1, UnknownIsAdmins
  <2>2. CASE ~(req.kind = "ws" /\ ~Known(req.name) /\ ~InvokesAService(req))
    <3>1. ~(Calls(req) = {} /\ req.name \notin Writes)
      BY DEF Acts
    <3>2. IsMutation(req)
      BY <2>2, <3>1, ActsAreMutations
    <3>3. RestsOnService(req) => ~ServiceRefuses(held, veto, req)
      BY <3>2, ActsAreBound
    <3>4. QED BY <2>2, <3>2, <3>3, ActsArePermitted, OverlookedIsListed
  <2>3. QED BY <2>1, <2>2
<1>2. QED BY <1>1, AlwaysHoused, PTL

\* A role recorded while a request was made lets it through once it is applied.
THEOREM RecordedLetsThrough == GSpec => []RecordingLetsThrough
<1>1. Housed => RecordingLetsThrough
  <2> SUFFICES ASSUME Housed, NEW r \in Custom, NEW req \in Requests
               PROVE  LET after == {Validated(Applied(roles[r], Note(req)))} IN
         /\ ResourceRefuses(after, None, req) =>
              \/ \E e \in Judged(req) : Denied(roles[r].deny, e, Key(req))
              \/ Segments(req) # {}
         /\ AppRefuses(after, req) => \E g \in roles[r].apps.deny : \E a, b \in g : a # b
         /\ (CallsUntargeted(req) /\ Behind[req.called] # None /\ req.called \notin AdminServices
              /\ TierAllowed(after, req.called, "open") /\ ServiceRefuses(after, None, req))
              => Denied(roles[r].deny, Behind[req.called], "control")
    BY DEF RecordingLetsThrough
  <2>1. IsRole(roles[r])
    BY DEF Housed, TypeOK
  <2>2. QED BY <2>1, RecordedPasses
<1>2. QED BY <1>1, AlwaysHoused, PTL

\* Whatever house, groups and roles there are, whatever comes back shows only
\* what may be seen.
THEOREM AnswersStayPermitted == GSpec => []OnlyPermittedShown
<1>1. Housed => OnlyPermittedShown
  <2> SUFFICES ASSUME Housed, NEW held \in Holdings, NEW veto \in Denials,
                      ~HasFullAccess(held, veto), NEW req \in Requests, Passes(held, veto, req),
                      NEW row \in Relayed(held, veto, req)
               PROVE
      LET readable == {e \in Real : CheckEntity(held, veto, e, "read")}
          past == [section \in GrantSections |-> {e \in Real : PastAllowed(held, veto, section, e)}]
          shown == readable \cup CASE req.name \in HistoryCommands -> past["history"]
                                   [] req.name \in LogbookCommands -> past["logbook"]
                                   [] OTHER -> {}
          whole == req.kind = "http" /\ Bodies[req.name] = "large"
      IN  IF whole
          THEN /\ AsksAbout(req) # {}
               /\ \A e \in AsksAbout(req) \cap Real :
                    IF req.name \in Writes THEN CheckEntity(held, veto, e, "control") ELSE e \in shown
          ELSE /\ (({row.entity, row.cause} \ {None}) \cup row.listed) \cap Real \subseteq shown
               /\ row.read # None =>
                    ~row.read.all /\ {e \in Real : DomainOf[e] \in row.read.domains} \subseteq readable
               /\ row.entity \in Real =>
                    \A name \in row.names : ~AttributeHidden(held, row.entity, name)
               /\ row.holder # None =>
                    LET inside == PassedOn(StandsFor(row.holder[1], row.holder[2]))
                    IN  inside = {} \/ inside \cap readable # {}
               /\ row.app # None => row.app # "denial" /\ AppAllowed(held, row.app)
    BY DEF OnlyPermittedShown
  <2> DEFINE readable == {e \in Real : CheckEntity(held, veto, e, "read")}
             past == [section \in GrantSections |-> {e \in Real : PastAllowed(held, veto, section, e)}]
             shown == readable \cup CASE req.name \in HistoryCommands -> past["history"]
                                      [] req.name \in LogbookCommands -> past["logbook"]
                                      [] OTHER -> {}
  <2>1. shown = ShownOf(held, veto, req.name)
    BY DEF ShownOf, ReadableBy, GrantSections
  <2>2. CASE req.kind = "http" /\ Bodies[req.name] = "large"
    <3> HIDE DEF shown
    <3>1. QED BY <2>1, <2>2, WholeIsAsked DEF shown
  <2>3. CASE ~(req.kind = "http" /\ Bodies[req.name] = "large")
    <3>1. Fits(held, veto, shown, row)
      <4> HIDE DEF shown
      <4>1. QED BY <2>1, <2>3, RelayedFits
    <3>2. QED BY <2>3, <3>1 DEF Fits, ReadableBy
  <2>4. QED BY <2>2, <2>3
<1>2. QED BY <1>1, AlwaysHoused, PTL
=============================================================================
