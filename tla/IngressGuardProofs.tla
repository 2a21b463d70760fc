------------------------- MODULE IngressGuardProofs -------------------------
(***************************************************************************)
(* What holds of the ingress guard for any add-ons, users, sessions and    *)
(* concurrent requests, whatever the Supervisor answers and when.          *)
(***************************************************************************)
EXTENDS IngressGuard, FiniteSetTheorems, WellFoundedInduction, TLAPS

\* What is installed is in the map or was installed since the list behind it;
\* and while a map is being made, in what was found, in what is still to be
\* asked about, or installed since that list.
Covered ==
  /\ loadedAt # None => installed \subseteq slugs \cup newer
  /\ holder # None /\ todo # None => installed \subseteq todo \cup found \cup newest

\* A session is its minter's, and so is a request that waits for its user.
Owned ==
  /\ \A s \in Known : sessions[s].user = minter[s]
  /\ \A r \in Requests : request[r].at = "naming" =>
       /\ request[r].cookie \in Sessions
       /\ request[r].user \in Users
       /\ request[r].user = minter[request[r].cookie]

Inductive == TypeOK /\ Covered /\ Owned

-------------------------------------------------------------------------------
(* The gate. *)

\* Whoever is looked up is the session's minter.
LEMMA SessionIsItsMinters ==
  ASSUME Inductive, NEW s \in Sessions, SessionUser(s) # None
  PROVE  SessionUser(s) \in Users /\ SessionUser(s) = minter[s]
  BY DEF SessionUser, Known, Inductive, TypeOK, Owned, Entries

\* What expires is dropped, and nothing else of a session changes.
LEMMA DropKeepsSessions ==
  ASSUME Inductive, NEW s \in Sessions
  PROVE  /\ DropExpired(s) \in [Sessions -> Entries \cup {None}]
         /\ \A x \in Sessions : DropExpired(s)[x] # None => DropExpired(s)[x] = sessions[x]
  BY DEF DropExpired, Inductive, TypeOK

\* A request that is resolved keeps its token, passes as unguarded only if that
\* is no add-on's, and waits only for its session's minter.
LEMMA ResolvedAnswers ==
  ASSUME Inductive, NEW r \in Requests, NEW req \in Request, NEW isAddon \in BOOLEAN,
         Resolved(r, req, isAddon)
  PROVE  /\ sessions' \in [Sessions -> Entries \cup {None}]
         /\ request' \in [Requests -> Request]
         /\ \A x \in Requests \ {r} : request'[x] = request[x]
         /\ request'[r].token = req.token
         /\ request'[r].at \in {"unguarded", "refused", "naming"}
         /\ request'[r].at = "unguarded" => ~isAddon
         /\ request'[r].at = "naming" =>
              /\ request'[r].cookie \in Sessions /\ request'[r].user \in Users
              /\ request'[r].user = minter[request'[r].cookie]
         /\ \A s \in Sessions : sessions'[s] # None => sessions'[s] = sessions[s]
<1> DEFINE Answer(at, user) == [req EXCEPT !.at = at, !.user = user]
<1>1. \A at \in Stages, user \in Users \cup {None} :
        /\ Answer(at, user) \in Request /\ Answer(at, user).at = at
        /\ Answer(at, user).token = req.token /\ Answer(at, user).cookie = req.cookie
        /\ Answer(at, user).user = user
  BY DEF Request
<1>2. \A at \in Stages : [req EXCEPT !.at = at] = Answer(at, req.user)
  BY DEF Request
<1>3. request \in [Requests -> Request]
  BY DEF Inductive, TypeOK
<1>4. CASE ~isAddon \/ req.cookie = None
  <2>1. PICK at \in {"unguarded", "refused"} :
               /\ request' = [request EXCEPT ![r] = Answer(at, req.user)] /\ UNCHANGED sessions
               /\ at = "unguarded" => ~isAddon
    BY <1>2, <1>4 DEF Resolved, Stages
  <2>2. at \in Stages /\ req.user \in Users \cup {None}
    BY DEF Stages, Request
  <2>3. request'[r] = Answer(at, req.user)
    BY <1>3, <2>1
  <2> HIDE DEF Answer
  <2>4. QED BY <1>1, <1>3, <2>1, <2>2, <2>3 DEF Inductive, TypeOK
<1>5. CASE isAddon /\ req.cookie # None
  <2>1. /\ sessions' = DropExpired(req.cookie)
        /\ request' = [request EXCEPT ![r] =
             Answer(IF SessionUser(req.cookie) = None THEN "refused" ELSE "naming",
                    SessionUser(req.cookie))]
    BY <1>5 DEF Resolved
  <2>2. req.cookie \in Sessions
    BY <1>5 DEF Request
  <2>3. /\ SessionUser(req.cookie) \in Users \cup {None}
        /\ SessionUser(req.cookie) # None =>
             SessionUser(req.cookie) \in Users /\ SessionUser(req.cookie) = minter[req.cookie]
    BY <2>2, SessionIsItsMinters
  <2>4. /\ sessions' \in [Sessions -> Entries \cup {None}]
        /\ \A s \in Sessions : sessions'[s] # None => sessions'[s] = sessions[s]
    BY <2>1, <2>2, DropKeepsSessions
  <2>5. CASE SessionUser(req.cookie) = None
    <3>1. request' = [request EXCEPT ![r] = Answer("refused", None)]
      BY <2>1, <2>5
    <3> HIDE DEF Answer
    <3>2. Answer("refused", None) \in Request /\ Answer("refused", None).at = "refused"
          /\ Answer("refused", None).token = req.token
      BY <1>1 DEF Stages
    <3>3. QED BY <1>3, <2>4, <3>1, <3>2
  <2>6. CASE SessionUser(req.cookie) # None
    <3> DEFINE user == SessionUser(req.cookie)
    <3>1. request' = [request EXCEPT ![r] = Answer("naming", user)]
      BY <2>1, <2>6
    <3>2. user \in Users /\ user = minter[req.cookie]
      BY <2>3, <2>6
    <3> HIDE DEF Answer, user
    <3>3. /\ Answer("naming", user) \in Request /\ Answer("naming", user).at = "naming"
          /\ Answer("naming", user).token = req.token /\ Answer("naming", user).cookie = req.cookie
          /\ Answer("naming", user).user = user
      BY <1>1, <3>2 DEF Stages
    <3>4. QED BY <1>3, <2>2, <2>4, <3>1, <3>2, <3>3
  <2>7. QED BY <2>5, <2>6
<1>6. QED BY <1>4, <1>5

\* A request whose token is in hand stays what it was but for its answer.
LEMMA ResolvedKeepsOwned ==
  ASSUME Inductive, NEW r \in Requests, NEW req \in Request, NEW isAddon \in BOOLEAN,
         Resolved(r, req, isAddon), UNCHANGED minter
  PROVE  Owned'
<1>1. \A s \in Known' : sessions'[s].user = minter'[s]
  BY ResolvedAnswers DEF Known, Inductive, Owned
<1>2. \A x \in Requests : request'[x].at = "naming" =>
        /\ request'[x].cookie \in Sessions /\ request'[x].user \in Users
        /\ request'[x].user = minter'[request'[x].cookie]
  BY ResolvedAnswers DEF Inductive, Owned
<1>3. QED BY <1>1, <1>2 DEF Owned

\* A stage but "naming" asks nothing of the request.
LEMMA StageKeeps ==
  ASSUME Inductive, NEW r \in Requests, NEW at \in Stages \ {"naming"}, Stage(r, at),
         UNCHANGED <<sessions, minter>>
  PROVE  request' \in [Requests -> Request] /\ Owned'
<1>1. request \in [Requests -> Request]
  BY DEF Inductive, TypeOK
<1>2. /\ request' \in [Requests -> Request]
      /\ \A x \in Requests \ {r} : request'[x] = request[x]
      /\ request'[r].at = at
  BY <1>1 DEF Stage, Request
<1>3. Owned'
  BY <1>2 DEF Inductive, Owned, Known
<1>4. QED BY <1>2, <1>3

-------------------------------------------------------------------------------
(* The induction, one lemma per step. *)

LEMMA InductiveInit == Init => Inductive
<1> SUFFICES ASSUME Init PROVE Inductive
  OBVIOUS
<1>1. TypeOK
  <2>1. request \in [Requests -> Request]
    BY DEF Init, Request, Stages
  <2>2. now \in Time
    BY GuardAssumption DEF Init, Time
  <2>3. sessions \in [Sessions -> Entries \cup {None}] /\ minter \in [Sessions -> Users \cup {None}]
    BY DEF Init
  <2>4. waiters \in Seq(Requests) /\ opens \in [Users -> SUBSET Tokens]
    BY DEF Init
  <2>5. loadedAt = None /\ holder = None /\ todo = None
    BY DEF Init
  <2>6. /\ loadedAt \in Time \cup {None}
        /\ holder \in Requests \cup {None}
        /\ todo \in (SUBSET Tokens) \cup {None}
    BY <2>5
  <2>7. slugs \subseteq Tokens /\ found \subseteq Tokens /\ installed \subseteq Tokens
    BY DEF Init
  <2>8. accounts \subseteq Users /\ newer \subseteq Tokens /\ newest \subseteq Tokens
    BY DEF Init
  <2>9. QED BY <2>1, <2>2, <2>3, <2>4, <2>6, <2>7, <2>8 DEF TypeOK
<1>2. Covered /\ Owned
  BY DEF Init, Covered, Owned, Known
<1>3. QED BY <1>1, <1>2 DEF Inductive

LEMMA RememberKeeps ==
  ASSUME Inductive, NEW s \in Sessions, NEW u \in Users, Remember(s, u)
  PROVE  Inductive'
<1> USE DEF Inductive, Remember, guard, people
<1>1. PICK room \in SUBSET Sessions :
        sessions' = [x \in Sessions |->
           IF x = s THEN [user |-> u, stamp |-> now]
           ELSE IF x \in room THEN sessions[x] ELSE None]
  BY DEF Unexpired, Known
<1>2. minter' = [minter EXCEPT ![s] = u] /\ minter[s] = None
  OBVIOUS
<1>3. TypeOK'
  BY <1>1, <1>2 DEF TypeOK, Entries
<1>4. Owned'
  <2>1. \A x \in Known' : sessions'[x].user = minter'[x]
    BY <1>1, <1>2 DEF Owned, Known, TypeOK
  <2>2. \A r \in Requests : request[r].at = "naming" => request[r].cookie # s
    BY <1>2, GuardAssumption DEF Owned
  <2>3. QED BY <1>2, <2>1, <2>2 DEF Owned, TypeOK
<1>5. Covered'
  BY DEF Covered
<1>6. QED BY <1>3, <1>4, <1>5

LEMMA TouchKeeps ==
  ASSUME Inductive, NEW s \in Sessions, Touch(s)
  PROVE  Inductive'
<1> USE DEF Inductive, Touch, guard, people, history
<1>1. sessions[s] \in Entries /\ s \in Known
  BY DEF TypeOK, Known
<1>2. /\ sessions' = [sessions EXCEPT ![s] = [sessions[s] EXCEPT !.stamp = now]]
      /\ [sessions[s] EXCEPT !.stamp = now] \in Entries
      /\ [sessions[s] EXCEPT !.stamp = now].user = sessions[s].user
  BY <1>1 DEF TypeOK, Entries
<1>3. TypeOK'
  BY <1>2 DEF TypeOK
<1>4. Owned'
  BY <1>1, <1>2 DEF Owned, Known, TypeOK
<1>5. Covered'
  BY DEF Covered
<1>6. QED BY <1>3, <1>4, <1>5

LEMMA ArriveKeeps ==
  ASSUME Inductive, NEW r \in Requests, NEW t \in Tokens, NEW c \in Sessions \cup {None},
         Arrive(r, t, c)
  PROVE  Inductive' /\ ~Answered(r, "unguarded") /\ ~Answered(r, "opened")
         /\ \A x \in Requests \ {r} : request'[x] = request[x]
<1> USE DEF Arrive, people, history
<1> DEFINE req == [at |-> "waiting", token |-> t, cookie |-> c, user |-> None]
<1>1. req \in Request /\ req.at = "waiting"
  BY DEF Request, Stages
<1>2. Covered'
  BY DEF Inductive, Covered
<1>3. CASE t \in slugs
  <2>1. Resolved(r, req, TRUE) /\ UNCHANGED waiters
    BY <1>3
  <2> HIDE DEF req
  <2>2. /\ sessions' \in [Sessions -> Entries \cup {None}]
        /\ request' \in [Requests -> Request] /\ Owned'
        /\ \A x \in Requests \ {r} : request'[x] = request[x]
        /\ request'[r].at \in {"refused", "naming"}
    BY <1>1, <2>1, ResolvedAnswers, ResolvedKeepsOwned
  <2>3. TypeOK'
    BY <2>1, <2>2 DEF Inductive, TypeOK
  <2>4. QED BY <1>2, <2>2, <2>3 DEF Inductive, Answered
<1>4. CASE t \notin slugs
  <2>1. request' = [request EXCEPT ![r] = req] /\ waiters' = Append(waiters, r) /\ UNCHANGED sessions
    BY <1>4
  <2> HIDE DEF req
  <2>2. /\ request' \in [Requests -> Request] /\ request'[r] = req
        /\ \A x \in Requests \ {r} : request'[x] = request[x]
    BY <1>1, <2>1 DEF Inductive, TypeOK
  <2>3. waiters' \in Seq(Requests)
    BY <2>1 DEF Inductive, TypeOK
  <2>4. TypeOK'
    BY <2>1, <2>2, <2>3 DEF Inductive, TypeOK
  <2>5. Owned'
    BY <1>1, <2>1, <2>2 DEF Inductive, Owned, Known
  <2>6. QED BY <1>1, <1>2, <2>2, <2>4, <2>5 DEF Inductive, Answered
<1>5. QED BY <1>3, <1>4

LEMMA AnswerFromMapKeeps ==
  ASSUME Inductive, NEW r \in Requests, AnswerFromMap(r)
  PROVE  /\ Inductive'
         /\ \A x \in Requests \ {r} : request'[x] = request[x]
         /\ request'[r].at # "opened" /\ request'[r].token = request[r].token
         /\ request'[r].at = "unguarded" => request[r].token \notin slugs /\ MapIsFresh
<1> USE DEF AnswerFromMap, Acquire, people, history
<1>1. request[r] \in Request
  BY DEF Inductive, TypeOK
<1>2. /\ sessions' \in [Sessions -> Entries \cup {None}]
      /\ request' \in [Requests -> Request] /\ Owned'
      /\ \A x \in Requests \ {r} : request'[x] = request[x]
      /\ request'[r].at \in {"unguarded", "refused", "naming"}
      /\ request'[r].token = request[r].token
      /\ request'[r].at = "unguarded" => request[r].token \notin slugs
  <2>1. CASE request[r].token \in slugs
    <3>1. Resolved(r, request[r], TRUE)
      BY <2>1 DEF Resolved
    <3>2. QED BY <1>1, <3>1, ResolvedAnswers, ResolvedKeepsOwned
  <2>2. CASE request[r].token \notin slugs
    <3>1. Resolved(r, request[r], FALSE)
      BY <2>2 DEF Resolved
    <3>2. QED BY <1>1, <2>2, <3>1, ResolvedAnswers, ResolvedKeepsOwned
  <2>3. QED BY <2>1, <2>2
<1>3. waiters' \in Seq(Requests)
  BY DEF Inductive, TypeOK
<1>4. TypeOK'
  BY <1>2, <1>3 DEF Inductive, TypeOK
<1>5. Covered'
  BY DEF Inductive, Covered
<1>6. QED BY <1>2, <1>4, <1>5 DEF Inductive

LEMMA LoadedKeeps ==
  ASSUME Inductive, NEW r \in Requests, Loaded(r)
  PROVE  /\ Inductive'
         /\ \A x \in Requests \ {r} : request'[x] = request[x]
         /\ request'[r].at # "opened" /\ request'[r].token = request[r].token
         /\ request'[r].at = "unguarded" => request[r].token \notin slugs'
<1> USE DEF Loaded, people
<1>1. request[r] \in Request
  BY DEF Inductive, TypeOK
<1>2. /\ sessions' \in [Sessions -> Entries \cup {None}]
      /\ request' \in [Requests -> Request] /\ Owned'
      /\ \A x \in Requests \ {r} : request'[x] = request[x]
      /\ request'[r].at \in {"unguarded", "refused", "naming"}
      /\ request'[r].token = request[r].token
      /\ request'[r].at = "unguarded" => request[r].token \notin slugs'
  <2>1. CASE request[r].token \in found
    <3>1. Resolved(r, request[r], TRUE)
      BY <2>1 DEF Resolved
    <3>2. QED BY <1>1, <3>1, ResolvedAnswers, ResolvedKeepsOwned
  <2>2. CASE request[r].token \notin found
    <3>1. Resolved(r, request[r], FALSE)
      BY <2>2 DEF Resolved
    <3>2. QED BY <1>1, <2>2, <3>1, ResolvedAnswers, ResolvedKeepsOwned
  <2>3. QED BY <2>1, <2>2
<1>3. TypeOK'
  BY <1>2 DEF Inductive, TypeOK
<1>4. Covered'
  <2>1. installed \subseteq slugs' \cup newer'
    BY GuardAssumption DEF Inductive, Covered, TypeOK
  <2>2. QED BY <2>1 DEF Covered
<1>5. QED BY <1>2, <1>3, <1>4 DEF Inductive

\* The steps of a load but the last: the list, an add-on of it, a failure.
LEMMA LoadKeeps ==
  ASSUME Inductive, NEW r \in Requests,
         StartLoad(r) \/ Listed(r) \/ (\E t \in Tokens : InfoOf(r, t)) \/ LoadFails(r)
  PROVE  /\ Inductive'
         /\ \A x \in Requests \ {r} : request'[x] = request[x]
         /\ request'[r].at \in {request[r].at, "loading", "refused"}
<1> USE DEF people, history
<1>1. request \in [Requests -> Request]
  BY DEF Inductive, TypeOK
<1>2. CASE StartLoad(r)
  <2> USE <1>2 DEF StartLoad, Acquire
  <2>1. request' \in [Requests -> Request] /\ Owned'
    BY StageKeeps DEF Stages
  <2>2. waiters' \in Seq(Requests)
    BY DEF Inductive, TypeOK
  <2>3. TypeOK'
    <3>1. holder' = r /\ todo' = None /\ found' = {}
      OBVIOUS
    <3>2. holder' \in Requests \cup {None} /\ todo' \in (SUBSET Tokens) \cup {None}
      BY <3>1
    <3>3. found' \subseteq Tokens
      BY <3>1
    <3>4. QED BY <2>1, <2>2, <3>2, <3>3 DEF Inductive, TypeOK
  <2>4. Covered'
    BY DEF Inductive, Covered
  <2>5. QED BY <1>1, <2>1, <2>3, <2>4 DEF Inductive, Stage, Request
<1>3. CASE Listed(r)
  <2> USE <1>3 DEF Listed
  <2>1. TypeOK' /\ Covered'
    BY DEF Inductive, TypeOK, Covered
  <2>2. Owned'
    BY DEF Inductive, Owned, Known
  <2>3. QED BY <2>1, <2>2 DEF Inductive
<1>4. CASE \E t \in Tokens : InfoOf(r, t)
  <2>1. PICK t \in Tokens : InfoOf(r, t)
    BY <1>4
  <2> USE <2>1 DEF InfoOf
  <2>2. TypeOK'
    BY GuardAssumption DEF Inductive, TypeOK
  <2>3. Covered'
    BY DEF Inductive, Covered
  <2>4. Owned'
    BY DEF Inductive, Owned, Known
  <2>5. QED BY <2>2, <2>3, <2>4 DEF Inductive
<1>5. CASE LoadFails(r)
  <2> USE <1>5 DEF LoadFails
  <2>1. request' \in [Requests -> Request] /\ Owned'
    BY StageKeeps DEF Stages
  <2>2. TypeOK'
    BY <2>1 DEF Inductive, TypeOK
  <2>3. Covered'
    BY DEF Inductive, Covered
  <2>4. QED BY <1>1, <2>1, <2>2, <2>3 DEF Inductive, Stage, Request
<1>6. QED BY <1>2, <1>3, <1>4, <1>5

LEMMA JudgeKeeps ==
  ASSUME Inductive, NEW r \in Requests, Judge(r)
  PROVE  /\ Inductive'
         /\ \A x \in Requests \ {r} : request'[x] = request[x]
         /\ request'[r].at \in {"opened", "refused"}
         /\ request'[r].at = "opened" => request[r].at = "naming" /\ MayOpen(r)
<1> USE DEF Judge, guard, people, history
<1>1. PICK at \in {"opened", "refused"} : Stage(r, at) /\ (at = "opened" => MayOpen(r))
  OBVIOUS
<1>2. request' \in [Requests -> Request] /\ Owned'
  BY <1>1, StageKeeps DEF Stages
<1>3. TypeOK'
  BY <1>2 DEF Inductive, TypeOK
<1>4. Covered'
  BY DEF Inductive, Covered
<1>5. /\ \A x \in Requests \ {r} : request'[x] = request[x]
      /\ request'[r].at = at
  BY <1>1 DEF Stage, Inductive, TypeOK, Request
<1>6. QED BY <1>1, <1>2, <1>3, <1>4, <1>5 DEF Inductive

\* Time, the Supervisor, people and their roles.
LEMMA WorldKeeps ==
  ASSUME Inductive,
         \/ Tick
         \/ \E t \in Tokens : Install(t) \/ Uninstall(t)
         \/ \E u \in Users : DeleteUser(u)
         \/ \E u \in Users, t \in Tokens : PolicyChanges(u, t)
         \/ UNCHANGED vars
  PROVE  Inductive' /\ UNCHANGED request
<1> USE DEF Inductive, guard, people, history
<1>1. CASE Tick
  <2>1. now' \in Time
    BY <1>1, GuardAssumption DEF Tick, TypeOK, Time
  <2>2. QED BY <1>1, <2>1 DEF Tick, TypeOK, Covered, Owned, Known
<1>2. ASSUME NEW t \in Tokens, Install(t) \/ Uninstall(t) PROVE Inductive' /\ UNCHANGED request
  <2>1. TypeOK' /\ Covered'
    BY <1>2 DEF Install, Uninstall, TypeOK, Covered
  <2>2. Owned' /\ UNCHANGED request
    BY <1>2 DEF Install, Uninstall, Owned, Known
  <2>3. QED BY <2>1, <2>2
<1>3. ASSUME NEW u \in Users, DeleteUser(u) PROVE Inductive' /\ UNCHANGED request
  BY <1>3 DEF DeleteUser, TypeOK, Covered, Owned, Known
<1>4. ASSUME NEW u \in Users, NEW t \in Tokens, PolicyChanges(u, t)
      PROVE  Inductive' /\ UNCHANGED request
  <2>1. opens' \in [Users -> SUBSET Tokens]
    BY <1>4 DEF PolicyChanges, TypeOK
  <2>2. TypeOK'
    BY <1>4, <2>1 DEF PolicyChanges, TypeOK
  <2>3. Covered' /\ Owned' /\ UNCHANGED request
    BY <1>4 DEF PolicyChanges, Covered, Owned, Known
  <2>4. QED BY <2>2, <2>3
<1>5. CASE UNCHANGED vars
  BY <1>5 DEF vars, TypeOK, Covered, Owned, Known
<1>6. QED BY <1>1, <1>2, <1>3, <1>4, <1>5

LEMMA InductiveStep == Inductive /\ [Next]_vars => Inductive'
  BY RememberKeeps, TouchKeeps, ArriveKeeps, AnswerFromMapKeeps, LoadKeeps, LoadedKeeps,
     JudgeKeeps, WorldKeeps DEF Next, LoadStep

LEMMA AlwaysInductive == Spec => []Inductive
  BY InductiveInit, InductiveStep, PTL DEF Spec

-------------------------------------------------------------------------------
(* Room for sessions. *)

\* No more sessions are kept than there is room for, none used later than now.
Roomy ==
  /\ IsFiniteSet(Known)
  /\ Cardinality(Known) <= MaxSessions
  /\ \A s \in Known : sessions[s].stamp <= now

\* There is an oldest among any sessions that are kept.
LEMMA OldestIsOldest ==
  ASSUME Inductive, NEW S \in SUBSET Known, S # {}
  PROVE  OldestOf(S) \in S /\ \A t \in S : sessions[OldestOf(S)].stamp <= sessions[t].stamp
<1> DEFINE Less == {p \in Nat \X Nat : p[1] < p[2]}
           Stamps == {sessions[s].stamp : s \in S}
<1>1. \A s \in S : sessions[s].stamp \in Nat
  BY GuardAssumption DEF Inductive, TypeOK, Known, Entries, Time
<1>2. Stamps \in SUBSET Nat /\ Stamps # {}
  BY <1>1
<1>3. IsWellFoundedOn(Less, Nat)
  BY NatLessThanWellFounded DEF OpToRel
<1>4. PICK m \in Stamps : \A n \in Stamps : ~(<<n, m>> \in Less)
  <2> HIDE DEF Less, Stamps
  <2>1. QED BY <1>2, <1>3, WFMin
<1>5. PICK s \in S : m = sessions[s].stamp
  OBVIOUS
<1>6. \A t \in S : sessions[s].stamp <= sessions[t].stamp
  <2> SUFFICES ASSUME NEW t \in S PROVE sessions[s].stamp <= sessions[t].stamp
    OBVIOUS
  <2>1. ~(sessions[t].stamp < sessions[s].stamp)
    BY <1>1, <1>4, <1>5
  <2>2. QED BY <1>1, <2>1
<1>7. QED BY <1>5, <1>6 DEF OldestOf

\* A session that is kept and not new was there, and unexpired ones stay but
\* for the oldest, which goes only when there is no room left.
LEMMA RememberForgets ==
  ASSUME Inductive, Roomy, NEW s \in Sessions, NEW u \in Users, Remember(s, u)
  PROVE  /\ Roomy'
         /\ \A x \in Known \ Known' :
              \/ Expired(x)
              \/ /\ Cardinality(Known') = MaxSessions
                 /\ \A t \in Known' : sessions[x].stamp <= sessions'[t].stamp
<1> DEFINE old == OldestOf(Unexpired)
           full == Cardinality(Unexpired) >= MaxSessions
           room == IF full THEN Unexpired \ {old} ELSE Unexpired
<1>1. sessions' = [x \in Sessions |->
           IF x = s THEN [user |-> u, stamp |-> now]
           ELSE IF x \in room THEN sessions[x] ELSE None]
      /\ now' = now
  BY DEF Remember
<1>2. s \notin Known
  BY GuardAssumption DEF Remember, Inductive, Owned, TypeOK, Known, Entries
<1>3. room \subseteq Known /\ Unexpired \subseteq Known /\ Known \subseteq Sessions
  BY DEF Unexpired, Known
<1>4. /\ IsFiniteSet(Unexpired) /\ Cardinality(Unexpired) <= Cardinality(Known)
      /\ Cardinality(Unexpired) \in Nat /\ Cardinality(Known) \in Nat
  BY <1>3, FS_Subset, FS_CardinalityType DEF Roomy
<1>5. now \in Nat /\ \A x \in Known : sessions[x] \in Entries /\ sessions[x].stamp \in Nat
  BY GuardAssumption DEF Inductive, TypeOK, Known, Entries, Time
<1>6. sessions'[s].stamp = now /\ sessions'[s] # None
  <2>1. sessions'[s] = [user |-> u, stamp |-> now]
    BY <1>1
  <2>2. QED BY <2>1, GuardAssumption DEF Inductive, TypeOK, Time
<1>7. Known' = room \cup {s} /\ \A t \in room : sessions'[t] = sessions[t]
  <2> HIDE DEF room
  <2>1. QED BY <1>1, <1>2, <1>3, <1>6 DEF Known
<1>8. CASE ~full
  <2>1. room = Unexpired
    BY <1>8
  <2>2. IsFiniteSet(Known') /\ Cardinality(Known') = Cardinality(Unexpired) + 1
    <3> HIDE DEF room
    <3>1. QED BY <1>2, <1>3, <1>4, <1>7, <2>1, FS_AddElement
  <2>3. Cardinality(Known') <= MaxSessions
    BY <1>4, <1>8, <2>2, GuardAssumption
  <2>4. \A t \in Known' : sessions'[t].stamp <= now'
    <3> HIDE DEF room
    <3>1. QED BY <1>1, <1>3, <1>5, <1>6, <1>7 DEF Roomy
  <2>5. \A x \in Known \ Known' : Expired(x)
    <3> HIDE DEF room
    <3>1. QED BY <1>7, <2>1 DEF Unexpired
  <2>6. QED BY <2>2, <2>3, <2>4, <2>5 DEF Roomy
<1>9. CASE full
  <2>1. Cardinality(Unexpired) = MaxSessions
    BY <1>4, <1>9, GuardAssumption DEF Roomy
  <2>2. Unexpired # {}
    BY <2>1, GuardAssumption, FS_EmptySet
  <2>3. old \in Unexpired /\ \A t \in Unexpired : sessions[old].stamp <= sessions[t].stamp
    BY <1>3, <2>2, OldestIsOldest
  <2>4. room = Unexpired \ {old}
    BY <1>9
  <2> HIDE DEF room, old
  <2>5. IsFiniteSet(room) /\ Cardinality(room) = MaxSessions - 1
    BY <1>4, <2>1, <2>3, <2>4, FS_RemoveElement
  <2>6. IsFiniteSet(Known') /\ Cardinality(Known') = MaxSessions
    <3>1. IsFiniteSet(Known') /\ Cardinality(Known') = Cardinality(room) + 1
      BY <1>2, <1>3, <1>7, <2>5, FS_AddElement
    <3>2. QED BY <2>5, <3>1, GuardAssumption
  <2>7. \A t \in Known' : sessions'[t].stamp <= now'
    BY <1>1, <1>3, <1>5, <1>6, <1>7 DEF Roomy
  <2>8. \A x \in Known \ Known' : Expired(x) \/ x = old
    BY <1>7, <2>4 DEF Unexpired
  <2>9. \A t \in Known' : sessions[old].stamp <= sessions'[t].stamp
    BY <1>3, <1>6, <1>7, <2>3, <2>4 DEF Roomy
  <2>10. QED BY <2>6, <2>7, <2>8, <2>9, GuardAssumption DEF Roomy
<1>10. QED BY <1>8, <1>9

LEMMA TouchForgetsNone ==
  ASSUME Inductive, Roomy, NEW s \in Sessions, Touch(s)
  PROVE  Roomy' /\ Known' = Known
<1>1. now' = now /\ now \in Nat
  BY GuardAssumption DEF Touch, history, Inductive, TypeOK, Time
<1>2. sessions \in [Sessions -> Entries \cup {None}] /\ sessions[s] # None /\ sessions[s] \in Entries
  BY DEF Touch, Known, Inductive, TypeOK
<1>3. sessions' = [sessions EXCEPT ![s] = [user |-> sessions[s].user, stamp |-> now]]
  <2>1. sessions' = [sessions EXCEPT ![s] = [sessions[s] EXCEPT !.stamp = now]]
    BY <1>2 DEF Touch
  <2>2. [sessions[s] EXCEPT !.stamp = now] = [user |-> sessions[s].user, stamp |-> now]
    BY <1>2 DEF Entries
  <2>3. QED BY <2>1, <2>2
<1>4. sessions'[s] = [user |-> sessions[s].user, stamp |-> now] /\ sessions'[s] # None
  <2>1. sessions'[s] = [user |-> sessions[s].user, stamp |-> now]
    BY <1>2, <1>3
  <2>2. QED BY <1>2, <2>1, GuardAssumption DEF Entries, Inductive, TypeOK, Time
<1>5. Known' = Known
  BY <1>2, <1>3, <1>4 DEF Known
<1>6. \A t \in Known' : sessions'[t].stamp <= now'
  BY <1>1, <1>2, <1>3, <1>4, <1>5 DEF Roomy, Known
<1>7. QED BY <1>5, <1>6 DEF Roomy

\* Every other step forgets a session only because it expired.
LEMMA OthersForgetExpired ==
  ASSUME Inductive, [Next]_vars,
         \A s \in Sessions : ~Touch(s) /\ \A u \in Users : ~Remember(s, u)
  PROVE  /\ now' \in Nat /\ now \in Nat /\ now <= now'
         /\ Known' \subseteq Known
         /\ \A s \in Known' : sessions'[s] = sessions[s]
         /\ \A s \in Known \ Known' : Expired(s)
<1> DEFINE Drops(c) == sessions' = DropExpired(c)
<1>1. now \in Nat /\ sessions \in [Sessions -> Entries \cup {None}]
  BY GuardAssumption DEF Inductive, TypeOK, Time
<1>2. /\ now' = now \/ (Tick /\ UNCHANGED sessions)
      /\ UNCHANGED sessions \/ \E c \in Sessions : Drops(c)
  <2>1. ASSUME NEW r \in Requests, NEW t \in Tokens, NEW c \in Sessions \cup {None}, Arrive(r, t, c)
        PROVE  now' = now /\ (UNCHANGED sessions \/ \E x \in Sessions : Drops(x))
    BY <2>1 DEF Arrive, Resolved
  <2>2. ASSUME NEW r \in Requests, AnswerFromMap(r) \/ Loaded(r)
        PROVE  now' = now /\ (UNCHANGED sessions \/ \E x \in Sessions : Drops(x))
    <3>1. request[r].cookie \in Sessions \cup {None} /\ now' = now
      BY <2>2 DEF AnswerFromMap, Loaded, Inductive, TypeOK, Request
    <3>2. QED BY <2>2, <3>1 DEF AnswerFromMap, Loaded, Resolved
  <2>3. ASSUME NEW r \in Requests,
               \/ StartLoad(r) \/ Listed(r) \/ (\E t \in Tokens : InfoOf(r, t))
               \/ LoadFails(r) \/ Judge(r)
        PROVE  now' = now /\ UNCHANGED sessions
    BY <2>3 DEF StartLoad, Listed, InfoOf, LoadFails, Judge
  <2>4. CASE \/ \E t \in Tokens : Install(t) \/ Uninstall(t)
             \/ \E u \in Users : DeleteUser(u)
             \/ \E u \in Users, t \in Tokens : PolicyChanges(u, t)
             \/ UNCHANGED vars
    BY <2>4 DEF Install, Uninstall, DeleteUser, PolicyChanges, vars
  <2>5. CASE Tick
    BY <2>5 DEF Tick
  <2>6. QED BY <2>1, <2>2, <2>3, <2>4, <2>5 DEF Next, LoadStep
<1>3. now' \in Nat /\ now <= now'
  BY <1>1, <1>2 DEF Tick
<1>4. /\ Known' \subseteq Known
      /\ \A s \in Known' : sessions'[s] = sessions[s]
      /\ \A s \in Known \ Known' : Expired(s)
  BY <1>1, <1>2 DEF DropExpired, Known
<1>5. QED BY <1>1, <1>3, <1>4

LEMMA RoomyStep == Inductive /\ Roomy /\ [Next]_vars => Roomy'
<1> SUFFICES ASSUME Inductive, Roomy, [Next]_vars PROVE Roomy'
  OBVIOUS
<1>1. CASE \E s \in Sessions, u \in Users : Remember(s, u)
  BY <1>1, RememberForgets
<1>2. CASE \E s \in Sessions : Touch(s)
  BY <1>2, TouchForgetsNone
<1>3. CASE \A s \in Sessions : ~Touch(s) /\ \A u \in Users : ~Remember(s, u)
  <2>1. /\ now' \in Nat /\ now \in Nat /\ now <= now'
        /\ Known' \subseteq Known /\ \A s \in Known' : sessions'[s] = sessions[s]
    BY <1>3, OthersForgetExpired
  <2>2. IsFiniteSet(Known') /\ Cardinality(Known') <= Cardinality(Known)
    BY <2>1, FS_Subset DEF Roomy
  <2>3. Cardinality(Known') \in Nat /\ Cardinality(Known) \in Nat
    BY <2>2, FS_CardinalityType DEF Roomy
  <2>4. Cardinality(Known') <= MaxSessions
    BY <2>2, <2>3, GuardAssumption DEF Roomy
  <2>5. ASSUME NEW s \in Known' PROVE sessions'[s].stamp <= now'
    <3>1. s \in Known /\ sessions[s].stamp \in Nat
      BY <2>1, GuardAssumption DEF Known, Inductive, TypeOK, Entries, Time
    <3>2. QED BY <2>1, <3>1 DEF Roomy
  <2>6. QED BY <2>2, <2>4, <2>5, GuardAssumption DEF Roomy
<1>4. QED BY <1>1, <1>2, <1>3

LEMMA AlwaysRoomy == Spec => []Roomy
<1>1. Init => Roomy
  <2> SUFFICES ASSUME Init PROVE Roomy
    OBVIOUS
  <2>1. Known = {}
    BY DEF Init, Known
  <2>2. QED BY <2>1, FS_EmptySet, GuardAssumption DEF Roomy
<1>2. QED BY <1>1, AlwaysInductive, RoomyStep, PTL DEF Spec

-------------------------------------------------------------------------------
(* Theorems. *)

\* Every variable keeps its type.
THEOREM TypeCorrect == Spec => []TypeOK
  BY AlwaysInductive, PTL DEF Inductive

\* However many requests race however many rebuilds, failing or not, an installed
\* add-on passes as unknown only if it was installed after the list of a map that
\* is still fresh was read (async_slug_for, _async_load).
THEOREM InstalledIsGuarded == Spec => UnguardedOnlyNewer
<1>1. Inductive /\ [Next]_vars =>
        [\A r \in Requests :
           Answered(r, "unguarded") /\ request'[r].token \in installed
           => /\ request'[r].token \in newer'
              /\ loadedAt' # None
              /\ now - loadedAt' <= MissInterval]_vars
  <2> SUFFICES ASSUME Inductive, Next, NEW r \in Requests,
                      Answered(r, "unguarded"), request'[r].token \in installed
               PROVE  /\ request'[r].token \in newer'
                      /\ loadedAt' # None
                      /\ now - loadedAt' <= MissInterval
    OBVIOUS
  <2>1. request'[r] # request[r] /\ request'[r].at = "unguarded" /\ request[r].at # "unguarded"
    BY DEF Answered
  <2>2. CASE AnswerFromMap(r)
    <3>1. request[r].token \notin slugs /\ MapIsFresh /\ request'[r].token = request[r].token
      BY <2>1, <2>2, AnswerFromMapKeeps
    <3>2. newer' = newer /\ loadedAt' = loadedAt
      BY <2>2 DEF AnswerFromMap, history
    <3>3. QED BY <3>1, <3>2 DEF MapIsFresh, Inductive, Covered
  <2>3. CASE Loaded(r)
    <3>1. request[r].token \notin slugs' /\ request'[r].token = request[r].token
      BY <2>1, <2>3, LoadedKeeps
    <3>2. loadedAt' = now /\ now \in Nat /\ installed' = installed
      BY <2>3, GuardAssumption DEF Loaded, Inductive, TypeOK, Time
    <3>3. loadedAt' # None /\ now - loadedAt' <= MissInterval
      BY <3>2, GuardAssumption
    <3>4. installed \subseteq slugs' \cup newer'
      BY <2>3, <3>2, <3>3, LoadedKeeps DEF Inductive, Covered
    <3>5. QED BY <3>1, <3>3, <3>4
  <2>4. ASSUME NEW s \in Sessions, NEW u \in Users, Remember(s, u) PROVE FALSE
    BY <2>1, <2>4 DEF Remember
  <2>5. ASSUME NEW s \in Sessions, Touch(s) PROVE FALSE
    BY <2>1, <2>5 DEF Touch
  <2>6. ASSUME NEW x \in Requests, NEW t \in Tokens, NEW c \in Sessions \cup {None}, Arrive(x, t, c)
        PROVE  FALSE
    BY <2>1, <2>6, ArriveKeeps DEF Answered
  <2>7. ASSUME NEW x \in Requests,
               StartLoad(x) \/ Listed(x) \/ (\E t \in Tokens : InfoOf(x, t)) \/ LoadFails(x)
        PROVE  FALSE
    BY <2>1, <2>7, LoadKeeps
  <2>8. ASSUME NEW x \in Requests, Judge(x) PROVE FALSE
    BY <2>1, <2>8, JudgeKeeps
  <2>9. ASSUME NEW x \in Requests, x # r, AnswerFromMap(x) \/ Loaded(x) PROVE FALSE
    BY <2>1, <2>9, AnswerFromMapKeeps, LoadedKeeps
  <2>10. CASE \/ Tick
              \/ \E t \in Tokens : Install(t) \/ Uninstall(t)
              \/ \E u \in Users : DeleteUser(u)
              \/ \E u \in Users, t \in Tokens : PolicyChanges(u, t)
    BY <2>1, <2>10, WorldKeeps
  <2>11. QED
    BY <2>2, <2>3, <2>4, <2>5, <2>6, <2>7, <2>8, <2>9, <2>10 DEF Next, LoadStep
<1>2. QED BY <1>1, AlwaysInductive, PTL DEF Spec, UnguardedOnlyNewer

\* An add-on opens only for the user its session was minted for, while they
\* exist and by what their roles allow in that step, whatever became of the
\* session since the request came (_refuse_ingress).
THEOREM OpensForItsUser == Spec => OpenedByItsUser
<1>1. Inductive /\ [Next]_vars =>
        [\A r \in Requests :
           Answered(r, "opened")
           => LET u == minter[request[r].cookie] IN
              u \in accounts /\ request[r].token \in opens[u]]_vars
  <2> SUFFICES ASSUME Inductive, Next, NEW r \in Requests, Answered(r, "opened")
               PROVE  LET u == minter[request[r].cookie] IN
                      u \in accounts /\ request[r].token \in opens[u]
    OBVIOUS
  <2>1. request'[r] # request[r] /\ request'[r].at = "opened" /\ request[r].at # "opened"
    BY DEF Answered
  <2>2. CASE Judge(r)
    BY <2>1, <2>2, JudgeKeeps DEF MayOpen, Inductive, Owned
  <2>3. ASSUME NEW s \in Sessions, NEW u \in Users, Remember(s, u) PROVE FALSE
    BY <2>1, <2>3 DEF Remember
  <2>4. ASSUME NEW s \in Sessions, Touch(s) PROVE FALSE
    BY <2>1, <2>4 DEF Touch
  <2>5. ASSUME NEW x \in Requests, NEW t \in Tokens, NEW c \in Sessions \cup {None}, Arrive(x, t, c)
        PROVE  FALSE
    BY <2>1, <2>5, ArriveKeeps DEF Answered
  <2>6. ASSUME NEW x \in Requests,
               \/ StartLoad(x) \/ Listed(x) \/ (\E t \in Tokens : InfoOf(x, t)) \/ LoadFails(x)
               \/ AnswerFromMap(x) \/ Loaded(x)
        PROVE  FALSE
    BY <2>1, <2>6, LoadKeeps, AnswerFromMapKeeps, LoadedKeeps
  <2>7. ASSUME NEW x \in Requests, x # r, Judge(x) PROVE FALSE
    BY <2>1, <2>7, JudgeKeeps
  <2>8. CASE \/ Tick
             \/ \E t \in Tokens : Install(t) \/ Uninstall(t)
             \/ \E u \in Users : DeleteUser(u)
             \/ \E u \in Users, t \in Tokens : PolicyChanges(u, t)
    BY <2>1, <2>8, WorldKeeps
  <2>9. QED
    BY <2>2, <2>3, <2>4, <2>5, <2>6, <2>7, <2>8 DEF Next, LoadStep
<1>2. QED BY <1>1, AlwaysInductive, PTL DEF Spec, OpenedByItsUser

\* A session is dropped when it expired, or for want of room, and then no session
\* that is kept was used longer ago; and there is never more than there is room
\* for (remember_session).
THEOREM OldestGoesFirst == Spec => ForgottenLast
<1>1. Inductive /\ Roomy /\ [Next]_vars =>
        [\A s \in Known \ Known' :
           \/ Expired(s)
           \/ /\ Cardinality(Known') = MaxSessions
              /\ \A t \in Known' : sessions[s].stamp <= sessions'[t].stamp]_vars
  <2> SUFFICES ASSUME Inductive, Roomy, Next, NEW s \in Known \ Known'
               PROVE  \/ Expired(s)
                      \/ /\ Cardinality(Known') = MaxSessions
                         /\ \A t \in Known' : sessions[s].stamp <= sessions'[t].stamp
    OBVIOUS
  <2>1. CASE \E x \in Sessions, u \in Users : Remember(x, u)
    BY <2>1, RememberForgets
  <2>2. CASE \E x \in Sessions : Touch(x)
    BY <2>2, TouchForgetsNone
  <2>3. CASE \A x \in Sessions : ~Touch(x) /\ \A u \in Users : ~Remember(x, u)
    BY <2>3, OthersForgetExpired
  <2>4. QED BY <2>1, <2>2, <2>3
<1>2. QED BY <1>1, AlwaysInductive, AlwaysRoomy, PTL DEF Spec, ForgottenLast
=============================================================================
