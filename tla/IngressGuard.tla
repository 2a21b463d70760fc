----------------------------- MODULE IngressGuard -----------------------------
(***************************************************************************)
(* Who may open an add-on: class IngressGuard of ingress.py, and the gate  *)
(* of proxy.py (_refuse_ingress) that asks it.                             *)
(*                                                                         *)
(* A request for an add-on carries a token in its path and a session in a  *)
(* cookie, and nothing else says who sent it.  The guard keeps the user of *)
(* each session it saw minted, with the time it was last used, and a map   *)
(* from tokens to add-ons that it rebuilds from the Supervisor when a      *)
(* token is not in it.  A token that is in no add-on is let through for    *)
(* Home Assistant to answer: the map being out of date is what the guard   *)
(* must not take for that.                                                 *)
(*                                                                         *)
(* The Supervisor is external: it lists what is installed at that moment,  *)
(* and each call to it is awaited, may fail, and gives every other task    *)
(* the time to run.  An add-on is named by the token it was installed      *)
(* with.                                                                   *)
(***************************************************************************)
EXTENDS Naturals, Sequences, FiniteSets

CONSTANTS
  Tokens,          \* what a request path can name; an add-on is one of them
  Sessions,        \* ingress sessions
  Users,
  Requests,        \* concurrent requests for an ingress route
  MaxTime,         \* bound: the clock runs to MaxTime
  SessionTtl,      \* SESSION_TTL
  MissInterval,    \* MISS_RELOAD_INTERVAL
  MaxSessions,     \* MAX_SESSIONS
  None             \* absent: no entry, no user, no list, never

ASSUME GuardAssumption ==
  /\ MaxTime \in Nat
  /\ SessionTtl \in Nat
  /\ MissInterval \in Nat
  /\ MaxSessions \in Nat \ {0}
  /\ None \notin Users \cup Requests \cup Nat
  /\ \A T \in SUBSET Tokens : T # None
  /\ \A u \in Users, t \in 0..MaxTime : [user |-> u, stamp |-> t] # None

VARIABLES
  now,        \* time.monotonic()
  sessions,   \* _sessions: a user and a stamp, or None
  slugs,      \* _slugs: the tokens it knows to be add-ons
  loadedAt,   \* _loaded_at
  waiters,    \* the requests queued on _reload_lock
  holder,     \* the request that holds it
  todo,       \* add-ons listed and not yet asked about, or None before the list
  found,      \* `slugs` of _async_load
  request,    \* where each request stands
  installed,  \* external: the add-ons that are installed
  accounts,   \* the users Home Assistant has
  opens,      \* the add-ons each user's roles allow now
  minter,     \* history: the user each session was minted for
  newer,      \* history: add-ons installed since the list behind the map
  newest      \* history: and since the list being loaded

guard   == <<slugs, loadedAt, waiters, holder, todo, found>>
people  == <<accounts, opens>>
history == <<minter, newer, newest>>
vars == <<now, sessions, guard, request, installed, people, history>>

Time == 0..MaxTime
Entries == [user : Users, stamp : Time]

\* "idle": not sent; "waiting": for the lock; "loading": the map; "naming":
\* async_get_user is awaited.  The rest are answers: "refused", "opened" by a
\* user who may, or "unguarded": nothing to do with an add-on, and forwarded.
Stages == {"idle", "waiting", "loading", "naming", "refused", "opened", "unguarded"}
Answers == {"refused", "opened", "unguarded"}

Request == [at : Stages, token : Tokens \cup {None}, cookie : Sessions \cup {None},
            user : Users \cup {None}]

TypeOK ==
  /\ now \in Time
  /\ sessions \in [Sessions -> Entries \cup {None}]
  /\ slugs \subseteq Tokens
  /\ loadedAt \in Time \cup {None}
  /\ waiters \in Seq(Requests)
  /\ holder \in Requests \cup {None}
  /\ todo \in (SUBSET Tokens) \cup {None}
  /\ found \subseteq Tokens
  /\ request \in [Requests -> Request]
  /\ installed \subseteq Tokens
  /\ accounts \subseteq Users
  /\ opens \in [Users -> SUBSET Tokens]
  /\ minter \in [Sessions -> Users \cup {None}]
  /\ newer \subseteq Tokens
  /\ newest \subseteq Tokens

Init ==
  /\ now = 0
  /\ sessions = [s \in Sessions |-> None]
  /\ slugs = {}
  /\ loadedAt = None
  /\ waiters = <<>>
  /\ holder = None
  /\ todo = None
  /\ found = {}
  /\ request = [r \in Requests |->
                 [at |-> "idle", token |-> None, cookie |-> None, user |-> None]]
  /\ installed \in SUBSET Tokens
  /\ accounts = Users
  /\ opens \in [Users -> SUBSET Tokens]
  /\ minter = [s \in Sessions |-> None]
  /\ newer = {}
  /\ newest = {}

-----------------------------------------------------------------------------
(* Sessions *)

Known == {s \in Sessions : sessions[s] # None}

Expired(s) == now - sessions[s].stamp > SessionTtl

\* What _expire leaves.
Unexpired == {s \in Known : ~Expired(s)}

\* Wrong: the newest goes, not the oldest.
NewestOf(S) == CHOOSE s \in S : \A t \in S : sessions[t].stamp <= sessions[s].stamp

OldestOf(S) == CHOOSE s \in S : \A t \in S : sessions[s].stamp <= sessions[t].stamp

\* remember_session: a reply that minted a session passed on a connection of
\* user u.  The Supervisor mints each session once.
Remember(s, u) ==
  /\ minter[s] = None
  /\ u \in accounts
  /\ minter' = [minter EXCEPT ![s] = u]
  /\ LET room == IF Cardinality(Unexpired) >= MaxSessions
                 THEN Unexpired \ {OldestOf(Unexpired)} ELSE Unexpired
     IN  sessions' = [x \in Sessions |->
           IF x = s THEN [user |-> u, stamp |-> now]
           ELSE IF x \in room THEN sessions[x] ELSE None]
  /\ UNCHANGED <<now, guard, request, installed, people, newer, newest>>

\* touch_session: the frontend revalidates one it is using.
Touch(s) ==
  /\ s \in Known
  /\ sessions' = [sessions EXCEPT ![s].stamp = now]
  /\ UNCHANGED <<now, guard, request, installed, people, history>>

\* Wrong: the entry, not the user in it.
WholeEntry(s) == IF s \in Known /\ ~Expired(s) THEN sessions[s] ELSE None

\* user_id_for: nobody for an expired session, which it drops.
SessionUser(s) == IF s \in Known /\ ~Expired(s) THEN sessions[s].user ELSE None

DropExpired(s) ==
  IF s \in Known /\ Expired(s) THEN [sessions EXCEPT ![s] = None] ELSE sessions

-----------------------------------------------------------------------------
(* The gate *)

Stage(r, stage) == request' = [request EXCEPT ![r].at = stage]

\* _refuse_ingress once it knows whether the token of a request is an add-on's.
Resolved(r, req, isAddon) ==
  \/ /\ ~isAddon
     /\ request' = [request EXCEPT ![r] = [req EXCEPT !.at = "unguarded"]]
     /\ UNCHANGED sessions
  \/ /\ isAddon
     /\ req.cookie = None
     /\ request' = [request EXCEPT ![r] = [req EXCEPT !.at = "refused"]]
     /\ UNCHANGED sessions
  \/ /\ isAddon
     /\ req.cookie # None
     /\ sessions' = DropExpired(req.cookie)
     /\ request' = [request EXCEPT ![r] =
          [req EXCEPT !.at   = IF SessionUser(req.cookie) = None THEN "refused" ELSE "naming",
                      !.user = SessionUser(req.cookie)]]

\* A request arrives.  A token in the map needs no lock.
Arrive(r, token, cookie) ==
  /\ request[r].at \in Answers \cup {"idle"}
  /\ LET req == [at |-> "waiting", token |-> token, cookie |-> cookie, user |-> None] IN
     \/ /\ token \in slugs
        /\ Resolved(r, req, TRUE)
        /\ UNCHANGED waiters
     \/ /\ token \notin slugs
        /\ request' = [request EXCEPT ![r] = req]
        /\ waiters' = Append(waiters, r)
        /\ UNCHANGED sessions
  /\ UNCHANGED <<now, slugs, loadedAt, holder, todo, found, installed, people, history>>

MapIsFresh == loadedAt # None /\ now - loadedAt <= MissInterval

\* The first in the queue gets the lock and looks again.
Acquire(r) ==
  /\ waiters # <<>>
  /\ holder = None
  /\ r = Head(waiters)
  /\ waiters' = Tail(waiters)

\* Its answer is in the map, or the map is too fresh to rebuild.
AnswerFromMap(r) ==
  /\ Acquire(r)
  /\ request[r].token \in slugs \/ MapIsFresh
  /\ Resolved(r, request[r], request[r].token \in slugs)
  /\ UNCHANGED <<now, slugs, loadedAt, holder, todo, found, installed, people, history>>

\* Wrong: the map is stamped before the load it stands for.
StampedEarly(r) ==
  /\ Acquire(r)
  /\ request[r].token \notin slugs
  /\ ~MapIsFresh
  /\ Stage(r, "loading")
  /\ holder' = r
  /\ todo' = None
  /\ found' = {}
  /\ loadedAt' = now
  /\ UNCHANGED <<now, sessions, slugs, installed, people, history>>

\* Or the map is rebuilt: the Supervisor is asked for its list.
StartLoad(r) ==
  /\ Acquire(r)
  /\ request[r].token \notin slugs
  /\ ~MapIsFresh
  /\ Stage(r, "loading")
  /\ holder' = r
  /\ todo' = None
  /\ found' = {}
  /\ UNCHANGED <<now, sessions, slugs, loadedAt, installed, people, history>>

\* addons.list() answers.
Listed(r) ==
  /\ holder = r
  /\ todo = None
  /\ todo' = installed
  /\ newest' = {}
  /\ UNCHANGED <<now, sessions, slugs, loadedAt, waiters, holder, found, request, installed,
                 people, minter, newer>>

\* addon_info of a listed add-on answers.
InfoOf(r, t) ==
  /\ holder = r
  /\ todo # None
  /\ t \in todo \cap installed
  /\ todo' = todo \ {t}
  /\ found' = found \cup {t}
  /\ UNCHANGED <<now, sessions, slugs, loadedAt, waiters, holder, request, installed, people,
                 history>>

\* Wrong: a load that fails keeps the lock.
FailedKeepsLock(r) ==
  /\ holder = r
  /\ request[r].at = "loading"
  /\ Stage(r, "refused")
  /\ UNCHANGED <<now, sessions, guard, installed, people, history>>

\* Any call fails, for an add-on that is gone among other reasons: the request
\* is refused and the map is as old as it was.
LoadFails(r) ==
  /\ holder = r
  /\ holder' = None
  /\ Stage(r, "refused")
  /\ UNCHANGED <<now, sessions, slugs, loadedAt, waiters, todo, found, installed, people,
                 history>>

\* The map is replaced and stamped, and answers.
Loaded(r) ==
  /\ holder = r
  /\ todo = {}
  /\ holder' = None
  /\ slugs' = found
  /\ loadedAt' = now
  /\ newer' = newest
  /\ Resolved(r, request[r], request[r].token \in found)
  /\ UNCHANGED <<now, waiters, todo, found, installed, people, minter, newest>>

\* Wrong: a user who was deleted meanwhile is judged like any other.
StillOpens(r) == request[r].token \in opens[request[r].user]

\* The user still exists, and its roles as they are now allow the add-on
\* (permissions.full_access is every add-on).
MayOpen(r) ==
  /\ request[r].user \in accounts
  /\ request[r].token \in opens[request[r].user]

\* async_get_user has answered.
Judge(r) ==
  /\ request[r].at = "naming"
  /\ Stage(r, IF MayOpen(r) THEN "opened" ELSE "refused")
  /\ UNCHANGED <<now, sessions, guard, installed, people, history>>

-----------------------------------------------------------------------------
(* Everything else *)

Tick ==
  /\ now < MaxTime
  /\ now' = now + 1
  /\ UNCHANGED <<sessions, guard, request, installed, people, history>>

Install(t) ==
  /\ t \notin installed
  /\ installed' = installed \cup {t}
  /\ newer' = newer \cup {t}
  /\ newest' = newest \cup {t}
  /\ UNCHANGED <<now, sessions, guard, request, people, minter>>

Uninstall(t) ==
  /\ t \in installed
  /\ installed' = installed \ {t}
  /\ UNCHANGED <<now, sessions, guard, request, people, history>>

DeleteUser(u) ==
  /\ u \in accounts
  /\ accounts' = accounts \ {u}
  /\ UNCHANGED <<now, sessions, guard, request, installed, opens, history>>

PolicyChanges(u, t) ==
  /\ opens' = [opens EXCEPT ![u] = IF t \in @ THEN @ \ {t} ELSE @ \cup {t}]
  /\ UNCHANGED <<now, sessions, guard, request, installed, accounts, history>>

LoadStep(r) ==
  \/ Listed(r)
  \/ \E t \in Tokens : InfoOf(r, t)
  \/ LoadFails(r)
  \/ Loaded(r)

Next ==
  \/ \E s \in Sessions, u \in Users : Remember(s, u)
  \/ \E s \in Sessions : Touch(s)
  \/ \E r \in Requests, t \in Tokens, s \in Sessions \cup {None} : Arrive(r, t, s)
  \/ \E r \in Requests : AnswerFromMap(r)
  \/ \E r \in Requests : StartLoad(r)
  \/ \E r \in Requests : LoadStep(r)
  \/ \E r \in Requests : Judge(r)
  \/ Tick
  \/ \E t \in Tokens : Install(t)
  \/ \E t \in Tokens : Uninstall(t)
  \/ \E u \in Users : DeleteUser(u)
  \/ \E u \in Users, t \in Tokens : PolicyChanges(u, t)

Spec == Init /\ [][Next]_vars

\* The event loop runs a task that can go on, the lock is first come first
\* served, and each call to the Supervisor answers or fails.  A load that is
\* asked for one add-on after another ends because the list is finite.
Fairness ==
  \A r \in Requests :
    /\ WF_vars(AnswerFromMap(r) \/ StartLoad(r))
    /\ WF_vars(LoadStep(r))
    /\ WF_vars(Judge(r))

FairSpec == Spec /\ Fairness

-----------------------------------------------------------------------------
(* Properties *)

\* Request r gets this answer in this step.
Answered(r, answer) == request[r].at # answer /\ request'[r].at = answer

\* An installed add-on is taken for nothing of this installation's only if it
\* was installed after the Supervisor listed the add-ons of the present map,
\* and that map is at most MISS_RELOAD_INTERVAL old: never while the map is
\* being rebuilt, and never because a rebuild failed (async_slug_for).
UnguardedOnlyNewer ==
  [][\A r \in Requests :
       Answered(r, "unguarded") /\ request'[r].token \in installed
       => /\ request'[r].token \in newer'
          /\ loadedAt' # None
          /\ now - loadedAt' <= MissInterval]_vars

\* An add-on opens only for a session minted for a user who still exists and
\* whose roles allow it at that moment, whatever was awaited since the request
\* came and whatever was forgotten of the session meanwhile (_refuse_ingress).
OpenedByItsUser ==
  [][\A r \in Requests :
       Answered(r, "opened")
       => LET u == minter[request[r].cookie] IN
          u \in accounts /\ request[r].token \in opens[u]]_vars

\* A session is forgotten early only for want of room, and then it is the one
\* used least recently: a session in use outlives those that are not
\* (remember_session, touch_session).
ForgottenLast ==
  [][\A s \in Known \ Known' :
       \/ Expired(s)
       \/ /\ Cardinality(Known') = MaxSessions
          /\ \A t \in Known' : sessions[s].stamp <= sessions'[t].stamp]_vars

\* Every request is eventually answered, whatever the Supervisor does to the
\* rebuild it or another request waits for.
RequestsAnswered ==
  \A r \in Requests : request[r].at = "waiting" ~> request[r].at \in Answers
=============================================================================
