------------------------------ MODULE RoleStore ------------------------------
(***************************************************************************)
(* store.py, the Evaluator of policy.py, the recordings of record.py and   *)
(* the admin commands of websocket_api.py that change any of them.         *)
(*                                                                         *)
(* An edit changes the roles and bindings in memory at once, asks Home     *)
(* Assistant's Store to write them and, when that returns, tells the       *)
(* evaluator to drop what it compiled.  Meanwhile requests are answered,   *)
(* other edits made, and the process may crash.  The Store is external:    *)
(* one write at a time, in the order asked; a write takes the data asked   *)
(* for last, and one that fails is logged and no more.                     *)
(*                                                                         *)
(* What a role says is a set of grants; what it compiles to is that set    *)
(* and the state of the registries it was resolved against.                *)
(***************************************************************************)
EXTENDS Naturals, Sequences, FiniteSets

CONSTANTS
  Users,        \* people who are neither the owner nor system users
  Custom,       \* role ids an administrator may create
  Conditional,  \* those with a schedule or a location
  Predefined,   \* role ids defined in code
  DefaultFor,   \* user -> the predefined role that stands for their group
  Grants,       \* what a role may say
  MaxEdits,     \* bound: edits asked for
  MaxCrashes,   \* bound: restarts
  MaxRegistry,  \* bound: changes of the registries
  MaxRunning,   \* bound: recordings at the same time
  None          \* no such role, no recording, nothing to write

Ids == Custom \cup Predefined

\* The roles somebody created, and what a save hands to the Store.
RoleMap == [Custom -> (SUBSET Grants) \cup {None}]
Data == [roles : RoleMap, version : Nat]

ASSUME RoleStoreAssumption ==
  /\ Custom \cap Predefined = {} /\ Conditional \subseteq Custom
  /\ DefaultFor \in [Users -> Predefined]
  /\ MaxEdits \in Nat /\ MaxCrashes \in Nat /\ MaxRegistry \in Nat /\ MaxRunning \in Nat
  /\ None \notin Ids /\ (\A says \in SUBSET Grants : says # None) /\ None \notin Data

VARIABLES
  roles,      \* store.roles: Custom -> its grants, None if there is no such role
  bindings,   \* store.bindings: Users -> role ids, {} if unbound
  vetoed,     \* the users with an entry in store.global_deny
  version,    \* how many edits are in memory
  pending,    \* external: the data the Store is to write, None if it was taken
  writing,    \* external: the data being written
  savers,     \* edits that wait for their save, oldest first, each its version
  disk,       \* external: the file
  lost,       \* a write failed and none has succeeded since
  acked,      \* the last edit whose save has returned
  compiled,   \* evaluator._compiled
  cache,      \* evaluator._cache: <<user, roles in force>> -> permissions
  registry,   \* how often the registries changed
  inForce,    \* the roles in force at this hour, for people where they are
  recordings, \* recorder._recordings: Custom -> what was noted, None if not running
  torn,       \* history: a restart found a file with roles missing
  edits, crashes

memory == <<roles, bindings, vetoed, version>>
saving == <<pending, writing, savers>>
file == <<disk, lost, acked>>
evaluator == <<compiled, cache>>
world == <<registry, inForce>>
vars == <<memory, saving, file, evaluator, world, recordings, torn, edits, crashes>>

Stored == Predefined \cup {r \in Custom : roles[r] # None}
NoRoles == [r \in Custom |-> None]

TypeOK ==
  /\ roles \in RoleMap /\ recordings \in RoleMap
  /\ bindings \in [Users -> SUBSET Ids] /\ vetoed \subseteq Users
  /\ edits \in 0..MaxEdits /\ version \in 0..edits /\ acked \in 0..version
  /\ pending \in Data \cup {None} /\ writing \in Data \cup {None}
  /\ savers \in Seq(Nat)
  /\ \A i \in DOMAIN savers : acked < savers[i] /\ savers[i] <= version
  /\ disk \in [roles : RoleMap, version : 0..version,
               bindings : [Users -> SUBSET Ids], vetoed : SUBSET Users]
  /\ lost \in BOOLEAN /\ torn \in BOOLEAN
  /\ DOMAIN compiled \subseteq Ids
  /\ registry \in 0..MaxRegistry /\ inForce \subseteq Ids

-------------------------------------------------------------------------------
(* The evaluator. *)

\* An unbound user falls back to the group Home Assistant has them in.
RolesOf(u) == IF bindings[u] = {} THEN {DefaultFor[u]} ELSE bindings[u]

\* compile_role, which resolves areas and labels as the registries have them.
Compile(r) ==
  [role |-> r, says |-> IF r \in Custom THEN roles[r] ELSE None, registry |-> registry]

CompiledRole(r) == IF r \in DOMAIN compiled THEN compiled[r] ELSE Compile(r)

\* The roles held: known, compiled already or to be found in the store, in force.
Held(u) == RolesOf(u) \cap (Stored \cup DOMAIN compiled) \cap inForce

Permissions(held, veto) == [held |-> held, veto |-> veto]

\* Wrong: the cache is keyed on the user alone.
KeyUser(u) == <<u, {}>>

Key(u) == <<u, Held(u)>>

\* async_permissions: what a request of this user is judged by.
Answer(u) ==
  IF Key(u) \in DOMAIN cache THEN cache[Key(u)]
  ELSE Permissions({CompiledRole(r) : r \in Held(u)}, u \in vetoed)

Ask(u) ==
  /\ compiled' = [r \in DOMAIN compiled \cup (RolesOf(u) \cap Stored) |-> CompiledRole(r)]
  /\ cache' = [k \in DOMAIN cache \cup {Key(u)} |-> IF k = Key(u) THEN Answer(u) ELSE cache[k]]
  /\ evaluator' # evaluator
  /\ UNCHANGED <<memory, saving, file, world, recordings, torn, edits, crashes>>

\* Wrong: only the compiled roles are dropped.
InvalidateRoles ==
  /\ compiled' = <<>>
  /\ UNCHANGED cache

Invalidate ==
  /\ compiled' = <<>>
  /\ cache' = <<>>

\* The entity, device, area, label or floor registry changes.
RegistryUpdated ==
  /\ registry < MaxRegistry
  /\ registry' = registry + 1
  /\ Invalidate
  /\ UNCHANGED <<memory, saving, file, inForce, recordings, torn, edits, crashes>>

\* A schedule opens or closes, a person crosses a zone.
ConditionsChange ==
  /\ \E r \in Conditional : inForce' = IF r \in inForce THEN inForce \ {r} ELSE inForce \cup {r}
  /\ UNCHANGED <<memory, saving, file, evaluator, registry, recordings, torn, edits, crashes>>

-------------------------------------------------------------------------------
(* Edits: memory first, then the save. *)

\* Wrong: data already waiting to be written is not replaced.
SaveOnce(newRoles) ==
  /\ edits < MaxEdits
  /\ edits' = edits + 1
  /\ version' = version + 1
  /\ pending' = IF pending = None THEN [roles |-> newRoles, version |-> version + 1] ELSE pending
  /\ savers' = Append(savers, version + 1)

\* _async_save: the roles are copied as they are, the bindings and denials are not.
Save(newRoles) ==
  /\ edits < MaxEdits
  /\ edits' = edits + 1
  /\ version' = version + 1
  /\ pending' = [roles |-> newRoles, version |-> version + 1]
  /\ savers' = Append(savers, version + 1)

\* What an edit leaves to later steps, the recordings aside.
LaterUnchanged == UNCHANGED <<writing, file, evaluator, world, torn, crashes>>

CreateRole(r, says) ==
  /\ roles[r] = None
  /\ roles' = [roles EXCEPT ![r] = says]
  /\ Save(roles')
  /\ UNCHANGED <<bindings, vetoed, recordings>> /\ LaterUnchanged

UpdateRole(r, says) ==
  /\ roles[r] # None
  /\ roles' = [roles EXCEPT ![r] = says]
  /\ Save(roles')
  /\ UNCHANGED <<bindings, vetoed, recordings>> /\ LaterUnchanged

\* Wrong: the users bound to the role stay bound.
DeleteRoleBound(r) ==
  /\ roles[r] # None
  /\ roles' = [roles EXCEPT ![r] = None]
  /\ Save(roles')
  /\ UNCHANGED <<bindings, vetoed, recordings>> /\ LaterUnchanged

\* A recording of the role goes on.
DeleteRole(r) ==
  /\ roles[r] # None
  /\ roles' = [roles EXCEPT ![r] = None]
  /\ bindings' = [u \in Users |-> bindings[u] \ {r}]
  /\ Save(roles')
  /\ UNCHANGED <<vetoed, recordings>> /\ LaterUnchanged

SetBinding(u, ids) ==
  /\ ids \subseteq Stored
  /\ bindings' = [bindings EXCEPT ![u] = ids]
  /\ Save(roles)
  /\ UNCHANGED <<roles, vetoed, recordings>> /\ LaterUnchanged

SetGlobalDeny(u) ==
  /\ vetoed' = IF u \in vetoed THEN vetoed \ {u} ELSE vetoed \cup {u}
  /\ Save(roles)
  /\ UNCHANGED <<roles, bindings, recordings>> /\ LaterUnchanged

-------------------------------------------------------------------------------
(* Recordings. *)

\* The recording that covers a user, if one of the roles they hold is recorded.
Recorded(u) == {c.role : c \in Answer(u).held} \cap {r \in Custom : recordings[r] # None}

StartRecording(r) ==
  /\ roles[r] # None
  /\ Cardinality({s \in Custom \ {r} : recordings[s] # None}) < MaxRunning
  /\ recordings' = [recordings EXCEPT ![r] = {}]
  /\ UNCHANGED <<memory, saving, file, evaluator, world, torn, edits, crashes>>

\* A request of a recorded user is allowed, and noted.
Observe(u, g) ==
  /\ \E r \in Recorded(u) :
       /\ g \notin recordings[r]
       /\ recordings' = [recordings EXCEPT ![r] = @ \cup {g}]
  /\ UNCHANGED <<memory, saving, file, evaluator, world, torn, edits, crashes>>

\* record/stop: the recording is forgotten, then its role updated, if it is to
\* be and there is still one.
StopRecording(r, apply) ==
  /\ recordings[r] # None
  /\ recordings' = [recordings EXCEPT ![r] = None]
  /\ IF apply /\ roles[r] # None
     THEN /\ roles' = [roles EXCEPT ![r] = @ \cup recordings[r]]
          /\ Save(roles')
          /\ UNCHANGED <<bindings, vetoed>> /\ LaterUnchanged
     ELSE UNCHANGED <<memory, saving, file, evaluator, world, torn, edits, crashes>>

-------------------------------------------------------------------------------
(* The Store's writes, and restarts. *)

\* The save at the head of the queue takes what is to be written.
BeginWrite ==
  /\ savers # <<>> /\ writing = None /\ pending # None
  /\ writing' = pending
  /\ pending' = None
  /\ UNCHANGED <<memory, savers, file, evaluator, world, recordings, torn, edits, crashes>>

\* Wrong: a save answers for the edits made since as well.
ReturnedForAll ==
  /\ savers' = Tail(savers)
  /\ acked' = version
  /\ Invalidate

\* The save returns: everything compiled is dropped and the command answered.
Returned ==
  /\ savers' = Tail(savers)
  /\ acked' = Head(savers)
  /\ Invalidate

\* The bindings and denials are written as they are by now.
EndWrite ==
  /\ writing # None
  /\ disk' = [roles |-> writing.roles, version |-> writing.version,
              bindings |-> bindings, vetoed |-> vetoed]
  /\ lost' = FALSE
  /\ writing' = None
  /\ Returned
  /\ UNCHANGED <<memory, pending, world, recordings, torn, edits, crashes>>

WriteFails ==
  /\ writing # None
  /\ lost' = TRUE
  /\ writing' = None
  /\ Returned
  /\ UNCHANGED <<memory, pending, disk, world, recordings, torn, edits, crashes>>

\* Wrong: a save that finds its data taken waits for more.
NothingLeftWaits ==
  /\ savers # <<>> /\ writing = None /\ pending = None /\ edits < MaxEdits
  /\ Returned
  /\ UNCHANGED <<memory, pending, writing, disk, lost, world, recordings, torn, edits, crashes>>

\* The data of this save was written by the one before it.
NothingLeft ==
  /\ savers # <<>> /\ writing = None /\ pending = None
  /\ Returned
  /\ UNCHANGED <<memory, pending, writing, disk, lost, world, recordings, torn, edits, crashes>>

\* A crash and the next async_load: predefined roles from code, the others from
\* the file, but for those that no longer validate.
Restart ==
  /\ crashes < MaxCrashes
  /\ crashes' = crashes + 1
  /\ \E invalid \in SUBSET Custom :
       /\ roles' = [r \in Custom |-> IF r \in invalid THEN None ELSE disk.roles[r]]
       /\ torn' = (\E u \in Users : ~(disk.bindings[u] \subseteq
                                        Predefined \cup {r \in Custom : roles'[r] # None}))
  /\ bindings' = disk.bindings /\ vetoed' = disk.vetoed
  /\ version' = disk.version
  /\ pending' = None /\ writing' = None /\ savers' = <<>>
  /\ acked' = IF acked <= disk.version THEN acked ELSE disk.version
  /\ lost' = FALSE
  /\ Invalidate
  /\ recordings' = NoRoles
  /\ UNCHANGED <<disk, world, edits>>

Init ==
  /\ roles = NoRoles /\ bindings = [u \in Users |-> {}] /\ vetoed = {} /\ version = 0
  /\ pending = None /\ writing = None /\ savers = <<>>
  /\ disk = [roles |-> NoRoles, version |-> 0, bindings |-> bindings, vetoed |-> {}]
  /\ lost = FALSE /\ acked = 0
  /\ compiled = <<>> /\ cache = <<>>
  /\ registry = 0 /\ inForce = Ids
  /\ recordings = NoRoles
  /\ torn = FALSE /\ edits = 0 /\ crashes = 0

Write == BeginWrite \/ EndWrite \/ WriteFails \/ NothingLeft

Next ==
  \/ \E u \in Users : Ask(u)
  \/ RegistryUpdated
  \/ ConditionsChange
  \/ \E r \in Custom, says \in SUBSET Grants : CreateRole(r, says) \/ UpdateRole(r, says)
  \/ \E r \in Custom : DeleteRole(r)
  \/ \E u \in Users, ids \in SUBSET Ids : SetBinding(u, ids)
  \/ \E u \in Users : SetGlobalDeny(u)
  \/ \E r \in Custom : StartRecording(r)
  \/ \E u \in Users, g \in Grants : Observe(u, g)
  \/ \E r \in Custom, apply \in BOOLEAN : StopRecording(r, apply)
  \/ Write
  \/ Restart

Spec == Init /\ [][Next]_vars

\* The executor finishes what it is given, and the event loop goes on.
FairSpec == Spec /\ WF_vars(Write)

-------------------------------------------------------------------------------
(* Properties. *)

\* What the evaluator would say if it had remembered nothing.
Fresh(u) ==
  Permissions({Compile(r) : r \in RolesOf(u) \cap Stored \cap inForce}, u \in vetoed)

\* Once no edit waits for its save, every user is judged by the roles, bindings,
\* denials and registries as they are, whatever was asked, edited at the same
\* time, failed or changed meanwhile (_notify after _async_save, and
\* REGISTRY_EVENTS).
AnswersAreCurrent == savers = <<>> => \A u \in Users : Answer(u) = Fresh(u)

\* And at any moment, an edit being saved or not, the roles somebody is judged
\* by, and so the recordings that free them of every gate, are roles they are
\* bound to and that are in force at that moment (the key of _cache).
HeldIsLive ==
  \A u \in Users : {c.role : c \in Answer(u).held} \subseteq RolesOf(u) \cap inForce

\* No binding names a role that does not exist: somebody bound to one would be
\* let into nothing, and let in again by the next role of that id.  Only a
\* restart that found roles missing from the file leaves one.
NoDanglingBinding == torn \/ \A u \in Users : bindings[u] \subseteq Stored

\* Whoever was answered can rely on the file, write after write and edit during
\* write: see DurableStore.
Durable == INSTANCE DurableStore WITH current <- version, durable <- disk.version
ImplementsDurableStore == Durable!Spec

\* Every edit is answered in the end.
EditsAreAnswered == \A v \in 1..MaxEdits : (\E i \in DOMAIN savers : savers[i] = v)
                                             ~> (\A i \in DOMAIN savers : savers[i] # v)
=============================================================================
