-------------------------- MODULE RoleStoreProofs --------------------------
(***************************************************************************)
(* What holds of the store and the evaluator for any number of people,     *)
(* roles, edits, crashes and changes of the registries.                    *)
(***************************************************************************)
EXTENDS RoleStore, TLAPS

\* The saves that wait are in the order of their edits, and none is forgotten:
\* what the Store has taken or is to take is the latest, and when it has nothing
\* left the file is the latest, unless its last write failed.
Queue ==
  /\ \A i, j \in DOMAIN savers : i < j => savers[i] < savers[j]
  /\ writing # None => /\ savers # <<>>
                       /\ Head(savers) <= writing.version
                       /\ writing.version \in disk.version..version
  /\ pending # None => pending.version = version
  /\ pending = None /\ writing # None => writing.version = version
  /\ pending = None /\ writing = None => lost \/ disk.version = version

\* What was compiled goes by the name of its role, and what is remembered of a
\* user is made of the roles it is remembered for.
Named ==
  /\ \A r \in DOMAIN compiled : compiled[r].role = r
  /\ \A u, held : <<u, held>> \in DOMAIN cache => {c.role : c \in cache[<<u, held>>].held} \subseteq held

\* Where no save is awaited, what was compiled and what is remembered is as it
\* would be if it were made now.
Valid ==
  savers = <<>> =>
    /\ \A r \in DOMAIN compiled : r \in Stored /\ compiled[r] = Compile(r)
    /\ \A u, held : <<u, held>> \in DOMAIN cache =>
         cache[<<u, held>>] = Permissions({Compile(r) : r \in held}, u \in vetoed)

Inductive == TypeOK /\ Queue /\ Named /\ Valid

-------------------------------------------------------------------------------
(* The steps of an edit. *)

\* Nothing compiled is left after Invalidate.
LEMMA InvalidateDrops == Invalidate => DOMAIN compiled' = {} /\ DOMAIN cache' = {}
  BY DEF Invalidate

\* A save leaves the queue in order and every invariant of it true, whatever
\* becomes of the roles.
LEMMA SaveKeepsQueue ==
  ASSUME Inductive, NEW newRoles \in RoleMap, Save(newRoles),
         UNCHANGED <<writing, file>>
  PROVE  /\ edits' \in 0..MaxEdits /\ version' \in 0..edits' /\ acked' \in 0..version'
         /\ pending' \in Data \cup {None} /\ writing' \in Data \cup {None}
         /\ savers' \in Seq(Nat) /\ savers' # <<>>
         /\ \A i \in DOMAIN savers' : acked' < savers'[i] /\ savers'[i] <= version'
         /\ disk' \in [roles : RoleMap, version : 0..version',
                       bindings : [Users -> SUBSET Ids], vetoed : SUBSET Users]
         /\ lost' \in BOOLEAN
         /\ Queue'
<1> USE RoleStoreAssumption DEF Inductive, TypeOK, Save, file
<1>1. /\ edits' \in 0..MaxEdits /\ version' = version + 1 /\ version' \in 0..edits'
      /\ acked' \in 0..version' /\ lost' \in BOOLEAN
  OBVIOUS
<1>2. /\ pending' = [roles |-> newRoles, version |-> version + 1] /\ pending' \in Data
      /\ pending' # None
  BY <1>1 DEF Data
<1>3. savers' = Append(savers, version + 1) /\ savers' \in Seq(Nat) /\ savers' # <<>>
  BY <1>1
<1>4. \A i \in DOMAIN savers' : acked' < savers'[i] /\ savers'[i] <= version'
  BY <1>1, <1>3
<1>5. disk' \in [roles : RoleMap, version : 0..version',
                 bindings : [Users -> SUBSET Ids], vetoed : SUBSET Users]
  BY <1>1
<1>6. \A i, j \in DOMAIN savers' : i < j => savers'[i] < savers'[j]
  BY <1>1, <1>3 DEF Queue
<1>7. writing' # None => /\ Head(savers') <= writing'.version
                         /\ writing'.version \in disk'.version..version'
  <2> SUFFICES ASSUME writing # None PROVE /\ Head(savers') <= writing.version
                                           /\ writing.version \in disk.version..version'
    OBVIOUS
  <2>1. Head(savers') = Head(savers)
    BY <1>3 DEF Queue
  <2>2. writing.version \in Nat /\ disk.version \in Nat
    BY DEF Data
  <2>3. QED BY <1>1, <2>1, <2>2 DEF Queue
<1>8. Queue'
  BY <1>1, <1>2, <1>3, <1>6, <1>7 DEF Queue
<1>9. QED BY <1>1, <1>2, <1>3, <1>4, <1>5, <1>8

\* A save that returns leaves the ones after it, in order, none of them answered.
LEMMA ReturnedKeepsQueue ==
  ASSUME Inductive, savers # <<>>, Returned
  PROVE  /\ acked' \in acked..version /\ acked' = Head(savers)
         /\ savers' \in Seq(Nat)
         /\ \A i \in DOMAIN savers' : acked' < savers'[i] /\ savers'[i] <= version
         /\ \A i, j \in DOMAIN savers' : i < j => savers'[i] < savers'[j]
<1> USE DEF Inductive, TypeOK, Returned
<1>1. savers' = Tail(savers) /\ acked' = savers[1] /\ acked' = Head(savers)
  OBVIOUS
<1>2. /\ DOMAIN savers' = 1..(Len(savers) - 1) /\ DOMAIN savers = 1..Len(savers)
      /\ \A i \in DOMAIN savers' : savers'[i] = savers[i + 1]
      /\ Len(savers) \in Nat \ {0}
  BY <1>1
<1>3. acked' \in acked..version
  BY <1>1, <1>2
<1>4. \A i, j \in DOMAIN savers' : i < j => savers'[i] < savers'[j]
  <2> SUFFICES ASSUME NEW i \in DOMAIN savers', NEW j \in DOMAIN savers', i < j
               PROVE  savers'[i] < savers'[j]
    OBVIOUS
  <2>1. i + 1 \in DOMAIN savers /\ j + 1 \in DOMAIN savers /\ i + 1 < j + 1
    BY <1>2
  <2>2. savers[i + 1] < savers[j + 1]
    BY <2>1 DEF Queue
  <2>3. QED BY <1>2, <2>2
<1>5. \A i \in DOMAIN savers' : acked' < savers'[i] /\ savers'[i] <= version
  <2> TAKE i \in DOMAIN savers'
  <2>1. i \in Nat /\ 1 < i + 1 /\ 1 \in DOMAIN savers /\ i + 1 \in DOMAIN savers
    BY <1>2
  <2>2. savers[1] < savers[i + 1]
    BY <2>1 DEF Queue
  <2>3. QED BY <1>1, <1>2, <2>1, <2>2
<1>6. QED BY <1>1, <1>3, <1>4, <1>5

-------------------------------------------------------------------------------
(* The evaluator. *)

\* Whoever asks is given permissions made of the roles they hold now, each under
\* its own name.
LEMMA AnswerNamed ==
  ASSUME Inductive, NEW u \in Users
  PROVE  {c.role : c \in Answer(u).held} \subseteq Held(u)
<1>1. CASE Key(u) \in DOMAIN cache
  BY <1>1 DEF Answer, Key, Inductive, Named
<1>2. CASE Key(u) \notin DOMAIN cache
  <2>1. Answer(u).held = {CompiledRole(r) : r \in Held(u)}
    BY <1>2 DEF Answer, Permissions
  <2>2. \A r : CompiledRole(r).role = r
    BY DEF CompiledRole, Compile, Inductive, Named
  <2>3. QED BY <2>1, <2>2
<1>3. QED BY <1>1, <1>2

\* And where no save is awaited, of those roles as they are now.
LEMMA AnswerValid ==
  ASSUME Inductive, savers = <<>>, NEW u \in Users
  PROVE  Answer(u) = Permissions({Compile(r) : r \in Held(u)}, u \in vetoed)
<1>1. CASE Key(u) \in DOMAIN cache
  BY <1>1 DEF Answer, Key, Inductive, Valid
<1>2. CASE Key(u) \notin DOMAIN cache
  <2>1. \A r : CompiledRole(r) = Compile(r)
    BY DEF CompiledRole, Inductive, Valid
  <2>2. QED BY <1>2, <2>1 DEF Answer
<1>3. QED BY <1>1, <1>2

LEMMA AskKeepsEvaluator ==
  ASSUME Inductive, NEW u \in Users, Ask(u)
  PROVE  DOMAIN compiled' \subseteq Ids /\ Named' /\ Valid'
<1> USE DEF Ask, memory, saving, world
<1>1. DOMAIN compiled' \subseteq Ids
  BY DEF Inductive, TypeOK, Stored, Ids
<1>2. Named'
  <2>1. \A r \in DOMAIN compiled' : compiled'[r].role = r
    BY DEF CompiledRole, Compile, Inductive, Named
  <2>2. ASSUME NEW v, NEW held, <<v, held>> \in DOMAIN cache'
        PROVE  {c.role : c \in cache'[<<v, held>>].held} \subseteq held
    <3>1. CASE <<v, held>> = Key(u)
      BY <2>2, <3>1, AnswerNamed DEF Key
    <3>2. CASE <<v, held>> # Key(u)
      BY <2>2, <3>2 DEF Inductive, Named
    <3>3. QED BY <3>1, <3>2
  <2>3. QED BY <2>1, <2>2 DEF Named
<1>3. Valid'
  <2> SUFFICES ASSUME savers = <<>>
               PROVE  /\ \A r \in DOMAIN compiled' : r \in Stored' /\ compiled'[r] = Compile(r)'
                      /\ \A v, held : <<v, held>> \in DOMAIN cache' =>
                           cache'[<<v, held>>] = Permissions({Compile(r)' : r \in held}, v \in vetoed')
    BY DEF Valid
  <2>1. Stored' = Stored /\ vetoed' = vetoed /\ \A r : Compile(r)' = Compile(r)
    BY DEF Stored, Compile
  <2>2. \A r \in DOMAIN compiled' : r \in Stored /\ compiled'[r] = Compile(r)
    BY DEF CompiledRole, Inductive, Valid
  <2>3. ASSUME NEW v, NEW held, <<v, held>> \in DOMAIN cache'
        PROVE  cache'[<<v, held>>] = Permissions({Compile(r) : r \in held}, v \in vetoed)
    <3>1. CASE <<v, held>> = Key(u)
      BY <2>3, <3>1, AnswerValid DEF Key
    <3>2. CASE <<v, held>> # Key(u)
      BY <2>3, <3>2 DEF Inductive, Valid
    <3>3. QED BY <3>1, <3>2
  <2>4. QED BY <2>1, <2>2, <2>3
<1>4. QED BY <1>1, <1>2, <1>3

-------------------------------------------------------------------------------
(* The induction. *)

LEMMA InductiveInit == Init => Inductive
<1> SUFFICES ASSUME Init PROVE Inductive
  OBVIOUS
<1> USE RoleStoreAssumption DEF Init
<1>1. NoRoles \in RoleMap
  BY DEF NoRoles, RoleMap
<1>2. TypeOK
  <2>1. savers \in Seq(Nat) /\ DOMAIN savers = {} /\ DOMAIN compiled = {}
    OBVIOUS
  <2>2. bindings \in [Users -> SUBSET Ids]
    OBVIOUS
  <2>3. disk \in [roles : RoleMap, version : 0..version,
                  bindings : [Users -> SUBSET Ids], vetoed : SUBSET Users]
    BY <1>1, <2>2
  <2>4. edits \in 0..MaxEdits /\ version \in 0..edits /\ acked \in 0..version
    OBVIOUS
  <2>5. roles \in RoleMap /\ recordings \in RoleMap /\ vetoed \subseteq Users
    BY <1>1
  <2>6. \A i \in DOMAIN savers : acked < savers[i] /\ savers[i] <= version
    BY <2>1
  <2>7. /\ DOMAIN compiled \subseteq Ids /\ inForce \subseteq Ids
        /\ pending \in Data \cup {None} /\ writing \in Data \cup {None}
    BY <2>1
  <2>8. registry \in 0..MaxRegistry
    OBVIOUS
  <2>9. lost \in BOOLEAN /\ torn \in BOOLEAN
    OBVIOUS
  <2>10. QED
    <3> HIDE DEF Init
    <3> QED BY <2>1, <2>2, <2>3, <2>4, <2>5, <2>6, <2>7, <2>8, <2>9 DEF TypeOK
<1>3. Queue /\ Named /\ Valid
  BY DEF Queue, Named, Valid
<1>4. QED BY <1>2, <1>3 DEF Inductive

\* An edit keeps the invariant, provided the roles and bindings it leaves are
\* of their types: what it answers by is left for the save to drop.
LEMMA EditKeepsInductive ==
  ASSUME Inductive, Save(roles'), LaterUnchanged,
         roles' \in RoleMap, recordings' \in RoleMap,
         bindings' \in [Users -> SUBSET Ids], vetoed' \subseteq Users
  PROVE  Inductive'
<1> USE DEF LaterUnchanged
<1>1. UNCHANGED <<writing, file>>
  OBVIOUS
<1>2. TypeOK'
  BY <1>1, SaveKeepsQueue DEF Inductive, TypeOK, evaluator, world
<1>3. Queue' /\ savers' # <<>>
  BY <1>1, SaveKeepsQueue
<1>4. Named'
  BY DEF Inductive, Named, evaluator
<1>5. Valid'
  BY <1>3 DEF Valid
<1>6. QED BY <1>2, <1>3, <1>4, <1>5 DEF Inductive

\* Nothing compiled is nothing out of date.
LEMMA InvalidateKeepsEvaluator ==
  ASSUME Invalidate
  PROVE  DOMAIN compiled' \subseteq Ids /\ Named' /\ Valid'
  BY InvalidateDrops DEF Named, Valid

\* A save returns: the file and what was lost are as that step leaves them.
LEMMA ReturnKeepsInductive ==
  ASSUME Inductive, savers # <<>>, Returned,
         UNCHANGED <<memory, pending, world, recordings, torn, edits, crashes>>,
         writing' = None, lost' \in BOOLEAN,
         disk' \in [roles : RoleMap, version : 0..version,
                    bindings : [Users -> SUBSET Ids], vetoed : SUBSET Users],
         pending = None => lost' \/ disk'.version = version
  PROVE  Inductive'
<1> USE DEF memory, world
<1>1. Invalidate
  BY DEF Returned
<1>2. TypeOK'
  BY <1>1, ReturnedKeepsQueue, InvalidateKeepsEvaluator DEF Inductive, TypeOK
<1>3. Queue'
  BY ReturnedKeepsQueue DEF Inductive, Queue
<1>4. QED BY <1>1, <1>2, <1>3, InvalidateKeepsEvaluator DEF Inductive

\* The evaluator's invariants read the roles, the denials, the registries and
\* whether a save is awaited.
LEMMA EvaluatorKept ==
  ASSUME Inductive, UNCHANGED <<compiled, cache, roles, vetoed, registry, savers>>
  PROVE  Named' /\ Valid'
<1>1. Stored' = Stored /\ \A r : Compile(r)' = Compile(r)
  BY DEF Stored, Compile
<1>2. Named'
  BY DEF Inductive, Named
<1>3. Valid'
  BY <1>1 DEF Inductive, Valid
<1>4. QED BY <1>2, <1>3

LEMMA WriteKeepsInductive == Inductive /\ Write => Inductive'
<1> SUFFICES ASSUME Inductive, Write PROVE Inductive'
  OBVIOUS
<1> USE DEF Inductive
<1>1. CASE BeginWrite
  <2> USE <1>1 DEF BeginWrite, memory, file, world, evaluator
  <2>1. TypeOK'
    BY DEF TypeOK
  <2>2. Queue'
    <3>1. writing' \in Data /\ writing'.version = version /\ writing' # None
      BY RoleStoreAssumption DEF TypeOK, Queue
    <3>2. Head(savers) <= version /\ disk.version \in 0..version /\ version \in Nat
      BY DEF TypeOK
    <3>3. QED BY <3>1, <3>2 DEF Queue
  <2>3. QED BY <2>1, <2>2, EvaluatorKept
<1>2. CASE EndWrite
  <2> USE <1>2 DEF EndWrite
  <2>1. savers # <<>> /\ writing.version \in disk.version..version
    BY DEF Queue
  <2>2. disk' \in [roles : RoleMap, version : 0..version,
                   bindings : [Users -> SUBSET Ids], vetoed : SUBSET Users]
    <3>1. writing.roles \in RoleMap /\ writing.version \in Nat
      BY DEF TypeOK, Data
    <3>2. QED BY <2>1, <3>1 DEF TypeOK
  <2>3. pending = None => disk'.version = version
    BY DEF Queue
  <2>4. QED BY <2>1, <2>2, <2>3, ReturnKeepsInductive
<1>3. CASE WriteFails
  BY <1>3, ReturnKeepsInductive DEF WriteFails, Queue, TypeOK
<1>4. CASE NothingLeft
  BY <1>4, ReturnKeepsInductive DEF NothingLeft, Queue, TypeOK
<1>5. QED BY <1>1, <1>2, <1>3, <1>4 DEF Write

LEMMA RestartKeepsInductive == Inductive /\ Restart => Inductive'
<1> SUFFICES ASSUME Inductive, Restart PROVE Inductive'
  OBVIOUS
<1> USE DEF Inductive, Restart, world
<1>1. PICK invalid \in SUBSET Custom :
             /\ roles' = [r \in Custom |-> IF r \in invalid THEN None ELSE disk.roles[r]]
             /\ torn' \in BOOLEAN
  OBVIOUS
<1>2. roles' \in RoleMap /\ recordings' \in RoleMap
  BY <1>1 DEF RoleMap, TypeOK, NoRoles
<1>3. /\ bindings' \in [Users -> SUBSET Ids] /\ vetoed' \subseteq Users
      /\ version' = disk.version /\ edits' \in 0..MaxEdits /\ version' \in 0..edits'
      /\ disk' \in [roles : RoleMap, version : 0..version',
                    bindings : [Users -> SUBSET Ids], vetoed : SUBSET Users]
  BY RoleStoreAssumption DEF TypeOK
<1>4. acked' \in 0..version'
  BY <1>3 DEF TypeOK
<1>5. savers' \in Seq(Nat) /\ savers' = <<>> /\ DOMAIN savers' = {}
  OBVIOUS
<1>6. TypeOK'
  BY <1>1, <1>2, <1>3, <1>4, <1>5, InvalidateKeepsEvaluator DEF TypeOK
<1>7. Queue'
  BY <1>5 DEF Queue
<1>8. QED BY <1>6, <1>7, InvalidateKeepsEvaluator

\* One step, or none.
LEMMA InductiveStep == Inductive /\ [Next]_vars => Inductive'
<1> SUFFICES ASSUME Inductive, [Next]_vars PROVE Inductive'
  OBVIOUS
<1> USE DEF LaterUnchanged
<1>1. /\ roles \in RoleMap /\ recordings \in RoleMap
      /\ bindings \in [Users -> SUBSET Ids] /\ vetoed \subseteq Users
  BY DEF Inductive, TypeOK
<1>2. \A r \in Custom, says \in SUBSET Grants : [roles EXCEPT ![r] = says] \in RoleMap
  BY <1>1 DEF RoleMap
<1>3. ASSUME NEW u \in Users, Ask(u) PROVE Inductive'
  <2>1. TypeOK'
    BY <1>3, AskKeepsEvaluator DEF Inductive, TypeOK, Ask, memory, saving, file, world
  <2>2. Queue'
    BY <1>3 DEF Inductive, Queue, Ask, memory, saving, file
  <2>3. QED BY <1>3, <2>1, <2>2, AskKeepsEvaluator DEF Inductive
<1>4. CASE RegistryUpdated
  <2>1. TypeOK'
    BY <1>4, InvalidateKeepsEvaluator, RoleStoreAssumption
       DEF Inductive, TypeOK, RegistryUpdated, memory, saving, file
  <2>2. Queue'
    BY <1>4 DEF Inductive, Queue, RegistryUpdated, memory, saving, file
  <2>3. QED BY <1>4, <2>1, <2>2, InvalidateKeepsEvaluator DEF Inductive, RegistryUpdated
<1>5. CASE ConditionsChange
  <2>1. inForce' \subseteq Ids
    BY <1>5, RoleStoreAssumption DEF ConditionsChange, Inductive, TypeOK, Ids
  <2>2. TypeOK'
    BY <1>5, <2>1 DEF Inductive, TypeOK, ConditionsChange, memory, saving, file, evaluator
  <2>3. Queue'
    BY <1>5 DEF Inductive, Queue, ConditionsChange, memory, saving, file
  <2>4. Named' /\ Valid'
    BY <1>5, EvaluatorKept DEF ConditionsChange, memory, saving, evaluator
  <2>5. QED BY <2>2, <2>3, <2>4 DEF Inductive
<1>6. ASSUME NEW r \in Custom, NEW says \in SUBSET Grants, CreateRole(r, says) \/ UpdateRole(r, says)
      PROVE  Inductive'
  BY <1>1, <1>2, <1>6, EditKeepsInductive DEF CreateRole, UpdateRole
<1>7. ASSUME NEW r \in Custom, DeleteRole(r) PROVE Inductive'
  <2>1. roles' \in RoleMap
    BY <1>1, <1>7 DEF DeleteRole, RoleMap
  <2>2. bindings' \in [Users -> SUBSET Ids]
    BY <1>1, <1>7 DEF DeleteRole
  <2>3. QED BY <1>1, <1>7, <2>1, <2>2, EditKeepsInductive DEF DeleteRole
<1>8. ASSUME NEW u \in Users, NEW ids \in SUBSET Ids, SetBinding(u, ids) PROVE Inductive'
  <2>1. bindings' \in [Users -> SUBSET Ids]
    BY <1>1, <1>8 DEF SetBinding
  <2>2. QED BY <1>1, <1>8, <2>1, EditKeepsInductive DEF SetBinding
<1>9. ASSUME NEW u \in Users, SetGlobalDeny(u) PROVE Inductive'
  <2>1. vetoed' \subseteq Users
    BY <1>1, <1>9 DEF SetGlobalDeny
  <2>2. QED BY <1>1, <1>9, <2>1, EditKeepsInductive DEF SetGlobalDeny
<1>10. ASSUME recordings' \in RoleMap,
              UNCHANGED <<memory, saving, file, evaluator, world, torn, edits, crashes>>
       PROVE  Inductive'
  <2> USE <1>10 DEF memory, saving, file, evaluator, world
  <2>1. TypeOK'
    BY DEF Inductive, TypeOK
  <2>2. Queue'
    BY DEF Inductive, Queue
  <2>3. QED BY <2>1, <2>2, EvaluatorKept DEF Inductive
<1>11. ASSUME NEW r \in Custom, StartRecording(r) PROVE Inductive'
  BY <1>1, <1>10, <1>11 DEF StartRecording, RoleMap
<1>12. ASSUME NEW u \in Users, NEW g \in Grants, Observe(u, g) PROVE Inductive'
  <2>1. PICK r \in Recorded(u) : recordings' = [recordings EXCEPT ![r] = @ \cup {g}]
    BY <1>12 DEF Observe
  <2>2. r \in Custom /\ recordings[r] \in SUBSET Grants
    BY <1>1 DEF Recorded, RoleMap
  <2>3. recordings' \in RoleMap
    BY <1>1, <2>1, <2>2 DEF RoleMap
  <2>4. QED BY <1>10, <1>12, <2>3 DEF Observe
<1>13. ASSUME NEW r \in Custom, NEW apply \in BOOLEAN, StopRecording(r, apply) PROVE Inductive'
  <2>1. recordings' \in RoleMap /\ recordings[r] \in SUBSET Grants
    BY <1>1, <1>13 DEF StopRecording, RoleMap
  <2>2. CASE apply /\ roles[r] # None
    <3>1. roles' \in RoleMap
      BY <1>1, <1>13, <2>1, <2>2 DEF StopRecording, RoleMap
    <3>2. QED BY <1>1, <1>13, <2>1, <2>2, <3>1, EditKeepsInductive DEF StopRecording
  <2>3. CASE ~(apply /\ roles[r] # None)
    BY <1>10, <1>13, <2>1, <2>3 DEF StopRecording
  <2>4. QED BY <2>2, <2>3
<1>14. CASE UNCHANGED vars
  BY <1>1, <1>10, <1>14 DEF vars
<1>15. QED
  BY <1>3, <1>4, <1>5, <1>6, <1>7, <1>8, <1>9, <1>11, <1>12, <1>13, <1>14,
     WriteKeepsInductive, RestartKeepsInductive DEF Next

LEMMA AlwaysInductive == Spec => []Inductive
  BY InductiveInit, InductiveStep, PTL DEF Spec

-------------------------------------------------------------------------------
(* Theorems. *)

\* Every variable keeps its type, the versions in memory, in the queue and on
\* disk their order.
THEOREM TypeCorrect == Spec => []TypeOK
  BY AlwaysInductive, PTL DEF Inductive

\* Nobody is judged by a role they are not bound to or that is not in force,
\* while edits are being saved as much as afterwards (Evaluator._cache).
THEOREM NobodyKeepsARole == Spec => []HeldIsLive
<1>1. Inductive => HeldIsLive
  <2> SUFFICES ASSUME Inductive, NEW u \in Users
               PROVE  {c.role : c \in Answer(u).held} \subseteq RolesOf(u) \cap inForce
    BY DEF HeldIsLive
  <2>1. QED BY AnswerNamed DEF Held
<1>2. QED BY <1>1, AlwaysInductive, PTL

\* Once no save is awaited, everybody is judged by the roles, bindings, denials
\* and registries as they are: two caches, any number of overlapping edits and
\* failed writes notwithstanding (_notify, Evaluator.invalidate).
THEOREM CachesAreCurrent == Spec => []AnswersAreCurrent
<1>1. Inductive => AnswersAreCurrent
  <2> SUFFICES ASSUME Inductive, savers = <<>>, NEW u \in Users
               PROVE  Answer(u) = Fresh(u)
    BY DEF AnswersAreCurrent
  <2>1. Held(u) = RolesOf(u) \cap Stored \cap inForce
    BY DEF Held, Inductive, Valid
  <2>2. QED BY <2>1, AnswerValid DEF Fresh
<1>2. QED BY <1>1, AlwaysInductive, PTL

\* Unless a restart found a file with roles missing, no binding names a role
\* that does not exist, though roles come, go and are recorded meanwhile
\* (async_delete_role).
THEOREM BindingsAreLive == Spec => []NoDanglingBinding
<1>1. Init => NoDanglingBinding
  BY DEF Init, NoDanglingBinding
<1>2. Inductive /\ NoDanglingBinding /\ [Next]_vars => NoDanglingBinding'
  <2> SUFFICES ASSUME Inductive, NoDanglingBinding, [Next]_vars PROVE NoDanglingBinding'
    OBVIOUS
  <2> USE DEF NoDanglingBinding, LaterUnchanged
  <2>1. CASE UNCHANGED <<roles, bindings, torn>>
    BY <2>1 DEF Stored
  <2>2. ASSUME NEW r \in Custom, NEW says, says # None, says = roles'[r],
               roles' = [roles EXCEPT ![r] = says], UNCHANGED <<bindings, torn>>
        PROVE  NoDanglingBinding'
    BY <2>2 DEF Stored
  <2>3. ASSUME NEW r \in Custom, NEW says \in SUBSET Grants, CreateRole(r, says) \/ UpdateRole(r, says)
        PROVE  NoDanglingBinding'
    <3>1. says # None /\ roles'[r] = says
      BY <2>3, RoleStoreAssumption DEF CreateRole, UpdateRole, Inductive, TypeOK, RoleMap
    <3>2. QED BY <2>2, <2>3, <3>1 DEF CreateRole, UpdateRole
  <2>4. ASSUME NEW r \in Custom, DeleteRole(r) PROVE NoDanglingBinding'
    <3>1. Stored \ {r} \subseteq Stored'
      BY <2>4 DEF DeleteRole, Stored, Inductive, TypeOK, RoleMap
    <3>2. \A u \in Users : bindings'[u] = bindings[u] \ {r}
      BY <2>4 DEF DeleteRole
    <3>3. QED BY <2>4, <3>1, <3>2 DEF DeleteRole
  <2>5. ASSUME NEW u \in Users, NEW ids \in SUBSET Ids, SetBinding(u, ids) PROVE NoDanglingBinding'
    BY <2>5 DEF SetBinding, Stored, Inductive, TypeOK
  <2>6. ASSUME NEW r \in Custom, NEW apply \in BOOLEAN, StopRecording(r, apply)
        PROVE  NoDanglingBinding'
    <3>1. CASE apply /\ roles[r] # None
      <4>1. roles[r] \cup recordings[r] \in SUBSET Grants
        BY <2>6, <3>1 DEF StopRecording, Inductive, TypeOK, RoleMap
      <4>2. roles' = [roles EXCEPT ![r] = roles[r] \cup recordings[r]] /\ UNCHANGED <<bindings, torn>>
        BY <2>6, <3>1 DEF StopRecording
      <4>3. roles'[r] = roles[r] \cup recordings[r]
        BY <4>2 DEF Inductive, TypeOK, RoleMap
      <4>4. QED BY <2>2, <4>1, <4>2, <4>3, RoleStoreAssumption
    <3>2. CASE ~(apply /\ roles[r] # None)
      BY <2>1, <2>6, <3>2 DEF StopRecording, memory
    <3>3. QED BY <3>1, <3>2
  <2>7. CASE Restart
    <3>1. PICK invalid \in SUBSET Custom :
             torn' = (\E u \in Users : ~(disk.bindings[u] \subseteq Stored'))
      BY <2>7 DEF Restart, Stored
    <3>2. bindings' = disk.bindings
      BY <2>7 DEF Restart
    <3>3. QED BY <3>1, <3>2
  <2>8. ASSUME NEW u \in Users, Ask(u) PROVE NoDanglingBinding'
    BY <2>1, <2>8 DEF Ask, memory
  <2>9. ASSUME NEW u \in Users, SetGlobalDeny(u) PROVE NoDanglingBinding'
    BY <2>1, <2>9 DEF SetGlobalDeny
  <2>10. ASSUME NEW r \in Custom, StartRecording(r) PROVE NoDanglingBinding'
    BY <2>1, <2>10 DEF StartRecording, memory
  <2>11. ASSUME NEW u \in Users, NEW g \in Grants, Observe(u, g) PROVE NoDanglingBinding'
    BY <2>1, <2>11 DEF Observe, memory
  <2>12. CASE RegistryUpdated \/ ConditionsChange \/ Write \/ UNCHANGED vars
    BY <2>1, <2>12 DEF RegistryUpdated, ConditionsChange, Write, BeginWrite, EndWrite,
                       WriteFails, NothingLeft, vars, memory
  <2>13. QED
    BY <2>3, <2>4, <2>5, <2>6, <2>7, <2>8, <2>9, <2>10, <2>11, <2>12 DEF Next
<1>3. QED BY <1>1, <1>2, AlwaysInductive, PTL DEF Spec

\* The store keeps what DurableStore promises: every step of it is an edit, a
\* save that returns or a crash there, or changes nothing that it promises about.
THEOREM StoreIsDurable == Spec => ImplementsDurableStore
<1> USE DEF Durable!vars
<1>1. Init => Durable!Init
  BY DEF Init, Durable!Init
<1>2. Inductive /\ [Next]_vars => [Durable!Next]_(Durable!vars)
  <2> SUFFICES ASSUME Inductive, [Next]_vars PROVE Durable!Next \/ UNCHANGED Durable!vars
    OBVIOUS
  <2> USE DEF LaterUnchanged, file
  <2>1. /\ version \in Nat /\ disk.version \in 0..version /\ acked \in 0..version
        /\ lost \in BOOLEAN
    BY DEF Inductive, TypeOK
  <2>2. ASSUME Save(roles') \/ Save(roles), UNCHANGED file PROVE Durable!Next
    BY <2>2 DEF Save, Durable!Next, Durable!Edit
  <2>3. CASE EndWrite
    <3>1. /\ disk'.version \in disk.version..version /\ Head(savers) <= disk'.version
          /\ savers # <<>>
      BY <2>3 DEF EndWrite, Inductive, Queue
    <3>2. acked' \in acked..version /\ acked' <= disk'.version
      BY <2>3, <3>1, ReturnedKeepsQueue DEF EndWrite
    <3>3. lost' = FALSE /\ version' = version
      BY <2>3 DEF EndWrite, memory
    <3>4. QED BY <3>1, <3>2, <3>3 DEF Durable!Next, Durable!Return
  <2>4. CASE WriteFails
    <3>1. savers # <<>>
      BY <2>4 DEF WriteFails, Inductive, Queue
    <3>2. acked' \in acked..version
      BY <2>4, <3>1, ReturnedKeepsQueue DEF WriteFails
    <3>3. lost' = TRUE /\ disk' = disk /\ version' = version
      BY <2>4 DEF WriteFails, memory
    <3>4. QED BY <3>2, <3>3 DEF Durable!Next, Durable!Return
  <2>5. CASE NothingLeft
    <3>1. savers # <<>> /\ (lost \/ disk.version = version)
      BY <2>5 DEF NothingLeft, Inductive, Queue
    <3>2. acked' \in acked..version
      BY <2>5, <3>1, ReturnedKeepsQueue DEF NothingLeft
    <3>3. lost' = lost /\ disk' = disk /\ version' = version
      BY <2>5 DEF NothingLeft, memory
    <3>4. lost' \/ acked' <= disk'.version
      BY <2>1, <3>1, <3>2, <3>3
    <3>5. QED BY <3>2, <3>3, <3>4 DEF Durable!Next, Durable!Return
  <2>6. CASE Restart
    BY <2>6 DEF Restart, Durable!Next, Durable!Crash
  <2>7. ASSUME NEW u \in Users, Ask(u) PROVE UNCHANGED Durable!vars
    BY <2>7 DEF Ask, memory
  <2>8. ASSUME NEW r \in Custom, NEW says \in SUBSET Grants, CreateRole(r, says) \/ UpdateRole(r, says)
        PROVE  Durable!Next
    BY <2>2, <2>8 DEF CreateRole, UpdateRole
  <2>9. ASSUME NEW r \in Custom, DeleteRole(r) PROVE Durable!Next
    BY <2>2, <2>9 DEF DeleteRole
  <2>10. ASSUME NEW u \in Users, NEW ids \in SUBSET Ids, SetBinding(u, ids) PROVE Durable!Next
    BY <2>2, <2>10 DEF SetBinding
  <2>11. ASSUME NEW u \in Users, SetGlobalDeny(u) PROVE Durable!Next
    BY <2>2, <2>11 DEF SetGlobalDeny
  <2>12. ASSUME NEW r \in Custom, NEW apply \in BOOLEAN, StopRecording(r, apply)
         PROVE  Durable!Next \/ UNCHANGED Durable!vars
    BY <2>2, <2>12 DEF StopRecording, memory
  <2>13. ASSUME NEW r \in Custom, StartRecording(r) PROVE UNCHANGED Durable!vars
    BY <2>13 DEF StartRecording, memory
  <2>14. ASSUME NEW u \in Users, NEW g \in Grants, Observe(u, g) PROVE UNCHANGED Durable!vars
    BY <2>14 DEF Observe, memory
  <2>15. CASE RegistryUpdated \/ ConditionsChange \/ BeginWrite \/ UNCHANGED vars
    BY <2>15 DEF RegistryUpdated, ConditionsChange, BeginWrite, vars, memory
  <2>16. QED
    BY <2>3, <2>4, <2>5, <2>6, <2>7, <2>8, <2>9, <2>10, <2>11, <2>12, <2>13, <2>14, <2>15
       DEF Next, Write
<1>3. QED BY <1>1, <1>2, AlwaysInductive, PTL DEF Spec, ImplementsDurableStore, Durable!Spec
=============================================================================
