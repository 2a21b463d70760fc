--------------------------- MODULE WsSessionProofs ---------------------------
(***************************************************************************)
(* What holds of a proxied connection for every set of commands and        *)
(* policies and every value of the bounds.                                 *)
(***************************************************************************)
EXTENDS WsSession, FiniteSetTheorems, WellFoundedInduction, TLAPS

\* An insertion keeps a map a map: its keys are ids, its values commands.
LEMMA InsertType ==
  ASSUME NEW map \in Labels, NEW id \in Ids, NEW cmd \in Commands, NEW limit \in Nat
  PROVE  Insert(map, id, cmd, limit) \in Labels
  BY DEF Insert, Labels

\* The types, step by step.
LEMMA TypeInit == Init => TypeOK
<1> SUFFICES ASSUME Init PROVE TypeOK
  OBVIOUS
<1>1. /\ pending \in Labels
      /\ streaming \in Labels
      /\ endpoints \in Labels
      /\ running \in Labels
      /\ reply \in [Ids -> {"none", "ok", "failed"}]
  BY DEF Init, Labels
<1>2. highest \in 0..MaxId /\ left \in 0..MaxBatch /\ kept \in Seq(Message)
  BY BoundAssumption DEF Init
<1>3. /\ policy \in Policies
      /\ permissions \in Policies
      /\ recorded \subseteq Policies \ {NoPolicy}
      /\ conn \in {"open", "closing", "closed"}
      /\ user \in BOOLEAN
  BY PolicyAssumption DEF Init
<1>4. QED
  BY <1>1, <1>2, <1>3 DEF Init, TypeOK

LEMMA TypeIntercept ==
  ASSUME TypeOK, NEW m \in Message, Intercept(m)
  PROVE  TypeOK'
<1> USE BoundAssumption
<1>0. m.id \in Ids /\ m.cmd \in Commands /\ m.id \in 0..MaxId
  BY DEF Message, Ids
<1>1. Remembered(m) \in Labels /\ Forgotten(m) \in Labels
  <2>1. Remembered(m) \in Labels
    BY <1>0, InsertType DEF Remembered, TypeOK
  <2>2. QED BY <2>1, <1>0 DEF Forgotten, Labels
<1>2. Insert(endpoints, m.id, m.cmd, MaxEndpoints) \in Labels
  BY <1>0, InsertType DEF TypeOK
<1>3. TakeMessage => /\ left' \in 0..MaxBatch /\ permissions' \in Policies
                     /\ UNCHANGED <<environment, user, streaming, outgoing, remembered, upstream, client>>
  BY DEF TakeMessage, TypeOK, Refreshed
<1>4. \A r \in {"id_reuse", "busy", "denied"} : Refuse(m, r) => refusing' \in Refusal
  BY <1>0 DEF Refuse, Refusal
<1>5. CASE InterceptReused(m)
  BY <1>0, <1>3, <1>4, <1>5 DEF InterceptReused, TypeOK, environment, upstream, client
<1>6. CASE InterceptBusy(m)
  BY <1>0, <1>1, <1>3, <1>4, <1>6 DEF InterceptBusy, TypeOK, environment, upstream, client
<1>7. CASE InterceptAllowed(m)
  <2>1. kept' \in Seq(Message)
    BY <1>7 DEF InterceptAllowed, TypeOK
  <2>2. endpoints' \in Labels /\ highest' \in 0..MaxId
    BY <1>0, <1>2, <1>7 DEF InterceptAllowed, NoteRequest, TypeOK
  <2>3. QED
    BY <1>1, <1>3, <1>7, <2>1, <2>2 DEF InterceptAllowed, TypeOK, environment, upstream, client
<1>8. CASE InterceptDenied(m)
  <2>2. endpoints' \in Labels /\ highest' \in 0..MaxId
    BY <1>0, <1>2, <1>8 DEF InterceptDenied, NoteRequest, TypeOK
  <2>3. QED
    BY <1>1, <1>3, <1>4, <1>8, <2>2 DEF InterceptDenied, TypeOK, environment, upstream, client
<1>9. QED BY <1>5, <1>6, <1>7, <1>8 DEF Intercept

LEMMA TypeServerFrame ==
  ASSUME TypeOK, NEW id \in Ids, ServerFrame(id)
  PROVE  /\ permissions' \in Policies
         /\ running[id] \in Commands
         /\ UNCHANGED <<environment, user, highest, pending, inbound, running, client>>
  BY DEF ServerFrame, TypeOK, Refreshed, Labels

LEMMA TypeNoteEndpoint ==
  ASSUME TypeOK, NEW id \in Ids, NEW ok, NoteEndpoint(id, ok)
  PROVE  endpoints' \in Labels /\ remembered' \subseteq Ids
  BY DEF NoteEndpoint, TypeOK, Labels

LEMMA CorrelateType ==
  ASSUME TypeOK, NEW id \in Ids
  PROVE  Correlate(id) \in Commands \cup {NoCommand}
  BY DEF Correlate, TypeOK, Labels

LEMMA TypeAnswers ==
  ASSUME TypeOK, NEW id \in Ids, NEW ok \in BOOLEAN, ServerAnswers(id, ok)
  PROVE  TypeOK'
<1>1. ServerFrame(id) /\ NoteEndpoint(id, ok)
  BY DEF ServerAnswers
<1>2. reply' \in [Ids -> {"none", "ok", "failed"}]
  BY DEF ServerAnswers, TypeOK
<1>3. outgoing' \in Frame \cup {Nothing}
  <2>1. Correlate(id) \in Commands \cup {NoCommand} /\ endpoints[id] \in Commands \cup {NoCommand}
    BY CorrelateType DEF TypeOK, Labels
  <2>2. QED
    BY <2>1 DEF ServerAnswers, Send, Frame, TypeOK
<1>4. streaming' = streaming /\ streamed' = streamed
  BY DEF ServerAnswers
<1>5. QED
  BY <1>1, <1>2, <1>3, <1>4, TypeServerFrame, TypeNoteEndpoint
  DEF TypeOK, environment, inbound, client

LEMMA TypeStreams ==
  ASSUME TypeOK, NEW id \in Ids, NEW empty \in BOOLEAN, ServerStreams(id, empty)
  PROVE  TypeOK'
<1>1. ServerFrame(id) /\ NoteEndpoint(id, FALSE)
  BY DEF ServerStreams
<1>2. Correlate(id) \in Commands \cup {NoCommand}
  BY CorrelateType
<1>3. outgoing' \in Frame \cup {Nothing}
  BY <1>2 DEF ServerStreams, Send, Frame, TypeOK
<1>4. streaming' \in Labels
  BY <1>2 DEF ServerStreams, TypeOK, Labels
<1>5. reply' = reply /\ streamed' \subseteq Ids
  BY DEF ServerStreams, TypeOK
<1>6. QED
  BY <1>1, <1>3, <1>4, <1>5, TypeServerFrame, TypeNoteEndpoint
  DEF TypeOK, environment, inbound, client

LEMMA KeptMessages ==
  ASSUME TypeOK
  PROVE  /\ DOMAIN kept = 1..Len(kept)
         /\ Len(kept) \in Nat
         /\ \A i \in DOMAIN kept : kept[i] \in Message
<1>1. kept \in Seq(Message)
  BY DEF TypeOK
<1>2. QED BY <1>1

LEMMA TypeForward ==
  ASSUME TypeOK, ForwardKept
  PROVE  TypeOK'
<1>1. running' \in Labels
  <2>1. \A i \in DOMAIN kept : kept[i].cmd \in Commands
    BY KeptMessages DEF Message
  <2>2. \A id \in Ids : running[id] \in Commands \cup {NoCommand}
    BY DEF TypeOK, Labels
  <2>3. QED
    BY <2>1, <2>2 DEF ForwardKept, Labels
<1>2. kept' \in Seq(Message)
  BY DEF ForwardKept
<1>3. QED
  BY <1>1, <1>2 DEF ForwardKept, TypeOK, environment, maps, client

\* Every action keeps the types.
LEMMA TypeNext == TypeOK /\ [Next]_vars => TypeOK'
<1> SUFFICES ASSUME TypeOK, [Next]_vars PROVE TypeOK'
  OBVIOUS
<1> USE DEF environment, maps, inbound, upstream, client
<1>1. CASE Authenticate
  BY <1>1 DEF Authenticate, TypeOK
<1>2. ASSUME NEW n \in 1..MaxBatch, ClientSends(n) PROVE TypeOK'
  BY <1>2, BoundAssumption DEF ClientSends, TypeOK
<1>3. ASSUME NEW m \in Message, Intercept(m) PROVE TypeOK'
  BY <1>3, TypeIntercept
<1>4. CASE RefusalSent
  BY <1>4 DEF RefusalSent, TypeOK, Refusal
<1>5. CASE ForwardKept
  BY <1>5, TypeForward
<1>6. ASSUME NEW id \in Ids, NEW ok \in BOOLEAN, ServerAnswers(id, ok) PROVE TypeOK'
  BY <1>6, TypeAnswers
<1>7. ASSUME NEW id \in Ids, NEW empty \in BOOLEAN, ServerStreams(id, empty) PROVE TypeOK'
  BY <1>7, TypeStreams
<1>8. CASE FrameSent
  BY <1>8 DEF FrameSent, TypeOK, Frame
<1>9. ASSUME NEW p \in Policies \ {NoPolicy},
             PolicyChanges(p) \/ StartRecording(p) \/ StopRecording(p)
      PROVE  TypeOK'
  BY <1>9 DEF PolicyChanges, StartRecording, StopRecording, Elsewhere, TypeOK
<1>10. CASE TokenRevoked \/ Close
  BY <1>10 DEF TokenRevoked, Close, Elsewhere, TypeOK
<1>11. CASE UNCHANGED vars
  BY <1>11 DEF vars, TypeOK
<1>12. QED
  BY <1>1, <1>2, <1>3, <1>4, <1>5, <1>6, <1>7, <1>8, <1>9, <1>10, <1>11 DEF Next

\* The state of a connection keeps its types for every set of commands and
\* policies and every bound.
THEOREM TypeCorrect == Spec => []TypeOK
  BY TypeInit, TypeNext, PTL DEF Spec

-----------------------------------------------------------------------------
(* The inductive invariant *)

\* Ids increase from what runs upstream, over what is about to be forwarded, to
\* the highest one seen.
Ordered ==
  /\ \A i, j \in DOMAIN kept : i < j => kept[i].id < kept[j].id
  /\ \A i \in DOMAIN kept : kept[i].id <= highest
  /\ \A id \in Ids : running[id] # NoCommand =>
       /\ id <= highest
       /\ \A i \in DOMAIN kept : id < kept[i].id

\* What the maps hold under an id is the command that runs, or will run, there.
Labelled ==
  /\ \A id \in Ids : pending[id] # NoCommand => id <= highest
  /\ \A id \in Ids : streaming[id] # NoCommand => streaming[id] = running[id]
  /\ \A id \in Ids : running[id] # NoCommand => pending[id] \in {NoCommand, running[id]}
  /\ \A i \in DOMAIN kept : pending[kept[i].id] \in {NoCommand, kept[i].cmd}

\* The frame on its way to the client is one of a command that runs, seen
\* through that command's filter.
Shown ==
  outgoing # Nothing =>
    /\ running[outgoing.id] # NoCommand
    /\ outgoing.view \in {Raw, running[outgoing.id]}

\* Only eviction takes the label of a forwarded command.
LabelKept ==
  /\ \A id \in Ids : running[id] # NoCommand => Correlate(id) # NoCommand \/ Overtaken(id)
  /\ \A i \in DOMAIN kept : pending[kept[i].id] # NoCommand \/ Overtaken(kept[i].id)

\* An answer has reached the client, is on its way, or was overtaken.
Answered ==
  \A id \in Ids : reply[id] # "none" =>
    \/ id \in told
    \/ outgoing # Nothing /\ outgoing.id = id /\ outgoing.kind \in {"result", "error"}
    \/ Overtaken(id)

IInv == Ordered /\ Labelled /\ Shown /\ LabelKept /\ Answered

\* No message was taken before the connection had a user, so what is in
\* permissions until then is what it was created with.
Unauthenticated == ~user => permissions = NoPolicy

-----------------------------------------------------------------------------
(* The maps *)

\* An insertion changes nothing but the key inserted and the one evicted.
LEMMA InsertValues ==
  ASSUME NEW map \in Labels, NEW id \in Ids, NEW cmd \in Commands, NEW limit \in Nat,
         NEW j \in Ids
  PROVE  /\ j # id => Insert(map, id, cmd, limit)[j] \in {map[j], NoCommand}
         /\ j = id => Insert(map, id, cmd, limit)[j] \in {cmd, NoCommand}
  BY DEF Insert, Labels

\* The oldest key of a map is one of its keys and not above any of them.
LEMMA OldestIsLeast ==
  ASSUME NEW S \in SUBSET Ids, S # {}
  PROVE  Oldest(S) \in S /\ \A j \in S : Oldest(S) <= j
<1> DEFINE Less == {p \in Nat \X Nat : p[1] < p[2]}
<1>1. S \in SUBSET Nat
  BY BoundAssumption DEF Ids
<1>2. IsWellFoundedOn(Less, Nat)
  BY NatLessThanWellFounded DEF OpToRel
<1>3. PICK n \in S : \A j \in S : ~(<<j, n>> \in Less)
  <2> HIDE DEF Less
  <2>1. QED BY <1>1, <1>2, WFMin
<1>4. \A j \in S : n <= j
  <2> SUFFICES ASSUME NEW j \in S PROVE n <= j
    OBVIOUS
  <2>1. j \in Nat /\ n \in Nat
    BY <1>1
  <2>2. j < n => <<j, n>> \in Less
    BY <2>1
  <2>3. ~(j < n)
    BY <1>3, <2>2
  <2>4. QED BY <2>1, <2>3
<1>5. QED BY <1>4 DEF Oldest

\* A key that is evicted had as many keys inserted after it as the map may
\* hold: the new key is that far above it.
LEMMA InsertOvertakes ==
  ASSUME NEW map \in Labels, NEW id \in Ids, NEW cmd \in Commands,
         NEW limit \in Nat \ {0}, NEW j \in Ids,
         \A k \in Ids : map[k] # NoCommand => k < id,
         j = id \/ map[j] # NoCommand,
         Insert(map, id, cmd, limit)[j] = NoCommand
  PROVE  id >= j + limit
<1> DEFINE new == [map EXCEPT ![id] = cmd]
           H == Held(new)
<1>1. cmd # NoCommand
  BY CommandAssumption
<1>2. H \subseteq Ids /\ id \in H /\ j \in H /\ \A k \in H : k <= id
  BY <1>1 DEF Held, Labels, Ids
<1>3. Cardinality(H) > limit /\ j = Oldest(H)
  BY <1>1, <1>2 DEF Insert, Labels, Held
<1>4. \A k \in H : j <= k
  BY <1>2, <1>3, OldestIsLeast
<1>5. H \subseteq j..id /\ j \in Int /\ id \in Int /\ j <= id
  <2>1. \A k \in H : k \in Int
    BY <1>2, BoundAssumption DEF Ids
  <2> HIDE DEF H
  <2>2. QED BY <1>2, <1>4, <2>1
<1>6. /\ IsFiniteSet(j..id)
      /\ Cardinality(j..id) = id - j + 1
  BY <1>5, FS_Interval
<1>7. Cardinality(H) <= id - j + 1
  BY <1>5, <1>6, FS_Subset
<1>8. Cardinality(H) \in Nat
  BY <1>5, <1>6, FS_Subset, FS_CardinalityType
<1>9. QED
  BY <1>3, <1>5, <1>7, <1>8

-----------------------------------------------------------------------------
(* The invariant, action by action *)

\* What the invariant speaks of; an action that leaves it alone keeps it.
relevant == <<highest, pending, streaming, kept, outgoing, running, reply, told>>

LEMMA InvUnchanged == IInv /\ UNCHANGED relevant => IInv'
  BY DEF IInv, relevant, Ordered, Labelled, Shown, LabelKept, Answered, Correlate, Overtaken

LEMMA InvInit == Init => IInv
  BY DEF Init, IInv, Ordered, Labelled, Shown, LabelKept, Answered, Correlate

\* A message that is refused adds nothing to the maps, and takes from them at
\* most the entry its arrival pushed out.
LEMMA InvRefused ==
  ASSUME TypeOK, IInv, NEW m \in Message, m.id > highest,
         highest' = m.id, pending' = Forgotten(m),
         UNCHANGED <<streaming, kept, outgoing, running, reply, told>>
  PROVE  IInv'
<1>0. /\ m.id \in Ids /\ m.cmd \in Commands
      /\ highest \in Nat /\ m.id \in Nat
      /\ pending \in Labels
      /\ MaxPending \in Nat \ {0}
  BY BoundAssumption DEF Message, TypeOK, Ids
<1>1. ASSUME NEW j \in Ids
      PROVE  pending'[j] \in {pending[j], NoCommand}
  <2>1. j # m.id => Remembered(m)[j] \in {pending[j], NoCommand}
    BY <1>0, InsertValues DEF Remembered
  <2>2. Remembered(m) \in Labels
    BY <1>0, InsertType DEF Remembered
  <2>3. QED BY <1>0, <2>1, <2>2 DEF Forgotten, Labels
<1>2. ASSUME NEW j \in Ids, pending[j] # NoCommand, pending'[j] = NoCommand
      PROVE  m.id >= j + MaxPending
  <2>1. j # m.id /\ \A k \in Ids : pending[k] # NoCommand => k < m.id
    BY <1>0, <1>2 DEF IInv, Labelled, Ids
  <2>2. Remembered(m)[j] = NoCommand
    BY <1>0, <1>2, <2>1 DEF Forgotten, Labels
  <2>3. QED
    BY <1>0, <1>2, <2>1, <2>2, InsertOvertakes DEF Remembered
<1>3. \A id \in Ids : Overtaken(id) => Overtaken(id)'
  BY <1>0, BoundAssumption DEF Overtaken, Ids
<1>4. \A i \in DOMAIN kept : kept[i].id \in Ids
  BY KeptMessages DEF Message
<1>5. Ordered'
  BY <1>0, <1>4, BoundAssumption DEF IInv, Ordered, Ids
<1>6. Labelled'
  <2>1. \A id \in Ids : pending'[id] # NoCommand => id <= highest'
    BY <1>0, <1>1, BoundAssumption DEF IInv, Labelled, Ids
  <2>2. QED BY <1>1, <1>4, <2>1 DEF IInv, Labelled
<1>7. Shown'
  BY DEF IInv, Shown
<1>8. LabelKept'
  BY <1>1, <1>2, <1>3, <1>4 DEF IInv, LabelKept, Correlate, Overtaken
<1>9. Answered'
  BY <1>3 DEF IInv, Answered
<1>10. QED BY <1>5, <1>6, <1>7, <1>8, <1>9 DEF IInv

\* A message that is allowed becomes the last one kept, under an id above all
\* others.
LEMMA InvAllowed ==
  ASSUME TypeOK, IInv, NEW m \in Message, m.id > highest,
         highest' = m.id, pending' = Remembered(m), kept' = Append(kept, m),
         UNCHANGED <<streaming, outgoing, running, reply, told>>
  PROVE  IInv'
<1>0. /\ m.id \in Ids /\ m.cmd \in Commands
      /\ highest \in Nat /\ m.id \in Nat
      /\ pending \in Labels
      /\ MaxPending \in Nat \ {0}
  BY BoundAssumption DEF Message, TypeOK, Ids
<1>1. ASSUME NEW j \in Ids
      PROVE  /\ j # m.id => pending'[j] \in {pending[j], NoCommand}
             /\ j = m.id => pending'[j] \in {m.cmd, NoCommand}
  BY <1>0, InsertValues DEF Remembered
<1>2. ASSUME NEW j \in Ids, j = m.id \/ pending[j] # NoCommand, pending'[j] = NoCommand
      PROVE  m.id >= j + MaxPending
  <2>1. \A k \in Ids : pending[k] # NoCommand => k < m.id
    BY <1>0 DEF IInv, Labelled, Ids
  <2>2. QED
    BY <1>0, <1>2, <2>1, InsertOvertakes DEF Remembered
<1>3. \A id \in Ids : Overtaken(id) => Overtaken(id)'
  BY <1>0, BoundAssumption DEF Overtaken, Ids
<1>4. /\ \A i \in DOMAIN kept : kept[i].id \in Ids /\ kept[i].id < m.id
      /\ \A id \in Ids : running[id] # NoCommand => id < m.id
  BY <1>0, KeptMessages, BoundAssumption DEF IInv, Ordered, Message, Ids
<1>5. /\ DOMAIN kept = 1..Len(kept) /\ Len(kept) \in Nat
      /\ DOMAIN kept' = 1..(Len(kept) + 1)
      /\ \A i \in DOMAIN kept : kept'[i] = kept[i]
      /\ kept'[Len(kept) + 1] = m
  <2>1. kept \in Seq(Message)
    BY DEF TypeOK
  <2>2. QED BY <2>1
<1>6. \A i \in DOMAIN kept' : \/ i \in DOMAIN kept /\ kept'[i] = kept[i]
                              \/ i = Len(kept) + 1 /\ kept'[i] = m
  BY <1>5
<1>7. Ordered'
  <2>1. ASSUME NEW i \in DOMAIN kept', NEW j \in DOMAIN kept', i < j
        PROVE  kept'[i].id < kept'[j].id
    <3>1. i \in DOMAIN kept
      BY <1>5, <2>1
    <3>2. QED BY <1>4, <1>5, <1>6, <2>1, <3>1 DEF IInv, Ordered
  <2>2. \A i \in DOMAIN kept' : kept'[i].id <= highest'
    BY <1>0, <1>4, <1>6, BoundAssumption DEF Ids
  <2>3. \A id \in Ids : running'[id] # NoCommand =>
          id <= highest' /\ \A i \in DOMAIN kept' : id < kept'[i].id
    BY <1>0, <1>4, <1>6, BoundAssumption DEF IInv, Ordered, Ids
  <2>4. QED BY <2>1, <2>2, <2>3 DEF Ordered
<1>8. Labelled'
  <2>1. \A id \in Ids : pending'[id] # NoCommand => id <= highest'
    BY <1>0, <1>1, BoundAssumption DEF IInv, Labelled, Ids
  <2>2. \A id \in Ids : running'[id] # NoCommand => pending'[id] \in {NoCommand, running'[id]}
    BY <1>1, <1>4, BoundAssumption DEF IInv, Labelled, Ids
  <2>3. \A i \in DOMAIN kept' : pending'[kept'[i].id] \in {NoCommand, kept'[i].cmd}
    BY <1>0, <1>1, <1>4, <1>6, BoundAssumption DEF IInv, Labelled, Ids
  <2>4. QED BY <2>1, <2>2, <2>3 DEF IInv, Labelled
<1>9. Shown'
  BY DEF IInv, Shown
<1>10. LabelKept'
  <2>1. ASSUME NEW id \in Ids, running[id] # NoCommand
        PROVE  Correlate(id)' # NoCommand \/ Overtaken(id)'
    BY <1>1, <1>2, <1>3, <1>4, <2>1, <1>0, BoundAssumption DEF IInv, LabelKept, Correlate, Overtaken, Ids
  <2>2. ASSUME NEW i \in DOMAIN kept'
        PROVE  \/ pending'[kept'[i].id] # NoCommand
               \/ highest' >= kept'[i].id + MaxPending
    <3>1. kept'[i].id \in Ids
      BY <1>0, <1>4, <1>6
    <3>2. CASE i \in DOMAIN kept /\ kept'[i] = kept[i]
      BY <3>1, <3>2, <1>2, <1>3 DEF IInv, LabelKept, Overtaken
    <3>3. CASE kept'[i] = m
      BY <1>0, <1>2, <3>3
    <3>4. QED BY <1>6, <3>2, <3>3
  <2>3. QED BY <2>1, <2>2 DEF LabelKept, Overtaken
<1>11. Answered'
  BY <1>3 DEF IInv, Answered
<1>12. QED BY <1>7, <1>8, <1>9, <1>10, <1>11 DEF IInv

\* What runs after a frame is written: what ran, and what was kept.
LEMMA ForwardRuns ==
  ASSUME TypeOK, IInv, ForwardKept
  PROVE  /\ \A i \in DOMAIN kept : /\ kept[i].id \in Ids
                                   /\ running[kept[i].id] = NoCommand
                                   /\ running'[kept[i].id] = kept[i].cmd
         /\ \A id \in Ids : \/ running'[id] = running[id]
                            \/ \E i \in DOMAIN kept : kept[i].id = id
         /\ \A id \in Ids : running[id] # NoCommand => running'[id] = running[id]
<1>0. /\ DOMAIN kept = 1..Len(kept) /\ Len(kept) \in Nat
      /\ \A i \in DOMAIN kept : kept[i].id \in Ids /\ kept[i].cmd \in Commands
  BY KeptMessages DEF Message
<1>1. \A i \in DOMAIN kept : Accepted(i)
  BY <1>0 DEF IInv, Ordered, Accepted
<1>2. \A i, j \in DOMAIN kept : kept[i].id = kept[j].id => i = j
  <2> SUFFICES ASSUME NEW i \in DOMAIN kept, NEW j \in DOMAIN kept,
                      kept[i].id = kept[j].id, i # j
               PROVE  FALSE
    OBVIOUS
  <2>1. i \in Nat /\ j \in Nat /\ kept[i].id \in Nat /\ kept[j].id \in Nat
    BY <1>0 DEF Ids
  <2>2. i < j \/ j < i
    BY <2>1
  <2>3. QED BY <2>1, <2>2 DEF IInv, Ordered
<1>3. ASSUME NEW i \in DOMAIN kept
      PROVE  running[kept[i].id] = NoCommand /\ running'[kept[i].id] = kept[i].cmd
  <2>1. (CHOOSE k \in DOMAIN kept : kept[k].id = kept[i].id /\ Accepted(k)) = i
    BY <1>1, <1>2
  <2>2. running'[kept[i].id] = kept[i].cmd
    BY <1>0, <1>1, <2>1 DEF ForwardKept
  <2>3. running[kept[i].id] = NoCommand
    BY <1>0, BoundAssumption DEF IInv, Ordered, Ids
  <2>4. QED BY <2>2, <2>3
<1>4. \A id \in Ids : \/ running'[id] = running[id]
                      \/ \E i \in DOMAIN kept : kept[i].id = id
  BY DEF ForwardKept
<1>5. QED BY <1>0, <1>3, <1>4

\* The kept messages run under their own ids: none was running, and no two of
\* them have the same one.
LEMMA InvForward ==
  ASSUME TypeOK, IInv, ForwardKept
  PROVE  IInv'
<1>0. /\ DOMAIN kept = 1..Len(kept) /\ Len(kept) \in Nat
      /\ \A i \in DOMAIN kept : kept[i].id \in Ids /\ kept[i].cmd \in Commands
  BY KeptMessages DEF Message
<1>3. \A i \in DOMAIN kept : running'[kept[i].id] = kept[i].cmd /\ running[kept[i].id] = NoCommand
  BY ForwardRuns
<1>4. \A id \in Ids : \/ running'[id] = running[id]
                      \/ \E i \in DOMAIN kept : kept[i].id = id
  BY DEF ForwardKept
<1>5. UNCHANGED <<highest, pending, streaming, outgoing, reply, told>> /\ kept' = <<>>
  BY DEF ForwardKept, maps, client
<1>6. Ordered'
  <2>1. \A id \in Ids : running'[id] # NoCommand => id <= highest
    BY <1>0, <1>4, BoundAssumption DEF IInv, Ordered, Ids
  <2>2. QED BY <1>5, <2>1 DEF Ordered
<1>7. Labelled'
  <2>1. \A id \in Ids : streaming[id] # NoCommand => running[id] # NoCommand
    BY DEF IInv, Labelled
  <2>2. \A id \in Ids : running[id] # NoCommand => running'[id] = running[id]
    BY <1>3, <1>4
  <2>3. \A id \in Ids : running'[id] # NoCommand => pending[id] \in {NoCommand, running'[id]}
    BY <1>3, <1>4, <2>2 DEF IInv, Labelled
  <2>4. QED BY <1>5, <2>1, <2>2, <2>3 DEF IInv, Labelled
<1>8. Shown'
  BY <1>3, <1>4, <1>5, CommandAssumption DEF IInv, Shown, TypeOK, Frame
<1>9. LabelKept'
  BY <1>3, <1>4, <1>5 DEF IInv, LabelKept, Correlate, Overtaken
<1>10. Answered'
  BY <1>5 DEF IInv, Answered, Overtaken
<1>11. QED BY <1>6, <1>7, <1>8, <1>9, <1>10 DEF IInv

\* A label is what runs.
LEMMA CorrelateRuns ==
  ASSUME IInv, NEW id \in Ids, running[id] # NoCommand
  PROVE  Correlate(id) \in {NoCommand, running[id]}
  BY DEF IInv, Labelled, Correlate

LEMMA InvAnswers ==
  ASSUME TypeOK, IInv, NEW id \in Ids, NEW ok \in BOOLEAN, ServerAnswers(id, ok)
  PROVE  IInv'
<1>1. /\ UNCHANGED <<highest, pending, streaming, kept, running, told>>
      /\ outgoing = Nothing /\ running[id] # NoCommand
  BY DEF ServerAnswers, ServerFrame, inbound, client
<1>2. Ordered' /\ Labelled' /\ LabelKept'
  BY <1>1 DEF IInv, Ordered, Labelled, LabelKept, Correlate, Overtaken
<1>3. Correlate(id) \in {NoCommand, running[id]}
  BY <1>1, CorrelateRuns
<1>4. CASE \E k \in {"result", "error"}, a \in Commands \cup {NoCommand} :
             Send(id, k, Raw, a) \/ (Correlate(id) # NoCommand /\ Send(id, k, Correlate(id), a))
  <2>1. /\ outgoing'.id = id
        /\ outgoing'.kind \in {"result", "error"}
        /\ outgoing'.view \in {Raw, running[id]}
        /\ outgoing' \in Frame
    <3>1. Correlate(id) \in Commands \cup {NoCommand}
      BY CorrelateType
    <3>2. QED BY <1>3, <1>4, <3>1 DEF Send, Frame
  <2>2. Shown'
    BY <1>1, <2>1 DEF Shown
  <2>3. Answered'
    <3>1. \A j \in Ids : j # id => reply'[j] = reply[j]
      BY DEF ServerAnswers, TypeOK
    <3>2. outgoing' # Nothing
      BY <2>1, NothingAssumption
    <3>3. QED BY <1>1, <2>1, <3>1, <3>2 DEF IInv, Answered, Overtaken
  <2>4. QED BY <1>2, <2>2, <2>3 DEF IInv
<1>5. CASE Correlate(id) = NoCommand /\ UNCHANGED outgoing
  <2>1. Overtaken(id)
    BY <1>1, <1>5 DEF IInv, LabelKept
  <2>2. Answered'
    <3>1. \A j \in Ids : j # id => reply'[j] = reply[j]
      BY DEF ServerAnswers, TypeOK
    <3>2. QED BY <1>1, <1>5, <2>1, <3>1 DEF IInv, Answered, Overtaken
  <2>3. Shown'
    BY <1>1, <1>5 DEF Shown
  <2>4. QED BY <1>2, <2>2, <2>3 DEF IInv
<1>6. QED
  <2>1. endpoints[id] \in Commands \cup {NoCommand}
    BY DEF TypeOK, Labels
  <2>2. QED BY <1>4, <1>5, <2>1 DEF ServerAnswers

LEMMA InvStreams ==
  ASSUME TypeOK, IInv, NEW id \in Ids, NEW empty \in BOOLEAN, ServerStreams(id, empty)
  PROVE  IInv'
<1>1. /\ UNCHANGED <<highest, pending, kept, running, reply, told>>
      /\ outgoing = Nothing /\ running[id] # NoCommand
  BY DEF ServerStreams, ServerFrame, inbound, client
<1>2. Correlate(id) \in {NoCommand, running[id]}
  BY <1>1, CorrelateRuns
<1>3. \/ streaming' = streaming
      \/ streaming' = [streaming EXCEPT ![id] = running[id]]
  BY <1>2 DEF ServerStreams
<1>4. \A j \in Ids : \/ streaming'[j] = streaming[j]
                     \/ j = id /\ streaming'[j] = running[j]
  BY <1>3 DEF TypeOK, Labels
<1>5. Ordered' /\ Answered'
  BY <1>1 DEF IInv, Ordered, Answered, Overtaken
<1>6. Labelled'
  BY <1>1, <1>4 DEF IInv, Labelled
<1>7. LabelKept'
  BY <1>1, <1>4 DEF IInv, LabelKept, Correlate, Overtaken
<1>8. Shown'
  <2>1. \/ outgoing' = Nothing
        \/ outgoing'.id = id /\ outgoing'.view \in {Raw, running[id]}
    BY <1>1, <1>2 DEF ServerStreams, Send
  <2>2. QED BY <1>1, <2>1 DEF Shown
<1>9. QED BY <1>5, <1>6, <1>7, <1>8 DEF IInv

\* A write to the client that returns: what was on its way has arrived.
LEMMA InvSent ==
  ASSUME TypeOK, IInv, FrameSent \/ RefusalSent
  PROVE  IInv'
<1>1. /\ UNCHANGED <<highest, pending, streaming, kept, running, reply>>
      /\ outgoing' = Nothing \/ outgoing' = outgoing
      /\ told \subseteq told'
  BY DEF FrameSent, RefusalSent, maps, inbound, upstream
<1>2. Ordered' /\ Labelled' /\ LabelKept' /\ Shown'
  BY <1>1 DEF IInv, Ordered, Labelled, LabelKept, Shown, Correlate, Overtaken
<1>3. Answered'
  BY <1>1 DEF IInv, Answered, Overtaken, FrameSent, RefusalSent
<1>4. QED BY <1>2, <1>3 DEF IInv

LEMMA InvNext == TypeOK /\ IInv /\ [Next]_vars => IInv'
<1> SUFFICES ASSUME TypeOK, IInv, [Next]_vars PROVE IInv'
  OBVIOUS
<1> USE DEF environment, maps, inbound, upstream, client, relevant
<1>1. CASE Authenticate
  BY <1>1, InvUnchanged DEF Authenticate
<1>2. ASSUME NEW n \in 1..MaxBatch, ClientSends(n) PROVE IInv'
  BY <1>2, InvUnchanged DEF ClientSends
<1>3. ASSUME NEW m \in Message, Intercept(m) PROVE IInv'
  <2>1. CASE InterceptReused(m)
    BY <2>1, InvUnchanged DEF InterceptReused, TakeMessage
  <2>2. CASE InterceptBusy(m)
    BY <2>2, InvRefused DEF InterceptBusy, TakeMessage
  <2>3. CASE InterceptAllowed(m)
    BY <2>3, InvAllowed DEF InterceptAllowed, NoteRequest, TakeMessage
  <2>4. CASE InterceptDenied(m)
    BY <2>4, InvRefused DEF InterceptDenied, NoteRequest, TakeMessage
  <2>5. QED BY <1>3, <2>1, <2>2, <2>3, <2>4 DEF Intercept
<1>4. CASE RefusalSent \/ FrameSent
  BY <1>4, InvSent
<1>5. CASE ForwardKept
  BY <1>5, InvForward
<1>6. ASSUME NEW id \in Ids, NEW ok \in BOOLEAN, ServerAnswers(id, ok) PROVE IInv'
  BY <1>6, InvAnswers
<1>7. ASSUME NEW id \in Ids, NEW empty \in BOOLEAN, ServerStreams(id, empty) PROVE IInv'
  BY <1>7, InvStreams
<1>8. ASSUME NEW p \in Policies \ {NoPolicy},
             PolicyChanges(p) \/ StartRecording(p) \/ StopRecording(p)
      PROVE  IInv'
  BY <1>8, InvUnchanged DEF PolicyChanges, StartRecording, StopRecording, Elsewhere
<1>9. CASE TokenRevoked \/ Close
  BY <1>9, InvUnchanged DEF TokenRevoked, Close, Elsewhere
<1>10. CASE UNCHANGED vars
  BY <1>10, InvUnchanged DEF vars
<1>11. QED
  BY <1>1, <1>2, <1>3, <1>4, <1>5, <1>6, <1>7, <1>8, <1>9, <1>10 DEF Next

LEMMA Invariant == Spec => [](TypeOK /\ IInv)
<1>1. Init => TypeOK /\ IInv
  BY TypeInit, InvInit
<1>2. TypeOK /\ IInv /\ [Next]_vars => (TypeOK /\ IInv)'
  BY TypeNext, InvNext
<1>3. QED BY <1>1, <1>2, PTL DEF Spec

-----------------------------------------------------------------------------
(* The theorems *)

\* Whatever ids a client repeats and however the pumps interleave, a frame is
\* filtered by the command Home Assistant runs under its id.
THEOREM NeverRelabelled == Spec => []LabelFaithful
<1>1. TypeOK /\ IInv => LabelFaithful
  BY CorrelateRuns DEF IInv, Shown, LabelFaithful
<1>2. QED BY <1>1, Invariant, PTL

\* A reply is lost only to MAX_PENDING_IDS later commands.
THEOREM RepliesArrive == Spec => []ReplyNotLost
<1>1. TypeOK /\ IInv => ReplyNotLost
  BY DEF IInv, Answered, ReplyNotLost
<1>2. QED BY <1>1, Invariant, PTL

\* Until it has a user, a connection has the permissions it was created with.
LEMMA UnauthenticatedAlways == Spec => []Unauthenticated
<1>1. Init => Unauthenticated
  BY DEF Init, Unauthenticated
<1>2. Unauthenticated /\ [Next]_vars => Unauthenticated'
  <2> SUFFICES ASSUME Unauthenticated, [Next]_vars PROVE Unauthenticated'
    OBVIOUS
  <2>1. \/ user' = TRUE
        \/ user' = user /\ permissions' \in {permissions, Refreshed}
    BY DEF Next, Authenticate, ClientSends, Intercept, InterceptReused, InterceptBusy,
       InterceptAllowed, InterceptDenied, TakeMessage, RefusalSent, ForwardKept,
       ServerAnswers, ServerStreams, ServerFrame, FrameSent, PolicyChanges,
       StartRecording, StopRecording, TokenRevoked, Close, Elsewhere, vars
  <2>2. QED BY <2>1 DEF Unauthenticated, Refreshed
<1>3. QED BY <1>1, <1>2, PTL DEF Spec

\* A frame is relayed untouched only while the evaluator's answer at that very
\* moment is full access or is under a recording.
THEOREM RawIsEntitled == Spec => RawOnlyWhenEntitled
<1>1. TypeOK /\ Unauthenticated /\ [Next]_vars =>
        [(outgoing = Nothing /\ outgoing' # Nothing /\ outgoing'.view = Raw)
          => Unfiltered(policy)]_vars
  <2> SUFFICES ASSUME TypeOK, Unauthenticated, [Next]_vars,
                      outgoing = Nothing, outgoing' # Nothing, outgoing'.view = Raw
               PROVE  Unfiltered(policy)
    OBVIOUS
  <2>1. PICK id \in Ids : \/ \E ok \in BOOLEAN : ServerAnswers(id, ok)
                          \/ \E empty \in BOOLEAN : ServerStreams(id, empty)
    BY DEF Next, Authenticate, ClientSends, Intercept, InterceptReused, InterceptBusy,
       InterceptAllowed, InterceptDenied, TakeMessage, RefusalSent, ForwardKept,
       FrameSent, PolicyChanges, StartRecording, StopRecording, TokenRevoked, Close,
       Elsewhere, vars
  <2>2. Correlate(id) # Raw
    BY CorrelateType, CommandAssumption
  <2>3. Unfiltered(Refreshed)
    <3>1. ASSUME NEW ok \in BOOLEAN, ServerAnswers(id, ok) PROVE Unfiltered(Refreshed)
      <4>1. ASSUME NEW k, NEW a, Send(id, k, Correlate(id), a) PROVE FALSE
        BY <2>2, <4>1 DEF Send
      <4>2. QED BY <3>1, <4>1 DEF ServerAnswers
    <3>2. ASSUME NEW empty \in BOOLEAN, ServerStreams(id, empty) PROVE Unfiltered(Refreshed)
      <4>1. ASSUME NEW k, Send(id, k, Correlate(id), NoCommand) PROVE FALSE
        BY <2>2, <4>1 DEF Send
      <4>2. QED BY <3>2, <4>1 DEF ServerStreams
    <3>3. QED BY <2>1, <3>1, <3>2
  <2>4. user
    BY <2>3, PolicyAssumption DEF Unauthenticated, Refreshed, Unfiltered, Recording, TypeOK
  <2>5. QED BY <2>3, <2>4 DEF Refreshed
<1>2. QED BY <1>1, TypeCorrect, UnauthenticatedAlways, PTL DEF Spec, RawOnlyWhenEntitled

=============================================================================
