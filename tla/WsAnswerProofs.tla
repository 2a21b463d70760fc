--------------------------- MODULE WsAnswerProofs ---------------------------
(***************************************************************************)
(* What becomes of the answers of a proxied connection, for every set of   *)
(* commands and policies and every value of the bounds: the Supervisor's   *)
(* are judged by the endpoint asked, a refusal is the only answer of what  *)
(* it refuses, and a subscription begins with a frame the client gets.     *)
(***************************************************************************)
EXTENDS WsSessionProofs

\* MAX_ENDPOINTS later commands have been sent.
Outrun(id) == highest >= id + MaxEndpoints

\* Nothing is taken, kept or run for a connection without a user.
UserFirst ==
  /\ left > 0 \/ kept # <<>> => user
  /\ \A id \in Ids : running[id] # NoCommand => user

\* Only what runs is answered.
AnsweredRuns == \A id \in Ids : reply[id] # "none" => running[id] # NoCommand

\* The endpoint noted under an id is the command that runs, or will run, there.
EndpointLabels ==
  /\ \A id \in Ids : endpoints[id] # NoCommand => id <= highest
  /\ \A id \in Ids : running[id] # NoCommand => endpoints[id] \in {NoCommand, running[id]}
  /\ \A i \in DOMAIN kept : endpoints[kept[i].id] \in {NoCommand, kept[i].cmd}

\* Only eviction takes the endpoint of a Supervisor call that has no answer yet.
EndpointKept ==
  /\ \A id \in Ids : running[id] \in SupervisorCalls /\ reply[id] = "none"
                       => endpoints[id] # NoCommand \/ Outrun(id)
  /\ \A i \in DOMAIN kept : kept[i].cmd \in SupervisorCalls
                       => endpoints[kept[i].id] # NoCommand \/ Outrun(kept[i].id)

EInv == /\ UserFirst /\ AnsweredRuns /\ EndpointLabels /\ EndpointKept
        /\ SessionsTied /\ EndpointJudged

\* The client has been told, or is being told, that this id was refused.
Refused(id) ==
  \/ refusing # Nothing /\ refusing.id = id /\ refusing.reason # "id_reuse"
  \/ id \in told /\ reply[id] = "none"

\* A refused id has been seen, and neither runs nor is kept; and a result is on
\* its way only for what was answered.
RInv ==
  /\ \A id \in Ids : Refused(id) =>
       /\ id <= highest
       /\ running[id] = NoCommand
       /\ \A i \in DOMAIN kept : kept[i].id # id
  /\ outgoing # Nothing /\ outgoing.kind \in {"result", "error"}
       => reply[outgoing.id] # "none"

\* An event is on its way, or has reached the client.
Fed(id) ==
  \/ id \in fed
  \/ outgoing # Nothing /\ outgoing.id = id /\ outgoing.kind \in {"event", "opening"}

\* A feed that streams without being filtered, or is filtered, has fed the
\* client, or was overtaken before it began; and an empty stand-in was sent
\* only where streaming is noted.
OInv ==
  /\ \A id \in streamed : running[id] # NoCommand
  /\ \A id \in streamed : running[id] \in Feeds => Fed(id) \/ Overtaken(id)
  /\ \A id \in Ids : streaming[id] # NoCommand /\ running[id] \in Feeds => Fed(id)
  /\ \A id \in standins : streaming[id] # NoCommand
  /\ outgoing # Nothing /\ outgoing.kind = "opening"
       => streaming[outgoing.id] # NoCommand /\ outgoing.id \notin standins

-------------------------------------------------------------------------------
(* Supervisor calls and their endpoints *)

\* What EInv speaks of; an action that leaves it alone keeps it.
supervised == <<user, highest, endpoints, left, kept, outgoing, remembered, running, reply>>

LEMMA EUnchanged == EInv /\ UNCHANGED supervised => EInv'
  BY DEF EInv, supervised, UserFirst, AnsweredRuns, EndpointLabels, EndpointKept, Outrun,
     SessionsTied, EndpointJudged

LEMMA EInit == Init => EInv
  BY CommandAssumption DEF Init, EInv, UserFirst, AnsweredRuns, EndpointLabels, EndpointKept,
     SessionsTied, EndpointJudged

\* One more message at the end of those kept.
LEMMA KeptGrows ==
  ASSUME TypeOK, NEW m \in Message, kept' = Append(kept, m)
  PROVE  \A i \in DOMAIN kept' : \/ i \in DOMAIN kept /\ kept'[i] = kept[i]
                                 \/ kept'[i] = m
<1>1. kept \in Seq(Message)
  BY DEF TypeOK
<1>2. QED BY <1>1

\* A message with a new id: its endpoint is noted if it is a Supervisor call
\* that may be forwarded, and the one this evicts was noted that much earlier.
LEMMA ENoted ==
  ASSUME TypeOK, IInv, EInv, NEW m \in Message, m.id > highest, user, highest' = m.id,
         \/ kept' = kept /\ endpoints' = endpoints
         \/ /\ kept' = kept \/ kept' = Append(kept, m)
            /\ endpoints' = IF m.cmd \in SupervisorCalls
                            THEN Insert(endpoints, m.id, m.cmd, MaxEndpoints)
                            ELSE endpoints,
         UNCHANGED <<user, outgoing, remembered, running, reply>>
  PROVE  EInv'
<1>0. /\ m.id \in Ids /\ m.cmd \in Commands /\ m.cmd # NoCommand
      /\ highest \in Nat /\ m.id \in Nat
      /\ endpoints \in Labels
      /\ MaxEndpoints \in Nat \ {0}
  BY BoundAssumption, CommandAssumption DEF Message, TypeOK, Ids
<1>1. \A k \in Ids : endpoints[k] # NoCommand => k < m.id
  BY <1>0 DEF EInv, EndpointLabels, Ids
<1>2. ASSUME NEW j \in Ids
      PROVE  /\ j # m.id => endpoints'[j] \in {endpoints[j], NoCommand}
             /\ j = m.id => endpoints'[j] \in {m.cmd, NoCommand}
  BY <1>0, <1>1, InsertValues
<1>3. ASSUME NEW j \in Ids, endpoints[j] # NoCommand, endpoints'[j] = NoCommand
      PROVE  m.id >= j + MaxEndpoints
  BY <1>0, <1>1, <1>3, InsertOvertakes
<1>4. ASSUME m.cmd \in SupervisorCalls, kept' = Append(kept, m)
      PROVE  endpoints'[m.id] # NoCommand
  <2>1. kept' # kept
    <3>1. kept \in Seq(Message)
      BY DEF TypeOK
    <3>2. Len(Append(kept, m)) = Len(kept) + 1 /\ Len(kept) \in Nat
      BY <3>1
    <3>3. QED BY <1>4, <3>2
  <2>2. endpoints' = Insert(endpoints, m.id, m.cmd, MaxEndpoints)
    BY <1>4, <2>1
  <2>3. ~(m.id >= m.id + MaxEndpoints)
    BY <1>0
  <2>4. QED BY <1>0, <1>1, <2>2, <2>3, InsertOvertakes
<1>5. \A id \in Ids : Outrun(id) => Outrun(id)'
  BY <1>0, BoundAssumption DEF Outrun, Ids
<1>6. /\ \A i \in DOMAIN kept : kept[i].id \in Ids /\ kept[i].id # m.id
      /\ \A id \in Ids : running[id] # NoCommand => id # m.id
  BY <1>0, KeptMessages, BoundAssumption DEF IInv, Ordered, Message, Ids
<1>7. \A i \in DOMAIN kept' : \/ i \in DOMAIN kept /\ kept'[i] = kept[i]
                              \/ kept'[i] = m /\ kept' = Append(kept, m)
  BY KeptGrows
<1>8. UserFirst' /\ AnsweredRuns'
  BY DEF EInv, UserFirst, AnsweredRuns
<1>9. EndpointLabels'
  <2>1. \A id \in Ids : endpoints'[id] # NoCommand => id <= highest'
    BY <1>0, <1>1, <1>2, BoundAssumption DEF Ids
  <2>2. \A id \in Ids : running'[id] # NoCommand => endpoints'[id] \in {NoCommand, running'[id]}
    BY <1>2, <1>6 DEF EInv, EndpointLabels
  <2>3. \A i \in DOMAIN kept' : endpoints'[kept'[i].id] \in {NoCommand, kept'[i].cmd}
    BY <1>0, <1>2, <1>6, <1>7 DEF EInv, EndpointLabels
  <2>4. QED BY <2>1, <2>2, <2>3 DEF EndpointLabels
<1>10. EndpointKept'
  <2>1. ASSUME NEW id \in Ids, running[id] \in SupervisorCalls, reply[id] = "none"
        PROVE  endpoints'[id] # NoCommand \/ Outrun(id)'
    BY <1>3, <1>5, <2>1 DEF EInv, EndpointKept, Outrun
  <2>2. ASSUME NEW i \in DOMAIN kept', kept'[i].cmd \in SupervisorCalls
        PROVE  endpoints'[kept'[i].id] # NoCommand \/ highest' >= kept'[i].id + MaxEndpoints
    BY <1>3, <1>4, <1>5, <1>6, <1>7, <2>2 DEF EInv, EndpointKept, Outrun
  <2>3. QED BY <2>1, <2>2 DEF EndpointKept, Outrun
<1>11. SessionsTied'
  BY <1>5 DEF EInv, SessionsTied, Outrun
<1>12. EndpointJudged'
  <2>1. outgoing # Nothing => outgoing.id \in Ids
    BY DEF TypeOK, Frame
  <2>2. QED BY <1>5, <2>1 DEF EInv, EndpointJudged, Outrun
<1>13. QED BY <1>8, <1>9, <1>10, <1>11, <1>12 DEF EInv

LEMMA EIntercept ==
  ASSUME TypeOK, IInv, EInv, NEW m \in Message, Intercept(m)
  PROVE  EInv'
<1>1. /\ user
      /\ UNCHANGED <<user, outgoing, remembered, running, reply>>
  BY DEF Intercept, InterceptReused, InterceptBusy, InterceptAllowed, InterceptDenied,
     TakeMessage, upstream, EInv, UserFirst
<1>2. CASE InterceptReused(m)
  BY <1>1, <1>2 DEF InterceptReused, EInv, UserFirst, AnsweredRuns, EndpointLabels,
     EndpointKept, Outrun, SessionsTied, EndpointJudged
<1>3. CASE InterceptBusy(m)
  BY <1>1, <1>3, ENoted DEF InterceptBusy
<1>4. CASE InterceptAllowed(m)
  BY <1>1, <1>4, ENoted DEF InterceptAllowed, NoteRequest
<1>5. CASE InterceptDenied(m)
  BY <1>1, <1>5, ENoted DEF InterceptDenied, NoteRequest
<1>6. QED BY <1>2, <1>3, <1>4, <1>5 DEF Intercept

LEMMA EForward ==
  ASSUME TypeOK, IInv, EInv, ForwardKept
  PROVE  EInv'
<1>1. /\ UNCHANGED <<user, highest, endpoints, left, outgoing, remembered, reply>>
      /\ kept' = <<>> /\ kept # <<>> /\ user
  BY DEF ForwardKept, Busy, maps, EInv, UserFirst
<1>2. \A id \in Ids : \/ running'[id] = running[id]
                      \/ \E i \in DOMAIN kept : kept[i].id = id /\ running'[id] = kept[i].cmd
  BY ForwardRuns
<1>3. \A id \in Ids : running[id] # NoCommand => running'[id] = running[id]
  BY ForwardRuns
<1>4. UserFirst' /\ AnsweredRuns'
  BY <1>1, <1>3 DEF EInv, UserFirst, AnsweredRuns
<1>5. EndpointLabels' /\ EndpointKept'
  BY <1>1, <1>2 DEF EInv, EndpointLabels, EndpointKept, Outrun
<1>6. SessionsTied'
  <2>1. \A id \in Ids : reply[id] = "ok" => running'[id] = running[id]
    BY <1>3 DEF EInv, AnsweredRuns
  <2>2. QED BY <1>1, <2>1 DEF EInv, SessionsTied
<1>7. EndpointJudged'
  <2>1. outgoing # Nothing => outgoing.id \in Ids /\ running'[outgoing.id] = running[outgoing.id]
    BY <1>3 DEF TypeOK, Frame, IInv, Shown
  <2>2. QED BY <1>1, <2>1 DEF EInv, EndpointJudged
<1>8. QED BY <1>4, <1>5, <1>6, <1>7 DEF EInv

\* The endpoint of a call is taken out once it is answered, and not before.
LEMMA EReplied ==
  ASSUME TypeOK, IInv, EInv, NEW id \in Ids, NEW ok, NoteEndpoint(id, ok),
         reply'[id] # "none", running[id] # NoCommand,
         reply' \in [Ids -> {"none", "ok", "failed"}],
         \A j \in Ids : j # id => reply'[j] = reply[j],
         UNCHANGED <<user, highest, left, kept, running>>
  PROVE  UserFirst' /\ AnsweredRuns' /\ EndpointLabels' /\ EndpointKept'
<1>1. \A j \in Ids : endpoints'[j] = IF j = id THEN NoCommand ELSE endpoints[j]
  BY DEF NoteEndpoint, TypeOK, Labels
<1>2. \A i \in DOMAIN kept : kept[i].id \in Ids
  BY KeptMessages DEF Message
<1>3. UserFirst' /\ AnsweredRuns'
  BY DEF EInv, UserFirst, AnsweredRuns
<1>4. EndpointLabels'
  <2>1. \A j \in Ids : endpoints'[j] \in {endpoints[j], NoCommand}
    BY <1>1
  <2>2. /\ \A j \in Ids : endpoints'[j] # NoCommand => j <= highest
        /\ \A j \in Ids : running[j] # NoCommand => endpoints'[j] \in {NoCommand, running[j]}
    BY <2>1 DEF EInv, EndpointLabels
  <2>3. \A i \in DOMAIN kept : endpoints'[kept[i].id] \in {NoCommand, kept[i].cmd}
    BY <1>2, <2>1 DEF EInv, EndpointLabels
  <2>4. QED BY <2>2, <2>3 DEF EndpointLabels
<1>5. EndpointKept'
  <2>1. \A j \in Ids : running[j] \in SupervisorCalls /\ reply'[j] = "none"
                         => endpoints'[j] # NoCommand \/ Outrun(j)
    BY <1>1 DEF EInv, EndpointKept
  <2>2. \A i \in DOMAIN kept : kept[i].id # id
    BY <1>2, BoundAssumption DEF IInv, Ordered, Ids
  <2>3. \A i \in DOMAIN kept : kept[i].cmd \in SupervisorCalls
                         => endpoints'[kept[i].id] # NoCommand \/ Outrun(kept[i].id)
    BY <1>1, <1>2, <2>2 DEF EInv, EndpointKept
  <2>4. QED BY <2>1, <2>3 DEF EndpointKept, Outrun
<1>6. QED BY <1>3, <1>4, <1>5

LEMMA EAnswers ==
  ASSUME TypeOK, IInv, EInv, NEW id \in Ids, NEW ok \in BOOLEAN, ServerAnswers(id, ok)
  PROVE  EInv'
<1>1. /\ UNCHANGED <<user, highest, left, kept, running>>
      /\ NoteEndpoint(id, ok)
      /\ outgoing = Nothing /\ running[id] # NoCommand /\ reply[id] = "none" /\ user
      /\ reply' = [reply EXCEPT ![id] = IF ok THEN "ok" ELSE "failed"]
  BY DEF ServerAnswers, ServerFrame, inbound, EInv, UserFirst
<1>2. /\ reply' \in [Ids -> {"none", "ok", "failed"}]
      /\ reply'[id] = (IF ok THEN "ok" ELSE "failed")
      /\ \A j \in Ids : j # id => reply'[j] = reply[j]
  BY <1>1 DEF TypeOK
<1>3. UserFirst' /\ AnsweredRuns' /\ EndpointLabels' /\ EndpointKept'
  BY <1>1, <1>2, EReplied
<1>4. running[id] \in SupervisorCalls => endpoints[id] = running[id] \/ Outrun(id)
  BY <1>1 DEF EInv, EndpointKept, EndpointLabels
<1>5. SessionsTied'
  <2>1. endpoints[id] = SessionCall => running[id] = SessionCall
    BY <1>1, CommandAssumption DEF EInv, EndpointLabels
  <2>2. remembered' = IF endpoints[id] = SessionCall /\ ok
                      THEN remembered \cup {id} ELSE remembered
    BY <1>1 DEF NoteEndpoint
  <2>3. remembered' \subseteq {j \in Ids : running'[j] = SessionCall /\ reply'[j] = "ok"}
    BY <1>1, <1>2, <2>1, <2>2 DEF EInv, SessionsTied
  <2>4. ASSUME NEW j \in Ids, running[j] = SessionCall, reply'[j] = "ok"
        PROVE  j \in remembered' \/ highest >= j + MaxEndpoints
    BY <1>1, <1>2, <1>4, <2>2, <2>4, CommandAssumption DEF EInv, SessionsTied, Outrun
  <2>5. QED BY <1>1, <2>3, <2>4 DEF SessionsTied
<1>6. EndpointJudged'
  <2>1. ASSUME outgoing' # Nothing, outgoing'.view # Raw
        PROVE  outgoing'.id = id /\ outgoing'.addons = endpoints[id]
    BY <1>1, <2>1 DEF ServerAnswers, Send
  <2>2. QED BY <1>1, <1>4, <2>1 DEF EndpointJudged, Outrun
<1>7. QED BY <1>3, <1>5, <1>6 DEF EInv

LEMMA EStreams ==
  ASSUME TypeOK, IInv, EInv, NEW id \in Ids, NEW empty \in BOOLEAN, ServerStreams(id, empty)
  PROVE  EInv'
<1>1. /\ UNCHANGED <<user, highest, left, kept, running, reply>>
      /\ NoteEndpoint(id, FALSE)
      /\ outgoing = Nothing /\ running[id] # NoCommand /\ reply[id] = "ok"
  BY DEF ServerStreams, ServerFrame, inbound
<1>2. UserFirst' /\ AnsweredRuns' /\ EndpointLabels' /\ EndpointKept'
  BY <1>1, EReplied DEF TypeOK
<1>3. SessionsTied'
  BY <1>1 DEF NoteEndpoint, EInv, SessionsTied
<1>4. EndpointJudged'
  <2>1. outgoing' = Nothing \/ outgoing'.kind \in {"event", "opening"}
    BY <1>1 DEF ServerStreams, Send
  <2>2. QED BY <2>1 DEF EndpointJudged
<1>5. QED BY <1>2, <1>3, <1>4 DEF EInv

LEMMA ENext == TypeOK /\ IInv /\ EInv /\ [Next]_vars => EInv'
<1> SUFFICES ASSUME TypeOK, IInv, EInv, [Next]_vars PROVE EInv'
  OBVIOUS
<1> USE DEF environment, maps, inbound, upstream, client, supervised
<1>1. CASE Authenticate
  BY <1>1 DEF Authenticate, EInv, UserFirst, AnsweredRuns, EndpointLabels, EndpointKept, Outrun,
     SessionsTied, EndpointJudged
<1>2. ASSUME NEW n \in 1..MaxBatch, ClientSends(n) PROVE EInv'
  BY <1>2 DEF ClientSends, EInv, UserFirst, AnsweredRuns, EndpointLabels, EndpointKept, Outrun,
     SessionsTied, EndpointJudged
<1>3. ASSUME NEW m \in Message, Intercept(m) PROVE EInv'
  BY <1>3, EIntercept
<1>4. CASE RefusalSent
  BY <1>4, EUnchanged DEF RefusalSent
<1>5. CASE ForwardKept
  BY <1>5, EForward
<1>6. ASSUME NEW id \in Ids, NEW ok \in BOOLEAN, ServerAnswers(id, ok) PROVE EInv'
  BY <1>6, EAnswers
<1>7. ASSUME NEW id \in Ids, NEW empty \in BOOLEAN, ServerStreams(id, empty) PROVE EInv'
  BY <1>7, EStreams
<1>8. CASE FrameSent
  BY <1>8 DEF FrameSent, EInv, UserFirst, AnsweredRuns, EndpointLabels, EndpointKept, Outrun,
     SessionsTied, EndpointJudged
<1>9. ASSUME NEW p \in Policies \ {NoPolicy},
             PolicyChanges(p) \/ StartRecording(p) \/ StopRecording(p)
      PROVE  EInv'
  BY <1>9, EUnchanged DEF PolicyChanges, StartRecording, StopRecording, Elsewhere
<1>10. CASE TokenRevoked \/ Close
  BY <1>10, EUnchanged DEF TokenRevoked, Close, Elsewhere
<1>11. CASE UNCHANGED vars
  BY <1>11, EUnchanged DEF vars
<1>12. QED
  BY <1>1, <1>2, <1>3, <1>4, <1>5, <1>6, <1>7, <1>8, <1>9, <1>10, <1>11 DEF Next

LEMMA EAlways == Spec => [](TypeOK /\ IInv /\ EInv)
<1>1. Init => EInv
  BY EInit
<1>2. TypeOK /\ IInv /\ EInv /\ [Next]_vars => EInv'
  BY ENext
<1>3. QED BY <1>1, <1>2, Invariant, PTL DEF Spec

\* An ingress session is tied to the user exactly when the Supervisor minted it
\* here, and before the client learns it, however many calls are in flight and
\* whatever else the replies answer (_note_endpoint).
THEOREM MintedAreTied == Spec => []SessionsTied
  BY EAlways, PTL DEF EInv

\* A Supervisor call's answer is stripped by the endpoint asked, unless
\* MAX_ENDPOINTS later commands came before it.
THEOREM JudgedByEndpoint == Spec => []EndpointJudged
  BY EAlways, PTL DEF EInv

\* A live call loses its endpoint only to a connection whose roles restrict
\* nothing: anybody else's call is refused while the map is full.
THEOREM LiveCallsKeep == Spec => LiveCallKeepsEndpoint
<1> DEFINE Freed == \A id \in Ids : endpoints[id] # NoCommand /\ endpoints'[id] = NoCommand
                        => reply'[id] # "none" \/ permissions' \in FullAccess
<1>1. ASSUME TypeOK, Next PROVE Freed
  <2>1. ASSUME NEW m \in Message, TakeMessage, NoteRequest(m) PROVE Freed
    <3>0. /\ m.id \in Ids /\ m.cmd \in Commands /\ m.cmd # NoCommand
          /\ endpoints \in Labels
          /\ MaxEndpoints \in Nat
      BY <1>1, BoundAssumption, CommandAssumption DEF Message, TypeOK
    <3>1. CASE m.cmd \in SupervisorCalls /\ Refreshed \notin FullAccess
      <4> DEFINE new == [endpoints EXCEPT ![m.id] = m.cmd]
      <4>1. endpoints' = Insert(endpoints, m.id, m.cmd, MaxEndpoints)
        BY <2>1, <3>1 DEF NoteRequest
      <4>2. ~(Cardinality(Held(endpoints)) >= MaxEndpoints)
        BY <2>1, <3>1 DEF NoteRequest, EndpointsFull
      <4>3. IsFiniteSet(Held(endpoints))
        <5>1. IsFiniteSet(Ids)
          BY BoundAssumption, FS_Interval DEF Ids
        <5>2. QED BY <5>1, FS_Subset DEF Held
      <4>4. Held(new) = Held(endpoints) \cup {m.id}
        BY <3>0 DEF Held, Labels
      <4>5. /\ Cardinality(Held(endpoints)) \in Nat
            /\ Cardinality(Held(new)) \in Nat
            /\ \/ Cardinality(Held(new)) = Cardinality(Held(endpoints))
               \/ Cardinality(Held(new)) = Cardinality(Held(endpoints)) + 1
        BY <4>3, <4>4, FS_AddElement, FS_CardinalityType
      <4>6. ~(Cardinality(Held(new)) > MaxEndpoints)
        BY <3>0, <4>2, <4>5
      <4>7. endpoints' = new
        BY <4>1, <4>6 DEF Insert
      <4>8. QED BY <3>0, <4>7 DEF Labels
    <3>2. CASE m.cmd \notin SupervisorCalls
      BY <2>1, <3>2 DEF NoteRequest
    <3>3. CASE Refreshed \in FullAccess
      BY <2>1, <3>3 DEF TakeMessage
    <3>4. QED BY <3>1, <3>2, <3>3
  <2>2. ASSUME NEW id \in Ids, NEW ok \in BOOLEAN, NEW empty \in BOOLEAN,
               ServerAnswers(id, ok) \/ ServerStreams(id, empty)
        PROVE  Freed
    <3>1. endpoints' = [endpoints EXCEPT ![id] = NoCommand]
      BY <2>2 DEF ServerAnswers, ServerStreams, NoteEndpoint
    <3>2. reply'[id] # "none"
      <4>1. CASE ServerAnswers(id, ok)
        BY <1>1, <4>1 DEF ServerAnswers, TypeOK
      <4>2. CASE ServerStreams(id, empty)
        BY <4>2 DEF ServerStreams
      <4>3. QED BY <2>2, <4>1, <4>2
    <3>3. QED BY <1>1, <3>1, <3>2 DEF TypeOK, Labels
  <2>3. ASSUME NEW m \in Message, Intercept(m) PROVE Freed
    <3>1. CASE InterceptReused(m) \/ InterceptBusy(m)
      BY <3>1 DEF InterceptReused, InterceptBusy
    <3>2. CASE InterceptAllowed(m) \/ InterceptDenied(m)
      BY <2>1, <3>2 DEF InterceptAllowed, InterceptDenied
    <3>3. QED BY <2>3, <3>1, <3>2 DEF Intercept
  <2>4. CASE UNCHANGED endpoints
    BY <2>4
  <2>5. QED
    BY <1>1, <2>2, <2>3, <2>4 DEF Next, Authenticate, ClientSends, RefusalSent, ForwardKept,
       FrameSent, PolicyChanges, StartRecording, StopRecording, TokenRevoked, Close,
       Elsewhere, maps
<1>2. TypeOK /\ [Next]_vars => [Freed]_vars
  BY <1>1
<1>3. QED BY <1>2, TypeCorrect, PTL DEF Spec, LiveCallKeepsEndpoint

-------------------------------------------------------------------------------
(* Refusals *)

refused == <<highest, kept, refusing, outgoing, running, reply, told>>

LEMMA RUnchanged == RInv /\ UNCHANGED refused => RInv'
  BY DEF RInv, Refused, refused

LEMMA RInit == Init => RInv
  BY DEF Init, RInv, Refused

\* A message with a new id, forwarded or refused but not both.
LEMMA RIntercept ==
  ASSUME TypeOK, IInv, RInv, NEW m \in Message, Intercept(m)
  PROVE  RInv'
<1>0. /\ m.id \in Ids /\ m.id \in Nat /\ highest \in Nat
      /\ UNCHANGED <<outgoing, running, reply, told>>
      /\ refusing = Nothing
  BY BoundAssumption DEF Message, TypeOK, Ids, Intercept, InterceptReused, InterceptBusy,
     InterceptAllowed, InterceptDenied, TakeMessage, Busy, upstream, client
<1>1. \A r : Refuse(m, r) => refusing'.id = m.id /\ refusing'.reason = r
  BY DEF Refuse
<1>2. m.id > highest => /\ running[m.id] = NoCommand
                        /\ \A i \in DOMAIN kept : kept[i].id # m.id
  BY <1>0, KeptMessages, BoundAssumption DEF IInv, Ordered, Message, Ids
<1>3. CASE InterceptReused(m)
  BY <1>0, <1>1, <1>3 DEF InterceptReused, RInv, Refused
<1>4. CASE InterceptBusy(m) \/ InterceptDenied(m)
  <2>1. m.id > highest /\ highest' = m.id /\ kept' = kept /\ refusing'.id = m.id
    BY <1>1, <1>4 DEF InterceptBusy, InterceptDenied, NoteRequest
  <2>2. ASSUME NEW id \in Ids, Refused(id)'
        PROVE  id <= highest' /\ running'[id] = NoCommand /\ \A i \in DOMAIN kept' : kept'[i].id # id
    <3>1. id = m.id \/ Refused(id)
      BY <1>0, <2>1, <2>2 DEF Refused
    <3>2. id \in Nat
      BY BoundAssumption DEF Ids
    <3>3. QED BY <1>0, <1>2, <2>1, <3>1, <3>2 DEF RInv
  <2>3. QED BY <1>0, <2>2 DEF RInv
<1>5. CASE InterceptAllowed(m)
  <2>1. m.id > highest /\ highest' = m.id /\ refusing' = refusing /\ kept' = Append(kept, m)
    BY <1>5 DEF InterceptAllowed, NoteRequest
  <2>2. ASSUME NEW id \in Ids, Refused(id)'
        PROVE  id <= highest' /\ running'[id] = NoCommand /\ \A i \in DOMAIN kept' : kept'[i].id # id
    <3>1. Refused(id)
      BY <1>0, <2>1, <2>2 DEF Refused
    <3>2. id \in Nat /\ id <= highest /\ running[id] = NoCommand /\ \A i \in DOMAIN kept : kept[i].id # id
      BY <3>1, BoundAssumption DEF Ids, RInv
    <3>3. QED BY <1>0, <2>1, <3>2, KeptGrows
  <2>3. QED BY <1>0, <2>2 DEF RInv
<1>6. QED BY <1>3, <1>4, <1>5 DEF Intercept

LEMMA RNext == TypeOK /\ IInv /\ RInv /\ [Next]_vars => RInv'
<1> SUFFICES ASSUME TypeOK, IInv, RInv, [Next]_vars PROVE RInv'
  OBVIOUS
<1> USE DEF environment, maps, inbound, upstream, client, refused
<1>1. CASE Authenticate
  BY <1>1, RUnchanged DEF Authenticate
<1>2. ASSUME NEW n \in 1..MaxBatch, ClientSends(n) PROVE RInv'
  BY <1>2, RUnchanged DEF ClientSends
<1>3. ASSUME NEW m \in Message, Intercept(m) PROVE RInv'
  BY <1>3, RIntercept
<1>4. CASE RefusalSent
  BY <1>4 DEF RefusalSent, RInv, Refused
<1>5. CASE ForwardKept
  <2>1. /\ UNCHANGED <<highest, refusing, outgoing, reply, told>> /\ kept' = <<>>
        /\ \A id \in Ids : \/ running'[id] = running[id]
                           \/ \E i \in DOMAIN kept : kept[i].id = id
    BY <1>5, ForwardRuns DEF ForwardKept
  <2>2. QED BY <2>1 DEF RInv, Refused
<1>6. ASSUME NEW id \in Ids, NEW ok \in BOOLEAN, ServerAnswers(id, ok) PROVE RInv'
  <2>1. /\ UNCHANGED <<highest, kept, refusing, running, told>>
        /\ outgoing = Nothing
        /\ reply'[id] # "none" /\ \A j \in Ids : j # id => reply'[j] = reply[j]
    BY <1>6 DEF ServerAnswers, ServerFrame, TypeOK
  <2>2. outgoing' # Nothing => outgoing'.id = id
    BY <1>6, <2>1 DEF ServerAnswers, Send
  <2>3. QED BY <2>1, <2>2 DEF RInv, Refused
<1>7. ASSUME NEW id \in Ids, NEW empty \in BOOLEAN, ServerStreams(id, empty) PROVE RInv'
  <2>1. UNCHANGED <<highest, kept, refusing, running, reply, told>> /\ outgoing = Nothing
    BY <1>7 DEF ServerStreams, ServerFrame
  <2>2. outgoing' = Nothing \/ outgoing'.kind \in {"event", "opening"}
    BY <1>7, <2>1 DEF ServerStreams, Send
  <2>3. QED BY <2>1, <2>2 DEF RInv, Refused
<1>8. CASE FrameSent
  BY <1>8 DEF FrameSent, RInv, Refused
<1>9. ASSUME NEW p \in Policies \ {NoPolicy},
             PolicyChanges(p) \/ StartRecording(p) \/ StopRecording(p)
      PROVE  RInv'
  BY <1>9, RUnchanged DEF PolicyChanges, StartRecording, StopRecording, Elsewhere
<1>10. CASE TokenRevoked \/ Close
  BY <1>10, RUnchanged DEF TokenRevoked, Close, Elsewhere
<1>11. CASE UNCHANGED vars
  BY <1>11, RUnchanged DEF vars
<1>12. QED
  BY <1>1, <1>2, <1>3, <1>4, <1>5, <1>6, <1>7, <1>8, <1>9, <1>10, <1>11 DEF Next

\* What the client was told is refused never runs, whatever else was in the
\* frame it came in and whatever is coalesced with it (_on_client_text, _deny).
THEOREM RefusalsHold == Spec => []RefusedNeverRuns
<1>1. Init => RInv
  BY RInit
<1>2. TypeOK /\ IInv /\ RInv /\ [Next]_vars => RInv'
  BY RNext
<1>3. RInv => RefusedNeverRuns
  BY DEF RInv, Refused, RefusedNeverRuns
<1>4. QED BY <1>1, <1>2, <1>3, Invariant, PTL DEF Spec

-------------------------------------------------------------------------------
(* Openings *)

opening == <<highest, streaming, outgoing, running, streamed, fed, standins>>

LEMMA OUnchanged == OInv /\ UNCHANGED opening => OInv'
  BY DEF OInv, Fed, Overtaken, opening

LEMMA OInit == Init => OInv
  BY DEF Init, OInv, Fed

LEMMA OIntercept ==
  ASSUME TypeOK, OInv, NEW m \in Message, Intercept(m)
  PROVE  OInv'
<1>1. /\ UNCHANGED <<streaming, outgoing, running, streamed, fed, standins>>
      /\ highest' = highest \/ (highest' = m.id /\ m.id > highest)
  BY DEF Intercept, InterceptReused, InterceptBusy, InterceptAllowed, InterceptDenied,
     NoteRequest, TakeMessage, upstream, client
<1>2. \A id \in Ids : Overtaken(id) => Overtaken(id)'
  <2>1. highest \in Nat /\ m.id \in Nat /\ MaxPending \in Nat
    BY BoundAssumption DEF TypeOK, Message, Ids
  <2>2. QED BY <1>1, <2>1, BoundAssumption DEF Overtaken, Ids
<1>3. streamed \subseteq Ids
  BY DEF TypeOK
<1>4. QED BY <1>1, <1>2, <1>3 DEF OInv, Fed

LEMMA OForward ==
  ASSUME TypeOK, IInv, OInv, ForwardKept
  PROVE  OInv'
<1>1. /\ UNCHANGED <<highest, streaming, outgoing, streamed, fed, standins>>
      /\ \A id \in Ids : running[id] # NoCommand => running'[id] = running[id]
  BY ForwardRuns DEF ForwardKept, maps, client
<1>2. \A id \in Ids : streaming[id] # NoCommand => running'[id] = running[id]
  BY <1>1 DEF IInv, Labelled
<1>3. \A id \in streamed : running'[id] = running[id]
  BY <1>1 DEF OInv, TypeOK
<1>4. /\ \A id \in streamed : running'[id] # NoCommand
      /\ \A id \in streamed : running'[id] \in Feeds => Fed(id) \/ Overtaken(id)
  BY <1>3 DEF OInv
<1>5. \A id \in Ids : streaming[id] # NoCommand /\ running'[id] \in Feeds => Fed(id)
  BY <1>2 DEF OInv
<1>6. QED BY <1>1, <1>4, <1>5 DEF OInv, Fed, Overtaken

\* One event: the first that is filtered reaches the client, as it is or as an
\* empty stand-in.
LEMMA OStreams ==
  ASSUME TypeOK, IInv, OInv, NEW id \in Ids, NEW empty \in BOOLEAN, ServerStreams(id, empty)
  PROVE  OInv'
<1>1. /\ UNCHANGED <<highest, running, fed, standins>>
      /\ outgoing = Nothing /\ running[id] # NoCommand
      /\ streamed' = streamed \cup {id}
  BY DEF ServerStreams, ServerFrame, client
<1>2. streaming \in Labels /\ Correlate(id) \in {NoCommand, running[id]}
  BY <1>1, CorrelateRuns DEF TypeOK
<1>3. \A j \in Ids : /\ j # id => streaming'[j] = streaming[j]
                     /\ streaming[j] # NoCommand => streaming'[j] # NoCommand
  BY <1>2 DEF ServerStreams, Labels, Correlate
<1>4. ASSUME NEW k \in {"event", "opening"}, NEW v \in {Raw, running[id]},
             Send(id, k, v, NoCommand)
      PROVE  outgoing' # Nothing /\ outgoing'.id = id /\ outgoing'.kind = k /\ Fed(id)'
  <2>1. v \in Commands \cup {Raw}
    BY <1>1 DEF TypeOK, Labels
  <2>2. outgoing' \in Frame
    BY <1>4, <2>1 DEF Send, Frame
  <2>3. QED BY <1>4, <2>2, NothingAssumption DEF Send, Fed
<1>5. \A j \in Ids : Fed(j) => Fed(j)'
  BY <1>1 DEF Fed
<1>6. /\ running[id] \in Feeds => Fed(id)' \/ Overtaken(id)
      /\ streaming'[id] # NoCommand /\ running[id] \in Feeds => Fed(id)'
      /\ outgoing' # Nothing /\ outgoing'.kind = "opening"
           => outgoing'.id = id /\ streaming'[id] # NoCommand /\ streaming[id] = NoCommand
  <2>1. CASE Send(id, "event", Raw, NoCommand)
    BY <1>4, <2>1
  <2>2. CASE UNCHANGED <<outgoing, streaming>> /\ Correlate(id) = NoCommand
    BY <1>1, <1>5, <2>2 DEF IInv, LabelKept, OInv
  <2>3. CASE /\ Correlate(id) # NoCommand
             /\ streaming' = [streaming EXCEPT ![id] = Correlate(id)]
             /\ CASE ~empty -> Send(id, "event", Correlate(id), NoCommand)
                  [] empty /\ Opening(id) /\ Correlate(id) \in Feeds ->
                       Send(id, "opening", Correlate(id), NoCommand)
                  [] OTHER -> UNCHANGED outgoing
    <3>1. Correlate(id) = running[id] /\ streaming'[id] # NoCommand
      BY <1>1, <1>2, <2>3 DEF Labels
    <3>2. CASE Send(id, "event", running[id], NoCommand)
      BY <1>4, <3>2
    <3>3. CASE Send(id, "opening", running[id], NoCommand) /\ Opening(id)
      BY <1>4, <3>1, <3>3 DEF Opening
    <3>4. CASE UNCHANGED outgoing /\ ~(Opening(id) /\ running[id] \in Feeds)
      BY <1>1, <1>5, <3>4 DEF OInv, Opening
    <3>5. QED BY <2>3, <3>1, <3>2, <3>3, <3>4
  <2>4. QED BY <2>1, <2>2, <2>3 DEF ServerStreams
<1>7. /\ \A j \in streamed' : running'[j] # NoCommand
      /\ \A j \in streamed' : running'[j] \in Feeds => Fed(j)' \/ Overtaken(j)'
  BY <1>1, <1>5, <1>6 DEF OInv, Overtaken, TypeOK
<1>8. \A j \in Ids : streaming'[j] # NoCommand /\ running'[j] \in Feeds => Fed(j)'
  BY <1>1, <1>3, <1>5, <1>6 DEF OInv
<1>9. \A j \in standins' : streaming'[j] # NoCommand
  BY <1>1, <1>3 DEF OInv, TypeOK
<1>10. outgoing' # Nothing /\ outgoing'.kind = "opening"
         => streaming'[outgoing'.id] # NoCommand /\ outgoing'.id \notin standins'
  BY <1>1, <1>6 DEF OInv
<1>11. QED BY <1>7, <1>8, <1>9, <1>10 DEF OInv

LEMMA OSent ==
  ASSUME TypeOK, OInv, FrameSent
  PROVE  OInv'
<1>1. UNCHANGED <<highest, streaming, running, streamed>> /\ outgoing' = Nothing
  BY DEF FrameSent, maps, upstream
<1>2. \A id \in Ids : Fed(id) => Fed(id)'
  BY DEF FrameSent, Fed
<1>3. \A id \in standins' : streaming[id] # NoCommand
  BY DEF FrameSent, OInv
<1>4. QED BY <1>1, <1>2, <1>3 DEF OInv, Overtaken, TypeOK

LEMMA ONext == TypeOK /\ IInv /\ OInv /\ [Next]_vars => OInv'
<1> SUFFICES ASSUME TypeOK, IInv, OInv, [Next]_vars PROVE OInv'
  OBVIOUS
<1> USE DEF environment, maps, inbound, upstream, client, opening
<1>1. CASE Authenticate \/ RefusalSent
  BY <1>1, OUnchanged DEF Authenticate, RefusalSent
<1>2. ASSUME NEW n \in 1..MaxBatch, ClientSends(n) PROVE OInv'
  BY <1>2, OUnchanged DEF ClientSends
<1>3. ASSUME NEW m \in Message, Intercept(m) PROVE OInv'
  BY <1>3, OIntercept
<1>4. CASE ForwardKept
  BY <1>4, OForward
<1>5. ASSUME NEW id \in Ids, NEW ok \in BOOLEAN, ServerAnswers(id, ok) PROVE OInv'
  <2>1. UNCHANGED <<highest, streaming, running, streamed, fed, standins>> /\ outgoing = Nothing
    BY <1>5 DEF ServerAnswers, ServerFrame
  <2>2. outgoing' = Nothing \/ outgoing'.kind \in {"result", "error"}
    BY <1>5, <2>1 DEF ServerAnswers, Send
  <2>3. \A j \in Ids : Fed(j) => Fed(j)'
    BY <2>1 DEF Fed
  <2>4. QED BY <2>1, <2>2, <2>3 DEF OInv, Overtaken, TypeOK
<1>6. ASSUME NEW id \in Ids, NEW empty \in BOOLEAN, ServerStreams(id, empty) PROVE OInv'
  BY <1>6, OStreams
<1>7. CASE FrameSent
  BY <1>7, OSent
<1>8. ASSUME NEW p \in Policies \ {NoPolicy},
             PolicyChanges(p) \/ StartRecording(p) \/ StopRecording(p)
      PROVE  OInv'
  BY <1>8, OUnchanged DEF PolicyChanges, StartRecording, StopRecording, Elsewhere
<1>9. CASE TokenRevoked \/ Close
  BY <1>9, OUnchanged DEF TokenRevoked, Close, Elsewhere
<1>10. CASE UNCHANGED vars
  BY <1>10, OUnchanged DEF vars
<1>11. QED
  BY <1>1, <1>2, <1>3, <1>4, <1>5, <1>6, <1>7, <1>8, <1>9, <1>10 DEF Next

\* A client that waits on the first frame of a subscription gets one, and the
\* empty stand-in for it at most once, whatever its role may see and however
\* its permissions change while it streams (opening_frame, _streaming).
THEOREM OpeningsArrive == Spec => []OpeningArrives
<1>1. Init => OInv
  BY OInit
<1>2. TypeOK /\ IInv /\ OInv /\ [Next]_vars => OInv'
  BY ONext
<1>3. TypeOK /\ OInv => OpeningArrives
  BY DEF OInv, Fed, OpeningArrives
<1>4. QED BY <1>1, <1>2, <1>3, Invariant, PTL DEF Spec
=============================================================================
