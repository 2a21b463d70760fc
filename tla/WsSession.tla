------------------------------- MODULE WsSession -------------------------------
(***************************************************************************)
(* One proxied websocket connection: class _WsSession of proxy.py.         *)
(*                                                                         *)
(* Two pumps share the session's maps.  The inbound pump takes a frame     *)
(* from the browser, decides on each of its messages and forwards the ones *)
(* it kept in one write.  The outbound pump takes each frame of Home       *)
(* Assistant, finds by its id which command it answers, and filters it by  *)
(* that command.  Both run on one event loop: a pump gives way only where  *)
(* it awaits a write, so the inbound pump runs from one refusal to the     *)
(* next (or to the end of its frame) with nothing in between.              *)
(*                                                                         *)
(* Home Assistant's side of the connection (running, reply, streamed) is   *)
(* external and modelled from what the proxy relies on: ids must increase, *)
(* a command is answered once, a subscription then sends events for ever.  *)
(* A frame takes effect upstream as it is written and a reply exists once  *)
(* it is read: the delay in between is the same as a later answer.         *)
(*                                                                         *)
(* Both id maps are OrderedDicts whose keys are inserted in increasing     *)
(* order (every insertion is of the new _highest_id), so the oldest entry  *)
(* is the one with the smallest id and a map from ids represents them.     *)
(***************************************************************************)
EXTENDS Naturals, Sequences, FiniteSets

CONSTANTS
  Commands,          \* the commands a client sends, by what tells them apart
  SupervisorCalls,   \* those that carry a Supervisor `endpoint`
  SessionCall,       \* the Supervisor call whose reply mints an ingress session
  Subscriptions,     \* those Home Assistant answers and then streams events for
  Feeds,             \* subscriptions with an empty opening frame (opening_frame)
  SupportedFeatures, \* the handshake command, forwarded without a decision
  Policies,          \* what the evaluator can return for this connection's user
  NoPolicy,          \* what it returns before the connection has a user
  FullAccess,        \* the policies with nothing to restrict
  Allows,            \* Allows[p]: the commands `decide` allows under p
  MaxId,             \* bound: a client uses the ids 1..MaxId
  MaxBatch,          \* bound: messages in one coalesced frame
  MaxPending,        \* MAX_PENDING_IDS
  MaxEndpoints,      \* MAX_ENDPOINTS
  NoCommand,         \* absent from a map
  Raw,               \* the view of a frame relayed as it came
  Nothing            \* no frame being sent, no refusal being sent

Ids == 1..MaxId

ASSUME CommandAssumption ==
  /\ SupervisorCalls \subseteq Commands
  /\ SessionCall \in SupervisorCalls
  /\ Subscriptions \subseteq Commands \ SupervisorCalls
  /\ Feeds \subseteq Subscriptions
  /\ NoCommand \notin Commands
  /\ Raw \notin Commands \cup {NoCommand}

ASSUME PolicyAssumption ==
  /\ NoPolicy \in Policies
  /\ FullAccess \subseteq Policies \ {NoPolicy}
  /\ Allows \in [Policies -> SUBSET Commands]

ASSUME BoundAssumption ==
  /\ MaxId \in Nat
  /\ MaxBatch \in Nat \ {0}
  /\ MaxPending \in Nat \ {0}
  /\ MaxEndpoints \in Nat \ {0}

Message == [id : Ids, cmd : Commands]
Labels  == [Ids -> Commands \cup {NoCommand}]
Refusal == [id : Ids, reason : {"id_reuse", "busy", "denied"}]
Frame   == [id     : Ids,
            kind   : {"result", "error", "event", "opening"},
            view   : Commands \cup {Raw},
            addons : Commands \cup {NoCommand}]

ASSUME NothingAssumption == Nothing \notin Refusal \cup Frame

VARIABLES
  policy,       \* what the evaluator answers for the user right now
  recorded,     \* the policies one of whose roles is being recorded right now
  conn,         \* the client's websocket: "open", "closing" (revoked) or "closed"
  user,         \* whether _user is set
  permissions,  \* _permissions, as last read from the evaluator
  highest,      \* _highest_id
  pending,      \* _pending
  streaming,    \* _streaming
  endpoints,    \* _endpoints
  left,         \* messages of the inbound frame not yet looked at
  kept,         \* `forward` of _on_client_text
  refusing,     \* the refusal _deny is sending
  outgoing,     \* the frame the outbound pump is sending
  remembered,   \* ids whose minted session was tied to the user
  running,      \* external: the command Home Assistant runs under each id
  reply,        \* external: how it answered each id
  streamed,     \* external: ids it has sent an event for
  told,         \* the client has a result or a refusal for these ids
  fed,          \* the client has an event for these ids
  standins      \* ids whose client got the empty stand-in for an opening frame

environment == <<policy, recorded, conn>>
upstream    == <<running, reply, streamed>>
client      == <<told, fed, standins>>
inbound     == <<left, kept, refusing>>
maps        == <<highest, pending, streaming, endpoints>>
vars == <<environment, user, permissions, maps, inbound, outgoing, remembered,
          upstream, client>>

TypeOK ==
  /\ policy \in Policies
  /\ recorded \subseteq Policies \ {NoPolicy}
  /\ conn \in {"open", "closing", "closed"}
  /\ user \in BOOLEAN
  /\ permissions \in Policies
  /\ highest \in 0..MaxId
  /\ pending \in Labels
  /\ streaming \in Labels
  /\ endpoints \in Labels
  /\ left \in 0..MaxBatch
  /\ kept \in Seq(Message)
  /\ refusing \in Refusal \cup {Nothing}
  /\ outgoing \in Frame \cup {Nothing}
  /\ remembered \subseteq Ids
  /\ running \in Labels
  /\ reply \in [Ids -> {"none", "ok", "failed"}]
  /\ streamed \subseteq Ids
  /\ told \subseteq Ids
  /\ fed \subseteq Ids
  /\ standins \subseteq Ids

-----------------------------------------------------------------------------
(* The maps *)

Held(map) == {i \in Ids : map[i] # NoCommand}

\* Wrong: popitem without last=False takes the entry just added.
NewestPopped(ids) == CHOOSE i \in ids : \A j \in ids : j <= i

Oldest(ids) == CHOOSE i \in ids : \A j \in ids : i <= j

\* An insertion, and the eviction that keeps the map within its limit.  The
\* code's `while` pops once: the map was within the limit before.
Insert(map, id, cmd, limit) ==
  LET new == [map EXCEPT ![id] = cmd]
  IN  IF Cardinality(Held(new)) > limit
      THEN [new EXCEPT ![Oldest(Held(new))] = NoCommand]
      ELSE new

Correlate(id) == IF streaming[id] # NoCommand THEN streaming[id] ELSE pending[id]

-----------------------------------------------------------------------------
(* Permissions *)

Init ==
  /\ policy \in Policies \ {NoPolicy}
  /\ recorded = {}
  /\ conn = "open"
  /\ user = FALSE
  /\ permissions = NoPolicy
  /\ highest = 0
  /\ pending = [i \in Ids |-> NoCommand]
  /\ streaming = [i \in Ids |-> NoCommand]
  /\ endpoints = [i \in Ids |-> NoCommand]
  /\ left = 0
  /\ kept = <<>>
  /\ refusing = Nothing
  /\ outgoing = Nothing
  /\ remembered = {}
  /\ running = [i \in Ids |-> NoCommand]
  /\ reply = [i \in Ids |-> "none"]
  /\ streamed = {}
  /\ told = {}
  /\ fed = {}
  /\ standins = {}

\* Wrong: permissions read once, at authentication.
NeverRefreshed == permissions

\* _refresh_permissions: what both pumps read before they use _permissions.
Refreshed == IF user THEN policy ELSE permissions

Recording(p) == p \in recorded

Unfiltered(p) == p \in FullAccess \/ Recording(p)

\* What _intercept lets through: the handshake command, anything on a full
\* access connection, anything under a recording (decide notes it and allows
\* it), and otherwise what decide allows.
Passes(p, cmd) ==
  \/ cmd = SupportedFeatures
  \/ Unfiltered(p)
  \/ cmd \in Allows[p]

-----------------------------------------------------------------------------
(* The event loop *)

\* The inbound pump is between two messages of a frame with nothing to await.
Busy == refusing = Nothing /\ (left > 0 \/ kept # <<>>)

\* Any other task may run: the connection is up and the inbound pump waits for
\* the client, or for a refusal to be written.
Yielded == conn # "closed" /\ ~Busy

-----------------------------------------------------------------------------
(* Inbound *)

\* The auth frame, with a token Home Assistant accepts.  It is forwarded; the
\* client sends commands only once auth_ok has come back.
Authenticate ==
  /\ Yielded
  /\ ~user
  /\ user' = TRUE
  /\ permissions' = policy
  /\ UNCHANGED <<environment, maps, inbound, outgoing, remembered, upstream, client>>

\* A frame of n commands arrives.  Which commands is chosen as the loop of
\* _on_client_text reaches them.
ClientSends(n) ==
  /\ Yielded
  /\ user
  /\ refusing = Nothing
  /\ highest < MaxId
  /\ left' = n
  /\ UNCHANGED <<environment, user, permissions, maps, kept, refusing, outgoing,
                 remembered, upstream, client>>

\* Wrong: the loop goes on past the last message.
TakePastEnd ==
  /\ Busy
  /\ conn # "closed"
  /\ left' = left - 1
  /\ permissions' = Refreshed
  /\ UNCHANGED <<environment, user, streaming, outgoing, remembered, upstream, client>>

\* The loop takes the next message of the frame.
TakeMessage ==
  /\ Busy
  /\ conn # "closed"
  /\ left > 0
  /\ left' = left - 1
  /\ permissions' = Refreshed
  /\ UNCHANGED <<environment, user, streaming, outgoing, remembered, upstream, client>>

Refuse(m, reason) == refusing' = [id |-> m.id, reason |-> reason]

\* A client out of step repeats an id.
InterceptReused(m) ==
  /\ TakeMessage
  /\ m.id <= highest
  /\ Refuse(m, "id_reuse")
  /\ UNCHANGED <<highest, pending, endpoints, kept>>

\* Wrong: a forwarded command that is never recorded.
NeverRecorded(m) == pending

Remembered(m) == Insert(pending, m.id, m.cmd, MaxPending)

Forgotten(m) == [Remembered(m) EXCEPT ![m.id] = NoCommand]

\* Wrong: one call too many before the map counts as full.
FullTooLate(m) ==
  /\ m.cmd \in SupervisorCalls
  /\ Refreshed \notin FullAccess
  /\ Cardinality(Held(endpoints)) > MaxEndpoints

EndpointsFull(m) ==
  /\ m.cmd \in SupervisorCalls
  /\ Refreshed \notin FullAccess
  /\ Cardinality(Held(endpoints)) >= MaxEndpoints

\* A Supervisor call that finds the endpoint map full is refused as busy.
InterceptBusy(m) ==
  /\ TakeMessage
  /\ m.id > highest
  /\ EndpointsFull(m)
  /\ highest' = m.id
  /\ pending' = Forgotten(m)
  /\ Refuse(m, "busy")
  /\ UNCHANGED <<endpoints, kept>>

\* Wrong: membership of the bounded map decides whether an id is a repeat.
NoteUnseen(m) ==
  /\ pending[m.id] = NoCommand
  /\ ~EndpointsFull(m)
  /\ highest' = m.id
  /\ endpoints' = IF m.cmd \in SupervisorCalls
                  THEN Insert(endpoints, m.id, m.cmd, MaxEndpoints)
                  ELSE endpoints

\* Otherwise its endpoint is noted before anything is decided.
NoteRequest(m) ==
  /\ m.id > highest
  /\ ~EndpointsFull(m)
  /\ highest' = m.id
  /\ endpoints' = IF m.cmd \in SupervisorCalls
                  THEN Insert(endpoints, m.id, m.cmd, MaxEndpoints)
                  ELSE endpoints

InterceptAllowed(m) ==
  /\ TakeMessage
  /\ NoteRequest(m)
  /\ Passes(Refreshed, m.cmd)
  /\ pending' = Remembered(m)
  /\ kept' = Append(kept, m)
  /\ UNCHANGED refusing

\* Wrong: the refusal does not keep the message out of the frame.
DeniedAndForwarded(m) ==
  /\ TakeMessage
  /\ NoteRequest(m)
  /\ ~Passes(Refreshed, m.cmd)
  /\ pending' = Remembered(m)
  /\ Refuse(m, "denied")
  /\ kept' = Append(kept, m)

InterceptDenied(m) ==
  /\ TakeMessage
  /\ NoteRequest(m)
  /\ ~Passes(Refreshed, m.cmd)
  /\ pending' = Forgotten(m)
  /\ Refuse(m, "denied")
  /\ UNCHANGED kept

\* _deny's write returns and the loop goes on.
RefusalSent ==
  /\ conn # "closed"
  /\ refusing # Nothing
  /\ refusing' = Nothing
  /\ told' = IF refusing.reason = "id_reuse" THEN told ELSE told \cup {refusing.id}
  /\ UNCHANGED <<environment, user, permissions, maps, left, kept, outgoing,
                 remembered, upstream, fed, standins>>

\* External: Home Assistant's rule that ids increase strictly.
Accepted(i) ==
  /\ \A j \in Ids : running[j] # NoCommand => j < kept[i].id
  /\ \A j \in 1..(i - 1) : kept[j].id < kept[i].id

\* The kept messages are written upstream in one frame, and run there.
ForwardKept ==
  /\ Busy
  /\ conn # "closed"
  /\ left = 0
  /\ kept' = <<>>
  /\ running' = [id \in Ids |->
       IF \E i \in DOMAIN kept : kept[i].id = id /\ Accepted(i)
       THEN kept[CHOOSE i \in DOMAIN kept : kept[i].id = id /\ Accepted(i)].cmd
       ELSE running[id]]
  /\ UNCHANGED <<environment, user, permissions, maps, left, refusing, outgoing,
                 remembered, reply, streamed, client>>

-----------------------------------------------------------------------------
(* Outbound *)

\* The outbound pump reads a frame of Home Assistant's: it is between frames.
ServerFrame(id) ==
  /\ Yielded
  /\ outgoing = Nothing
  /\ running[id] # NoCommand
  /\ permissions' = Refreshed
  /\ UNCHANGED <<environment, user, highest, pending, inbound, running, client>>

\* Wrong: a session is taken from a reply that failed.
NoteAnyReply(id, ok) ==
  /\ endpoints' = [endpoints EXCEPT ![id] = NoCommand]
  /\ remembered' = IF endpoints[id] = SessionCall /\ user
                   THEN remembered \cup {id} ELSE remembered

\* _note_endpoint: the endpoint of the call this answers is taken out, and a
\* session it minted is tied to the user.
NoteEndpoint(id, ok) ==
  /\ endpoints' = [endpoints EXCEPT ![id] = NoCommand]
  /\ remembered' = IF endpoints[id] = SessionCall /\ ok /\ user
                   THEN remembered \cup {id} ELSE remembered

Send(id, kind, view, addons) ==
  outgoing' = [id |-> id, kind |-> kind, view |-> view, addons |-> addons]

\* The one answer to a command.
ServerAnswers(id, ok) ==
  /\ ServerFrame(id)
  /\ reply[id] = "none"
  /\ reply' = [reply EXCEPT ![id] = IF ok THEN "ok" ELSE "failed"]
  /\ NoteEndpoint(id, ok)
  /\ LET kind == IF ok THEN "result" ELSE "error" IN
     \/ /\ Unfiltered(Refreshed)
        /\ Send(id, kind, Raw, NoCommand)
     \/ /\ ~Unfiltered(Refreshed)
        /\ Correlate(id) # NoCommand
        /\ Send(id, kind, Correlate(id), endpoints[id])
     \/ /\ ~Unfiltered(Refreshed)
        /\ Correlate(id) = NoCommand
        /\ UNCHANGED outgoing
  /\ UNCHANGED <<streaming, streamed>>

\* Wrong: whether this is the first event is read after recording it.
OpeningReadLate(id) == FALSE

Opening(id) == streaming[id] = NoCommand

\* One event of a subscription.  `empty` says that the command's filter leaves
\* nothing of it.
ServerStreams(id, empty) ==
  /\ ServerFrame(id)
  /\ running[id] \in Subscriptions
  /\ reply[id] = "ok"
  /\ streamed' = streamed \cup {id}
  /\ NoteEndpoint(id, FALSE)
  /\ UNCHANGED reply
  /\ \/ /\ Unfiltered(Refreshed)
        /\ Send(id, "event", Raw, NoCommand)
        /\ UNCHANGED streaming
     \/ /\ ~Unfiltered(Refreshed)
        /\ Correlate(id) = NoCommand
        /\ UNCHANGED <<outgoing, streaming>>
     \/ /\ ~Unfiltered(Refreshed)
        /\ Correlate(id) # NoCommand
        /\ streaming' = [streaming EXCEPT ![id] = Correlate(id)]
        /\ CASE ~empty -> Send(id, "event", Correlate(id), NoCommand)
             [] empty /\ Opening(id) /\ Correlate(id) \in Feeds ->
                  Send(id, "opening", Correlate(id), NoCommand)
             [] OTHER -> UNCHANGED outgoing

\* The write to the client returns.
FrameSent ==
  /\ Yielded
  /\ outgoing # Nothing
  /\ outgoing' = Nothing
  /\ told' = IF outgoing.kind \in {"result", "error"}
             THEN told \cup {outgoing.id} ELSE told
  /\ fed' = IF outgoing.kind \in {"event", "opening"}
            THEN fed \cup {outgoing.id} ELSE fed
  /\ standins' = IF outgoing.kind = "opening"
                 THEN standins \cup {outgoing.id} ELSE standins
  /\ UNCHANGED <<environment, user, permissions, maps, inbound, remembered, upstream>>

-----------------------------------------------------------------------------
(* Everything else on the event loop *)

Elsewhere ==
  UNCHANGED <<user, permissions, maps, inbound, outgoing, remembered, upstream, client>>

\* A schedule opens or closes, somebody comes home, a role or a binding is edited.
PolicyChanges(p) ==
  /\ Yielded
  /\ p # policy
  /\ policy' = p
  /\ Elsewhere
  /\ UNCHANGED <<recorded, conn>>

StartRecording(p) ==
  /\ Yielded
  /\ recorded' = recorded \cup {p}
  /\ recorded' # recorded
  /\ Elsewhere
  /\ UNCHANGED <<policy, conn>>

StopRecording(p) ==
  /\ Yielded
  /\ p \in recorded
  /\ recorded' = recorded \ {p}
  /\ Elsewhere
  /\ UNCHANGED <<policy, conn>>

\* _on_token_revoked schedules the close of the client's side.
TokenRevoked ==
  /\ Yielded
  /\ user
  /\ conn = "open"
  /\ conn' = "closing"
  /\ Elsewhere
  /\ UNCHANGED <<policy, recorded>>

\* Either side is gone: one pump ends, the other is cancelled.
Close ==
  /\ Yielded
  /\ conn' = "closed"
  /\ Elsewhere
  /\ UNCHANGED <<policy, recorded>>

-----------------------------------------------------------------------------
Intercept(m) ==
  \/ InterceptReused(m)
  \/ InterceptBusy(m)
  \/ InterceptAllowed(m)
  \/ InterceptDenied(m)

Next ==
  \/ Authenticate
  \/ \E n \in 1..MaxBatch : ClientSends(n)
  \/ \E m \in Message : Intercept(m)
  \/ RefusalSent
  \/ ForwardKept
  \/ \E id \in Ids, ok \in BOOLEAN : ServerAnswers(id, ok)
  \/ \E id \in Ids, empty \in BOOLEAN : ServerStreams(id, empty)
  \/ FrameSent
  \/ \E p \in Policies \ {NoPolicy} : PolicyChanges(p)
  \/ \E p \in Policies \ {NoPolicy} : StartRecording(p)
  \/ \E p \in Policies \ {NoPolicy} : StopRecording(p)
  \/ TokenRevoked
  \/ Close

Spec == Init /\ [][Next]_vars

\* Both pumps keep going while the connection is up, a write to the client
\* returns, and Home Assistant answers what it was sent.  Two of these are only
\* now and then enabled and still happen: the event loop runs what is ready in
\* turn, so the outbound pump is not starved by the inbound one, and the frames
\* of Home Assistant are read in order, so no answer is overtaken for ever by
\* events.  Nothing makes the client, an edit, a recording or a disconnection
\* happen.
Fairness ==
  /\ WF_vars(\E m \in Message : Intercept(m))
  /\ WF_vars(RefusalSent)
  /\ WF_vars(ForwardKept)
  /\ SF_vars(FrameSent)
  /\ \A id \in Ids : SF_vars(\E ok \in BOOLEAN : ServerAnswers(id, ok))

FairSpec == Spec /\ Fairness

-----------------------------------------------------------------------------
(* Properties *)

\* MAX_PENDING_IDS later commands have been sent: the correlation of this one
\* may have been evicted by _remember.
Overtaken(id) == highest >= id + MaxPending

\* An id is never relabelled: the command it is filtered by is the one Home
\* Assistant runs under it, whatever ids a client out of step repeats and in
\* whatever order the pumps interleave (_intercept's id check, _correlate).
LabelFaithful ==
  /\ \A id \in Ids :
       running[id] # NoCommand => Correlate(id) \in {NoCommand, running[id]}
  /\ outgoing # Nothing => outgoing.view \in {Raw, running[outgoing.id]}

\* A forwarded command's reply reaches the client: what Home Assistant answered
\* has been told, or is being told, unless MAX_PENDING_IDS commands overtook it
\* (the "would have its reply swallowed and hang the client" of _intercept).
ReplyNotLost ==
  \A id \in Ids : reply[id] # "none" =>
    \/ id \in told
    \/ outgoing # Nothing /\ outgoing.id = id
    \/ Overtaken(id)

\* The reply to a Supervisor call is judged by the endpoint that asked for it
\* (strip_denied_addons), unless MAX_ENDPOINTS later commands were sent before it
\* came, which only a full access connection may do to a live call.
EndpointJudged ==
  (/\ outgoing # Nothing
   /\ outgoing.kind = "result"
   /\ outgoing.view # Raw
   /\ running[outgoing.id] \in SupervisorCalls)
  => \/ outgoing.addons = running[outgoing.id]
     \/ highest >= outgoing.id + MaxEndpoints

\* A Supervisor call that would push out a live one is refused instead: only a
\* connection whose roles restrict nothing forgets the endpoint of a call that
\* has no reply yet (_intercept).
LiveCallKeepsEndpoint ==
  [][\A id \in Ids : endpoints[id] # NoCommand /\ endpoints'[id] = NoCommand
                     => reply'[id] # "none" \/ permissions' \in FullAccess]_vars

\* An ingress session is tied to this user exactly when the Supervisor minted it
\* on this connection: never for the reply to another call, and always before
\* the client learns the session (MAX_ENDPOINTS later commands apart).
SessionsTied ==
  LET Minted == {id \in Ids : running[id] = SessionCall /\ reply[id] = "ok"} IN
  /\ remembered \subseteq Minted
  /\ \A id \in Minted : id \in remembered \/ highest >= id + MaxEndpoints

\* A frame goes to the client untouched only while what the evaluator answers at
\* that moment, not what it answered at authentication, is full access or is
\* under a recording (_refresh_permissions, _unfiltered).
RawOnlyWhenEntitled ==
  [][(outgoing = Nothing /\ outgoing' # Nothing /\ outgoing'.view = Raw)
     => Unfiltered(policy)]_vars

\* A command runs upstream only if it was let through: what is forwarded was
\* not refused to the client, in this frame or an earlier one.
RefusedNeverRuns ==
  \A id \in Ids :
    (refusing # Nothing /\ refusing.id = id /\ refusing.reason # "id_reuse")
    \/ (id \in told /\ reply[id] = "none")
    => /\ running[id] = NoCommand
       /\ \A i \in DOMAIN kept : kept[i].id # id

\* A client that waits on the first frame of a subscription gets it, however
\* little of it the role may see, and gets the empty stand-in for it once: one
\* for every event would be a clock for entities it may not see (opening_frame).
OpeningArrives ==
  /\ \A id \in streamed : running[id] \in Feeds =>
       \/ id \in fed
       \/ outgoing # Nothing /\ outgoing.id = id
       \/ Overtaken(id)
  /\ outgoing # Nothing /\ outgoing.kind = "opening" => outgoing.id \notin standins

\* The proxy has taken the command up.
Taken(id) ==
  \/ running[id] # NoCommand
  \/ \E i \in DOMAIN kept : kept[i].id = id
  \/ refusing # Nothing /\ refusing.id = id /\ refusing.reason # "id_reuse"

\* Every command the proxy takes up is eventually answered, with Home
\* Assistant's result or with a refusal, while the connection lasts.
CommandsAnswered ==
  \A id \in Ids : Taken(id) ~> (id \in told \/ conn # "open" \/ Overtaken(id))
=============================================================================
