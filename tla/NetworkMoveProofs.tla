--------------------------- MODULE NetworkMoveProofs ---------------------------
(***************************************************************************)
(* Theorems about NetworkMove, for any ports and any number of edits: its  *)
(* types, the way back in while the move is not permanent, and what is     *)
(* left of a move once it is undone.                                       *)
(***************************************************************************)
EXTENDS NetworkMove, TLAPS

\* What each thread under way has and stands on.  An event thread that has lost
\* nothing works for an entry that is loaded.
ThreadInv ==
  /\ entry # "absent" => options # None
  /\ step["entry"] \in Starting \cup {"begin", "retry"} => entry = "enabled"
  /\ step["entry"] = "restore" => entry # "enabled" /\ undo # None
  /\ \A t \in Threads : step[t] \in Starting \cup {"waiting"} => given[t] # None
  /\ step["event"] # "idle" /\ lost = "nothing" => Loaded
  /\ lost # "nothing" => step["event"] \in Starting
  /\ ~running => step["event"] \notin Starting

\* Whatever is staged is a move to loopback: this integration stages nothing else.
StagedInv ==
  /\ trial => pending # None
  /\ pending # None => pending.config.loopback
  /\ undone # None => entry # "enabled"
  /\ UnconfirmedIsReverted
  /\ RestoreIsFinal

Inductive == TypeOK /\ ThreadInv /\ StagedInv

\* The declared types and the invariant hold of a fresh installation.
LEMMA Initially == Init => Inductive
  <1> SUFFICES ASSUME Init PROVE Inductive
    OBVIOUS
  <1>1. Default \in Address /\ ~Default.loopback
    BY DEF Default, Address, Ports
  <1>2. TypeOK
    <2>1. 0 \in 0..MaxEdits
      BY NetworkAssumption
    <2>2. address \in Address /\ stable \in Address \cup {None}
      BY <1>1 DEF Init
    <2>3. step["entry"] = "idle" /\ step["event"] = "idle"
      BY DEF Init, Threads
    <2> QED
      BY <2>1, <2>2, <2>3 DEF Init, TypeOK, EntrySteps, EventSteps, Starting, Threads
  <1>3. ThreadInv
    BY DEF Init, ThreadInv, Threads, Starting
  <1>4. StagedInv
    BY <1>1 DEF Init, StagedInv, UnconfirmedIsReverted, RestoreIsFinal
  <1> QED
    BY <1>2, <1>3, <1>4 DEF Inductive

-----------------------------------------------------------------------------
(* The steps both threads take. *)

\* A thread goes on or ends without touching anything else, and the rest of the
\* invariant with it.
LEMMA ThreadTurns ==
  ASSUME Inductive, NEW t \in Threads, step[t] \in Starting,
         NEW s \in Starting \cup {"idle", "retry"}, t = "event" => s # "retry",
         \/ Goes(t, s) /\ s \in Starting
         \/ Ends(t, s) /\ s \notin Starting,
         UNCHANGED <<entry, options, running>>
  PROVE  /\ step' \in [Threads -> EntrySteps \cup EventSteps]
         /\ step'["entry"] \in EntrySteps /\ step'["event"] \in EventSteps
         /\ given' \in [Threads -> Options \cup {None}]
         /\ undo' = undo
         /\ lost' \in {"nothing", "data", "entry"}
         /\ ThreadInv'
  <1> USE DEF Threads, EntrySteps, EventSteps, Starting
  <1>1. step' = [step EXCEPT ![t] = s] /\ undo' = undo
    BY DEF Goes, Ends
  <1>2. /\ step' \in [Threads -> EntrySteps \cup EventSteps]
        /\ step'["entry"] \in EntrySteps /\ step'["event"] \in EventSteps
    BY <1>1 DEF Inductive, TypeOK
  <1>3. given' \in [Threads -> Options \cup {None}] /\ lost' \in {"nothing", "data", "entry"}
    BY DEF Inductive, TypeOK, Goes, Ends
  <1>4. ThreadInv'
    <2>1. CASE t = "entry"
      BY <1>1, <2>1 DEF Inductive, TypeOK, ThreadInv, Goes, Ends, Loaded
    <2>2. CASE t = "event"
      BY <1>1, <2>2 DEF Inductive, TypeOK, ThreadInv, Goes, Ends, Loaded
    <2> QED
      BY <2>1, <2>2
  <1> QED
    BY <1>1, <1>2, <1>3, <1>4

\* A thread under way was given options; one of the entry's works for an entry
\* that is enabled, and so nothing is undone.
LEMMA ThreadHas ==
  ASSUME Inductive, NEW t \in Threads, step[t] \in Starting
  PROVE  /\ given[t] \in Options
         /\ given[t].proxy \in ProxyPorts /\ given[t].upstream \in UpstreamPorts
         /\ t = "entry" => undone = None
         /\ undone # None => lost # "nothing" /\ pending = None
  <1> USE DEF Threads, Starting
  <1>1. given[t] \in Options
    BY DEF Inductive, TypeOK, ThreadInv
  <1>2. given[t].proxy \in ProxyPorts /\ given[t].upstream \in UpstreamPorts
    BY <1>1 DEF Options
  <1>3. t = "entry" => undone = None
    BY DEF Inductive, ThreadInv, StagedInv
  <1>4. undone # None => lost # "nothing" /\ pending = None
    BY <1>3 DEF Inductive, ThreadInv, StagedInv, RestoreIsFinal, Loaded
  <1> QED
    BY <1>1, <1>2, <1>3, <1>4

\* What a reload does to the threads: the entry is set up again, and an event
\* thread under way has lost its data.
LEMMA Reloaded ==
  ASSUME Inductive, Loaded, NEW event, Reloads(event), entry' = entry, running' = running,
         options' \in Options,
         \/ event = EventLeft
         \/ step["event"] \in Starting /\ event \in Starting
  PROVE  /\ step' \in [Threads -> EntrySteps \cup EventSteps]
         /\ step'["entry"] \in EntrySteps /\ step'["event"] \in EventSteps
         /\ given' \in [Threads -> Options \cup {None}]
         /\ undo' = undo /\ proxy' = None
         /\ lost' \in {"nothing", "data", "entry"}
         /\ ThreadInv'
  <1> USE DEF Threads, EntrySteps, EventSteps, Starting
  <1>1. step' = [entry |-> "begin", event |-> event] /\ undo' = undo /\ proxy' = None
    BY DEF Reloads, Unloads
  <1>2. event \in EventSteps /\ event # "waiting"
    BY DEF EventLeft, Inductive, TypeOK
  <1>3. /\ step' \in [Threads -> EntrySteps \cup EventSteps]
        /\ step'["entry"] \in EntrySteps /\ step'["event"] \in EventSteps
    BY <1>1, <1>2
  <1>4. given' \in [Threads -> Options \cup {None}] /\ lost' \in {"nothing", "data", "entry"}
    BY DEF Reloads, Unloads, Inductive, TypeOK
  <1>5. event \in Starting <=> step["event"] \in Starting
    BY DEF EventLeft, Inductive, TypeOK
  <1>6. event \in Starting => given'["event"] = given["event"]
    BY <1>5 DEF Reloads, Unloads, EventLeft
  <1>7. ThreadInv'
    BY <1>1, <1>2, <1>5, <1>6, NetworkAssumption
    DEF Reloads, Unloads, Inductive, TypeOK, ThreadInv, Loaded
  <1> QED
    BY <1>1, <1>3, <1>4, <1>7

\* _start_proxy records, stages, binds and confirms, in whichever thread.
LEMMA StartKeeps == \A t \in Threads : Inductive /\ StartStep(t) => Inductive'
  <1> SUFFICES ASSUME NEW t \in Threads, Inductive, StartStep(t) PROVE Inductive'
    OBVIOUS
  <1>0. step[t] \in Starting
    BY DEF StartStep, RecordSnapshot, StageMove, MoveFails, NoMove, Bind, BindFails, Confirm,
       Unconfirmed, Starting
  <1>1. /\ given[t] \in Options
        /\ given[t].proxy \in ProxyPorts /\ given[t].upstream \in UpstreamPorts
        /\ t = "entry" => undone = None
        /\ undone # None => lost # "nothing" /\ pending = None
    BY <1>0, ThreadHas
  <1>2. TypeOK /\ ThreadInv /\ StagedInv
    BY DEF Inductive
  <1>3. CASE RecordSnapshot(t)
    <2>1. Current \in Address \cup {None}
      BY <1>2 DEF Current, TypeOK, Staged
    <2>2. CASE t = "event" /\ Loaded /\ Current # previous
      <3>1. Reloads("stage") /\ step["event"] \in Starting /\ options' \in Options
        BY <1>0, <1>2, <1>3, <2>2 DEF RecordSnapshot, TypeOK, ThreadInv, Loaded
      <3>2. /\ step' \in [Threads -> EntrySteps \cup EventSteps]
            /\ step'["entry"] \in EntrySteps /\ step'["event"] \in EventSteps
            /\ given' \in [Threads -> Options \cup {None}]
            /\ undo' = undo /\ proxy' = None
            /\ lost' \in {"nothing", "data", "entry"}
            /\ ThreadInv'
        BY <1>3, <2>2, <3>1, Reloaded DEF RecordSnapshot, Starting
      <3>3. TypeOK'
        BY <1>2, <1>3, <2>1, <3>2 DEF RecordSnapshot, TypeOK, server, history
      <3>4. undone = None
        BY <1>2, <2>2 DEF StagedInv, Loaded
      <3>5. StagedInv'
        BY <1>2, <1>3, <3>4 DEF RecordSnapshot, StagedInv, UnconfirmedIsReverted, RestoreIsFinal,
           server, history
      <3> QED
        BY <3>2, <3>3, <3>5 DEF Inductive
    <2>3. CASE Goes(t, "stage") /\ proxy' = proxy
      <3>1. /\ step' \in [Threads -> EntrySteps \cup EventSteps]
            /\ step'["entry"] \in EntrySteps /\ step'["event"] \in EventSteps
            /\ given' \in [Threads -> Options \cup {None}]
            /\ undo' = undo
            /\ lost' \in {"nothing", "data", "entry"}
            /\ ThreadInv'
        BY <1>0, <1>3, <2>3, ThreadTurns DEF RecordSnapshot, Starting
      <3>2. TypeOK'
        BY <1>2, <1>3, <2>1, <2>3, <3>1 DEF RecordSnapshot, TypeOK, server, history
      <3>3. StagedInv'
        BY <1>1, <1>2, <1>3
        DEF RecordSnapshot, StagedInv, UnconfirmedIsReverted, RestoreIsFinal, server, history
      <3> QED
        BY <3>1, <3>2, <3>3 DEF Inductive
    <2> QED
      BY <1>3, <2>2, <2>3 DEF RecordSnapshot
  <1>4. CASE StageMove(t)
    <2> DEFINE target == [loopback |-> TRUE, port |-> given[t].upstream]
    <2>1. /\ step' \in [Threads -> EntrySteps \cup EventSteps]
          /\ step'["entry"] \in EntrySteps /\ step'["event"] \in EventSteps
          /\ given' \in [Threads -> Options \cup {None}]
          /\ undo' = undo
          /\ lost' \in {"nothing", "data", "entry"}
          /\ ThreadInv'
      BY <1>0, <1>4, ThreadTurns DEF StageMove, Starting, config
    <2>2. target \in Address /\ target.loopback
      BY <1>1 DEF Address, Ports
    <2>3. pending' = [config |-> target, failed |-> FALSE]
      BY <1>4 DEF StageMove
    <2> HIDE DEF target
    <2>4. pending' \in Staged /\ pending'.config = target
      BY <2>2, <2>3 DEF Staged
    <2>5. pending' # None
      BY <2>4, NetworkAssumption
    <2>6. TypeOK'
      BY <1>2, <1>4, <2>1, <2>4 DEF StageMove, TypeOK, config, listeners
    <2>7. undone # None => restaged' /\ step'["event"] = "idle"
      BY <1>1, <1>2, <1>4 DEF StageMove, Ends, TypeOK, Threads
    <2>8. StagedInv'
      BY <1>2, <1>4, <2>2, <2>4, <2>5, <2>7
      DEF StageMove, StagedInv, UnconfirmedIsReverted, RestoreIsFinal, config
    <2> QED
      BY <2>1, <2>6, <2>8 DEF Inductive
  <1>5. CASE Bind(t)
    <2> DEFINE s == IF given[t].manage THEN "confirm" ELSE "idle"
           new == [port |-> given[t].proxy, upstream |-> given[t].upstream]
    <2>1. /\ step' \in [Threads -> EntrySteps \cup EventSteps]
          /\ step'["entry"] \in EntrySteps /\ step'["event"] \in EventSteps
          /\ given' \in [Threads -> Options \cup {None}]
          /\ undo' = undo
          /\ lost' \in {"nothing", "data", "entry"}
          /\ ThreadInv'
      BY <1>0, <1>5, ThreadTurns DEF Bind, Starting, config
    <2>2. new \in Listener
      BY <1>1 DEF Listener
    <2>3. proxy' \in Listener \cup {None} /\ orphan' \in Listener \cup {None}
      BY <1>2, <1>5, <2>2 DEF Bind, TypeOK
    <2>4. TypeOK'
      BY <1>2, <1>5, <2>1, <2>3 DEF Bind, TypeOK, server, config, history
    <2>5. StagedInv'
      BY <1>1, <1>2, <1>5
      DEF Bind, StagedInv, UnconfirmedIsReverted, RestoreIsFinal, server, config, history
    <2> QED
      BY <2>1, <2>4, <2>5 DEF Inductive
  <1>6. CASE MoveFails(t) \/ NoMove(t) \/ BindFails(t) \/ Unconfirmed(t)
    <2>1. /\ step' \in [Threads -> EntrySteps \cup EventSteps]
          /\ step'["entry"] \in EntrySteps /\ step'["event"] \in EventSteps
          /\ given' \in [Threads -> Options \cup {None}]
          /\ undo' = undo
          /\ lost' \in {"nothing", "data", "entry"}
          /\ ThreadInv'
      <3>1. CASE MoveFails(t) \/ NoMove(t)
        BY <1>0, <3>1, ThreadTurns DEF MoveFails, NoMove, Starting, config
      <3>2. CASE BindFails(t)
        BY <1>0, <3>2, ThreadTurns DEF BindFails, Starting, config
      <3>3. CASE Unconfirmed(t)
        BY <1>0, <3>3, ThreadTurns DEF Unconfirmed, Starting, config
      <3> QED
        BY <1>6, <3>1, <3>2, <3>3
    <2>2. UNCHANGED <<server, running, config, listeners, history, edits>>
      BY <1>6 DEF MoveFails, NoMove, BindFails, Unconfirmed
    <2>3. TypeOK'
      BY <1>2, <2>1, <2>2 DEF TypeOK, server, config, listeners, history
    <2>4. StagedInv'
      BY <1>1, <1>2, <2>2
      DEF StagedInv, UnconfirmedIsReverted, RestoreIsFinal, server, config, history
    <2> QED
      BY <2>1, <2>3, <2>4 DEF Inductive
  <1>7. CASE Confirm(t)
    <2>1. /\ step' \in [Threads -> EntrySteps \cup EventSteps]
          /\ step'["entry"] \in EntrySteps /\ step'["event"] \in EventSteps
          /\ given' \in [Threads -> Options \cup {None}]
          /\ undo' = undo
          /\ lost' \in {"nothing", "data", "entry"}
          /\ ThreadInv'
      BY <1>0, <1>7, ThreadTurns DEF Confirm, Starting, config
    <2>2. CASE pending # None /\ Promote
      <3>1. pending.config \in Address /\ pending.config.loopback /\ stable' # None
        BY <1>2, <2>2, NetworkAssumption DEF TypeOK, Staged, StagedInv, Promote
      <3>2. TypeOK'
        BY <1>2, <1>7, <2>1, <2>2, <3>1 DEF Confirm, Promote, TypeOK, config, listeners, history
      <3>3. undone = None
        BY <1>1, <2>2
      <3>4. StagedInv'
        BY <1>2, <1>7, <2>2, <3>1, <3>3
        DEF Confirm, Promote, StagedInv, UnconfirmedIsReverted, RestoreIsFinal, config, history
      <3> QED
        BY <2>1, <3>2, <3>4 DEF Inductive
    <2>3. CASE pending = None /\ UNCHANGED server
      <3>1. TypeOK'
        BY <1>2, <1>7, <2>1, <2>3 DEF Confirm, TypeOK, server, config, listeners, history
      <3>2. StagedInv'
        BY <1>1, <1>2, <1>7, <2>3
        DEF Confirm, StagedInv, UnconfirmedIsReverted, RestoreIsFinal, server, config, history
      <3> QED
        BY <2>1, <3>1, <3>2 DEF Inductive
    <2> QED
      BY <1>7, <2>2, <2>3 DEF Confirm
  <1> QED
    BY <1>3, <1>4, <1>5, <1>6, <1>7 DEF StartStep

-----------------------------------------------------------------------------
(* The entry's own steps, and Home Assistant's. *)

\* A restore leaves Home Assistant on its way to the address it puts back.
LEMMA EntryKeeps == Inductive /\ EntryStep => Inductive'
  <1> SUFFICES ASSUME Inductive, EntryStep PROVE Inductive'
    OBVIOUS
  <1> USE DEF Threads, EntrySteps, EventSteps, Starting
  <1>1. TypeOK /\ ThreadInv /\ StagedInv
    BY DEF Inductive
  <1>2. CASE BeginSetup
    <2>1. entry = "enabled" /\ options \in Options /\ undone = None
      BY <1>1, <1>2 DEF BeginSetup, TypeOK, ThreadInv, StagedInv
    <2>2. options.proxy \in Ports
      BY <2>1 DEF Options, Ports
    <2>3. previous' \in Address \cup {None}
      BY <1>1, <1>2, <2>2 DEF BeginSetup, TypeOK, Address
    <2>4. TypeOK'
      BY <1>1, <1>2, <2>1, <2>3 DEF BeginSetup, TypeOK, server, listeners, history
    <2>5. ThreadInv'
      BY <1>1, <1>2, <2>1, NetworkAssumption DEF BeginSetup, TypeOK, ThreadInv, Loaded
    <2>6. StagedInv'
      BY <1>1, <1>2, <2>1
      DEF BeginSetup, StagedInv, UnconfirmedIsReverted, RestoreIsFinal, server, history
    <2> QED
      BY <2>4, <2>5, <2>6 DEF Inductive
  <1>3. CASE Retry
    <2>1. entry = "enabled" /\ undone = None
      BY <1>1, <1>3 DEF Retry, ThreadInv, StagedInv
    <2>2. TypeOK'
      BY <1>1, <1>3 DEF Retry, Goes, TypeOK, server, config, listeners, history
    <2>3. ThreadInv'
      BY <1>1, <1>3, <2>1 DEF Retry, Goes, TypeOK, ThreadInv, Loaded, config
    <2>4. StagedInv'
      BY <1>1, <1>3, <2>1
      DEF Retry, StagedInv, UnconfirmedIsReverted, RestoreIsFinal, server, config, history
    <2> QED
      BY <2>2, <2>3, <2>4 DEF Inductive
  <1>4. CASE Restore \/ RestoreFails
    <2>1. /\ entry # "enabled" /\ entry' = entry
          /\ undo \in Address /\ undo # None
      BY <1>1, <1>4 DEF Restore, RestoreFails, ThreadInv, TypeOK, config
    <2>2. step["event"] # "idle" => lost # "nothing"
      BY <1>1, <2>1 DEF ThreadInv, Loaded
    <2>3. TypeOK'
      BY <1>1, <1>4, <2>1 DEF Restore, RestoreFails, TypeOK, server, config, listeners, history
    <2>4. ThreadInv'
      BY <1>1, <1>4, <2>1, <2>2
      DEF Restore, RestoreFails, TypeOK, ThreadInv, Loaded, config
    <2>5. StagedInv'
      <3>1. CASE Restore
        BY <1>1, <2>1, <3>1 DEF Restore, StagedInv, UnconfirmedIsReverted, RestoreIsFinal
      <3>2. CASE RestoreFails
        BY <1>1, <2>1, <3>2
        DEF RestoreFails, TypeOK, StagedInv, UnconfirmedIsReverted, RestoreIsFinal, server, history
      <3> QED
        BY <1>4, <3>1, <3>2
    <2> QED
      BY <2>3, <2>4, <2>5 DEF Inductive
  <1> QED
    BY <1>2, <1>3, <1>4 DEF EntryStep

\* The started event starts the thread that waited for it.
LEMMA StartedKeeps == Inductive /\ Started => Inductive'
  <1> SUFFICES ASSUME Inductive, Started PROVE Inductive'
    OBVIOUS
  <1> USE DEF Threads, EntrySteps, EventSteps, Starting, Started, Inductive, TypeOK,
             server, config, listeners, history
  <1>1. TypeOK'
    OBVIOUS
  <1>2. ThreadInv'
    BY DEF ThreadInv, Loaded
  <1>3. StagedInv'
    BY DEF StagedInv, UnconfirmedIsReverted, RestoreIsFinal
  <1> QED
    BY <1>1, <1>2, <1>3

\* Where Home Assistant listens after a restart, and on what terms.
LEMMA BootKeeps == Inductive /\ Boot => Inductive'
  <1> SUFFICES ASSUME Inductive, Boot PROVE Inductive'
    OBVIOUS
  <1>1. Default \in Address /\ ~Default.loopback
    BY DEF Default, Address, Ports
  <1>2. TypeOK /\ ThreadInv /\ StagedInv
    BY DEF Inductive
  <1>3. TypeOK'
    <2>1. address' \in Address
      BY <1>1, <1>2 DEF Boot, TypeOK, Staged
    <2>2. /\ step' \in [Threads -> EntrySteps \cup EventSteps]
          /\ step'["entry"] \in EntrySteps /\ step'["event"] \in EventSteps
          /\ given' \in [Threads -> Options \cup {None}]
      BY DEF Boot, Threads, EntrySteps, EventSteps
    <2> QED
      BY <1>2, <2>1, <2>2 DEF Boot, TypeOK, config, history
  <1>4. ThreadInv'
    BY <1>2 DEF Boot, ThreadInv, Threads, Starting, Loaded, config
  <1>5. StagedInv'
    <2>1. CASE pending # None /\ ~pending.failed
      <3>1. address' = pending.config /\ trial'
        BY <2>1 DEF Boot
      <3> QED
        BY <1>2, <2>1, <3>1
        DEF StagedInv, Boot, UnconfirmedIsReverted, RestoreIsFinal, config, history
    <2>2. CASE ~(pending # None /\ ~pending.failed)
      <3>1. address' = (IF stable # None THEN stable ELSE Default) /\ ~trial'
        BY <2>2 DEF Boot
      <3>2. UnconfirmedIsReverted'
        BY <1>1, <3>1 DEF UnconfirmedIsReverted, Boot
      <3>3. RestoreIsFinal'
        BY <1>2, <3>1 DEF StagedInv, RestoreIsFinal, Boot, config, history
      <3> QED
        BY <1>2, <3>1, <3>2, <3>3 DEF StagedInv, Boot, config, history
    <2> QED
      BY <2>1, <2>2
  <1> QED
    BY <1>3, <1>4, <1>5 DEF Inductive

\* Five minutes are over: the trial is marked as failed and Home Assistant is on
\* its way back.
LEMMA RevertKeeps == Inductive /\ Revert => Inductive'
  <1> SUFFICES ASSUME Inductive, Revert PROVE Inductive'
    OBVIOUS
  <1>1. TypeOK /\ ThreadInv /\ StagedInv
    BY DEF Inductive
  <1>2. pending # None /\ pending \in Staged
    BY <1>1 DEF StagedInv, TypeOK, Revert
  <1>3. /\ pending' \in Staged
        /\ pending'.config = pending.config
    BY <1>2 DEF Revert, Staged
  <1>4. TypeOK'
    BY <1>1, <1>3 DEF TypeOK, Revert, config, threads, listeners, history
  <1>5. ThreadInv'
    BY <1>1 DEF ThreadInv, Revert, Loaded, config, threads
  <1>6. StagedInv'
    BY <1>1, <1>2, <1>3
    DEF StagedInv, UnconfirmedIsReverted, RestoreIsFinal, Revert, config, threads, history
  <1> QED
    BY <1>4, <1>5, <1>6 DEF Inductive

-----------------------------------------------------------------------------
(* The administrator. *)

\* What the administrator does to the entry.
AdminStep ==
  \/ \E o \in Options : Add(o)
  \/ \E o \in Options : EditOptions(o)
  \/ Disable
  \/ DisableUnloaded
  \/ Enable
  \/ Remove

\* An unload leaves the event thread idle or under way, and then without what it
\* works for.
LEMMA Unloaded ==
  ASSUME Inductive, NEW what \in {"data", "entry"}, Unloads(what)
  PROVE  /\ given' \in [Threads -> Options \cup {None}]
         /\ lost' \in {"nothing", "data", "entry"}
         /\ EventLeft \in Starting \cup {"idle"}
         /\ EventLeft \in Starting <=> step["event"] \in Starting
         /\ EventLeft # "idle" => given'["event"] # None /\ lost' # "nothing"
         /\ EventLeft = "idle" => lost' = "nothing"
  BY DEF Unloads, EventLeft, Inductive, TypeOK, ThreadInv, Threads, EventSteps, Starting

\* The administrator starts setups and restores; none of that touches the server.
LEMMA AdminKeeps == Inductive /\ AdminStep => Inductive'
  <1> SUFFICES ASSUME Inductive, AdminStep PROVE Inductive'
    OBVIOUS
  <1>1. TypeOK /\ ThreadInv /\ StagedInv
    BY DEF Inductive
  <1>2. ASSUME NEW o \in Options, Add(o) PROVE Inductive'
    <2>1. TypeOK'
      BY <1>1, <1>2 DEF Add, Goes, Unlocked, TypeOK, Threads, EntrySteps, server, listeners
    <2>2. ThreadInv'
      BY <1>1, <1>2, NetworkAssumption
      DEF Add, Goes, Unlocked, TypeOK, ThreadInv, Loaded, Threads, Starting
    <2>3. StagedInv'
      BY <1>1, <1>2 DEF Add, StagedInv, UnconfirmedIsReverted, RestoreIsFinal, server
    <2> QED
      BY <2>1, <2>2, <2>3 DEF Inductive
  <1>3. ASSUME NEW o \in Options, EditOptions(o) PROVE Inductive'
    <2>0. edits' \in 0..MaxEdits
      BY <1>1, <1>3, NetworkAssumption DEF EditOptions, TypeOK
    <2>1. undone = None /\ o # None
      BY <1>1, <1>3, NetworkAssumption DEF EditOptions, StagedInv
    <2>2. /\ step' \in [Threads -> EntrySteps \cup EventSteps]
          /\ step'["entry"] \in EntrySteps /\ step'["event"] \in EventSteps
          /\ given' \in [Threads -> Options \cup {None}]
          /\ undo' = undo /\ proxy' \in {proxy, None}
          /\ lost' \in {"nothing", "data", "entry"}
          /\ ThreadInv'
      <3>1. CASE Loaded
        BY <1>3, <3>1, Reloaded DEF EditOptions
      <3>2. CASE ~Loaded
        BY <1>1, <1>3, <2>1, <3>2 DEF EditOptions, TypeOK, ThreadInv, Loaded, threads
      <3> QED
        BY <3>1, <3>2
    <2>3. TypeOK'
      BY <1>1, <1>3, <2>0, <2>2 DEF EditOptions, TypeOK, server, history
    <2>4. StagedInv'
      BY <1>1, <1>3, <2>1
      DEF EditOptions, StagedInv, UnconfirmedIsReverted, RestoreIsFinal, server, history
    <2> QED
      BY <2>2, <2>3, <2>4 DEF Inductive
  <1>4. CASE Disable
    <2>1. /\ given' \in [Threads -> Options \cup {None}]
          /\ lost' \in {"nothing", "data", "entry"}
          /\ EventLeft \in Starting \cup {"idle"}
          /\ EventLeft \in Starting <=> step["event"] \in Starting
          /\ EventLeft # "idle" => given'["event"] # None /\ lost' # "nothing"
          /\ EventLeft = "idle" => lost' = "nothing"
      BY <1>4, Unloaded DEF Disable
    <2>2. undone = None /\ BackTo \in Address \cup {None}
      BY <1>1, <1>4 DEF Disable, Loaded, StagedInv, BackTo, TypeOK
    <2>3. TypeOK'
      BY <1>1, <1>4, <2>1, <2>2
      DEF Disable, Unloads, Leaves, TypeOK, Threads, EntrySteps, EventSteps, server, history
    <2>4. ThreadInv'
      BY <1>1, <1>4, <2>1
      DEF Disable, Leaves, ThreadInv, Loaded, Threads, Starting
    <2>5. StagedInv'
      BY <1>1, <1>4, <2>2
      DEF Disable, StagedInv, UnconfirmedIsReverted, RestoreIsFinal, server, history
    <2> QED
      BY <2>3, <2>4, <2>5 DEF Inductive
  <1>5. CASE Remove
    <2>1. /\ given' \in [Threads -> Options \cup {None}]
          /\ lost' \in {"nothing", "data", "entry"}
          /\ EventLeft \in Starting \cup {"idle"}
          /\ EventLeft \in Starting <=> step["event"] \in Starting
          /\ EventLeft # "idle" => given'["event"] # None /\ lost' # "nothing"
          /\ EventLeft = "idle" => lost' = "nothing"
      BY <1>5, Unloaded DEF Remove
    <2>2. BackTo \in Address \cup {None}
      BY <1>1 DEF BackTo, TypeOK
    <2>3. TypeOK'
      BY <1>1, <1>5, <2>1, <2>2
      DEF Remove, Unloads, Leaves, TypeOK, Threads, EntrySteps, EventSteps, server, history
    <2>4. ThreadInv'
      BY <1>1, <1>5, <2>1
      DEF Remove, Leaves, ThreadInv, Loaded, Threads, Starting
    <2>5. step["event"] = "idle" => step'["event"] = "idle"
      BY <1>5 DEF Remove, Leaves, EventLeft
    <2>6. StagedInv'
      BY <1>1, <1>5, <2>5
      DEF Remove, StagedInv, UnconfirmedIsReverted, RestoreIsFinal, server, history
    <2> QED
      BY <2>3, <2>4, <2>6 DEF Inductive
  <1>6. CASE DisableUnloaded
    <2>1. TypeOK'
      BY <1>1, <1>6
      DEF DisableUnloaded, Goes, Unlocked, TypeOK, Threads, EntrySteps, server, listeners, history
    <2>2. ThreadInv'
      BY <1>1, <1>6
      DEF DisableUnloaded, Goes, Unlocked, TypeOK, ThreadInv, Loaded, Threads, Starting
    <2>3. StagedInv'
      BY <1>1, <1>6
      DEF DisableUnloaded, StagedInv, UnconfirmedIsReverted, RestoreIsFinal, server, history
    <2> QED
      BY <2>1, <2>2, <2>3 DEF Inductive
  <1>7. CASE Enable
    <2>1. TypeOK'
      BY <1>1, <1>7 DEF Enable, Goes, Unlocked, TypeOK, Threads, EntrySteps, server, listeners
    <2>2. ThreadInv'
      BY <1>1, <1>7
      DEF Enable, Goes, Unlocked, TypeOK, ThreadInv, Loaded, Threads, Starting
    <2>3. StagedInv'
      BY <1>1, <1>7 DEF Enable, StagedInv, UnconfirmedIsReverted, RestoreIsFinal, server
    <2> QED
      BY <2>1, <2>2, <2>3 DEF Inductive
  <1> QED
    BY <1>2, <1>3, <1>4, <1>5, <1>6, <1>7 DEF AdminStep

\* The inductive invariant holds of every behaviour.
LEMMA Invariant == Spec => []Inductive
  <1>1. Inductive /\ [Next]_vars => Inductive'
    <2> SUFFICES ASSUME Inductive, [Next]_vars PROVE Inductive'
      OBVIOUS
    <2>1. CASE UNCHANGED vars
      BY <2>1 DEF vars, server, config, threads, listeners, history, Inductive, TypeOK, ThreadInv,
         StagedInv, Loaded, UnconfirmedIsReverted, RestoreIsFinal
    <2>2. CASE Next
      BY <2>2, StartKeeps, EntryKeeps, StartedKeeps, BootKeeps, RevertKeeps, AdminKeeps
      DEF Next, AdminStep
    <2> QED
      BY <2>1, <2>2
  <1> QED
    BY Initially, <1>1, PTL DEF Spec

-----------------------------------------------------------------------------
\* Every state has the declared types, for any ports and bounds.
THEOREM TypesHold == Spec => []TypeOK
  BY Invariant, PTL DEF Inductive

\* However often the options are edited, trials run out and the entry comes and
\* goes, also under a setup of the started event, Home Assistant is never left on
\* loopback on a config that is neither permanent nor about to be reverted
\* (_move_home_assistant, _confirm_move).
THEOREM AlwaysAWayBack == Spec => []UnconfirmedIsReverted
  BY Invariant, PTL DEF Inductive, StagedInv

\* A move the integration undid stays undone: the address put back stays the
\* permanent one even where a setup of the started event, overtaken by the unload,
\* stages its move afterwards, and nothing else stages one (async_restore).
THEOREM RestoredStays == Spec => []RestoreIsFinal
  BY Invariant, PTL DEF Inductive, StagedInv

\* The only step other than a restore that makes loopback permanent is a promotion
\* made by a setup whose page came back through the proxy (async_promote).
THEOREM PromotedOnlyServing == Spec => PermanentOnlyOnceServing
  <1>1. Inductive /\ [Next]_vars
        => [stable' # stable /\ stable'.loopback /\ undone' = undone
            => \E t \in Threads : step[t] = "confirm" /\ Serving(given[t].proxy)]_vars
    <2> SUFFICES ASSUME Inductive, Next, stable' # stable, undone' = undone
                 PROVE  \E t \in Threads : step[t] = "confirm" /\ Serving(given[t].proxy)
      OBVIOUS
    <2>1. ~Restore
      BY DEF Inductive, TypeOK, ThreadInv, StagedInv, RestoreIsFinal, Restore
    <2>2. PICK t \in Threads : Confirm(t)
      BY <2>1 DEF Next, StartStep, EntryStep, BeginSetup, RecordSnapshot, StageMove, MoveFails,
         NoMove, Bind, BindFails, Retry, Unconfirmed, RestoreFails, Started, Boot, Revert, Add,
         EditOptions, Disable, DisableUnloaded, Enable, Remove, server
    <2> QED
      BY <2>2 DEF Confirm
  <1> QED
    BY Invariant, <1>1, PTL DEF Spec, PermanentOnlyOnceServing
=============================================================================
