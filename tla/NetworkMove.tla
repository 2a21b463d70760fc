------------------------------ MODULE NetworkMove ------------------------------
(***************************************************************************)
(* The move of Home Assistant out of the proxy's way, and back: the setup  *)
(* and unload of __init__.py with http_config.py.                          *)
(*                                                                         *)
(* Home Assistant is external.  It listens on one address.  A config is    *)
(* staged (`pending`), tried at the next start, and reverted after five    *)
(* minutes by another restart unless somebody promotes it to `stable`.  A  *)
(* config that was reverted still sits in `pending`, marked as failed.     *)
(* The four keys the move touches change together, so a config is reduced  *)
(* to the address it makes Home Assistant listen on.                       *)
(*                                                                         *)
(* _start_proxy awaits between recording the old address, staging the new  *)
(* one, binding the proxy and asking it for a page, and the restart it     *)
(* asks for comes some time after.  It is run by two threads.  "entry" is  *)
(* the setup that holds the entry's lock, as unloading, removing and       *)
(* reloading do.  The setup of a process that is still starting leaves it  *)
(* to "event", the listener of the started event, which holds no lock: it  *)
(* goes on with the options it closed over while the entry is edited,      *)
(* disabled or removed.                                                    *)
(***************************************************************************)
EXTENDS Naturals

CONSTANTS
  ProxyPorts,     \* the ports an administrator may give the proxy
  UpstreamPorts,  \* and those Home Assistant may be moved to
  HomePort,       \* the port Home Assistant answers on by default
  MaxEdits,       \* bound: how often the options are edited
  TrialsFail,     \* a trial may run out
  Patient,        \* the administrator does nothing while a restart is on its way
  None            \* no config, no snapshot, no listener

Ports == ProxyPorts \cup UpstreamPorts \cup {HomePort}

Address == [loopback : BOOLEAN, port : Ports]
Staged == [config : Address, failed : BOOLEAN]
Listener == [port : ProxyPorts, upstream : UpstreamPorts]
Options == {o \in [proxy : ProxyPorts, upstream : UpstreamPorts,
                   manage : BOOLEAN, restore : BOOLEAN] : o.proxy # o.upstream}

ASSUME NetworkAssumption ==
  /\ MaxEdits \in Nat
  /\ TrialsFail \in BOOLEAN
  /\ Patient \in BOOLEAN
  /\ None \notin Address \cup Staged \cup Listener \cup Options \cup Ports

VARIABLES
  address,   \* external: where the running server listens
  stable,    \* external: the stable config, None if there is none
  pending,   \* external: the staged config, and whether its trial failed
  trial,     \* external: the running config is on trial and will be reverted
  restart,   \* external: a restart is on its way
  running,   \* hass.is_running
  entry,     \* the config entry: "absent", "enabled" or "disabled"
  options,   \* its options, None while there is none
  previous,  \* its DATA_PREVIOUS_HTTP
  step,      \* thread -> what it awaits
  given,     \* thread -> the options its _start_proxy was given
  undo,      \* the address the restore under way goes back to
  lost,      \* what the event thread lost: "nothing", its "data", its "entry"
  proxy,     \* the listener in the runtime data
  orphan,    \* the listener of an event thread that had lost its data
  undone,    \* history: the address put back, None if none or enabled since
  restaged,  \* history: an event thread that lost its data moved out after that
  edits      \* how often the options were edited

server == <<address, stable, pending, trial, restart>>
config == <<entry, options, previous>>
threads == <<step, given, undo, lost>>
listeners == <<proxy, orphan>>
history == <<undone, restaged>>
vars == <<server, running, config, threads, listeners, history, edits>>

Threads == {"entry", "event"}

\* Inside _start_proxy: called, and at each thing it awaits.
Starting == {"start", "stage", "bind", "confirm"}

\* "begin": async_setup_entry; "retry": the entry waits to be set up again;
\* "restore": _async_restore_network; "waiting": for the started event.
EntrySteps == Starting \cup {"idle", "begin", "retry", "restore"}
EventSteps == Starting \cup {"idle", "waiting"}

TypeOK ==
  /\ address \in Address
  /\ stable \in Address \cup {None}
  /\ pending \in Staged \cup {None}
  /\ trial \in BOOLEAN
  /\ restart \in BOOLEAN
  /\ running \in BOOLEAN
  /\ entry \in {"absent", "enabled", "disabled"}
  /\ options \in Options \cup {None}
  /\ previous \in Address \cup {None}
  /\ step \in [Threads -> EntrySteps \cup EventSteps]
  /\ step["entry"] \in EntrySteps /\ step["event"] \in EventSteps
  /\ given \in [Threads -> Options \cup {None}]
  /\ undo \in Address \cup {None}
  /\ lost \in {"nothing", "data", "entry"}
  /\ proxy \in Listener \cup {None}
  /\ orphan \in Listener \cup {None}
  /\ undone \in Address \cup {None}
  /\ restaged \in BOOLEAN
  /\ edits \in 0..MaxEdits

Default == [loopback |-> FALSE, port |-> HomePort]

Init ==
  /\ address = Default
  /\ stable \in {None, Default}
  /\ pending = None
  /\ trial = FALSE
  /\ restart = FALSE
  /\ running = TRUE
  /\ entry = "absent"
  /\ options = None
  /\ previous = None
  /\ step = [t \in Threads |-> "idle"]
  /\ given = [t \in Threads |-> None]
  /\ undo = None
  /\ lost = "nothing"
  /\ proxy = None
  /\ orphan = None
  /\ undone = None
  /\ restaged = FALSE
  /\ edits = 0

-----------------------------------------------------------------------------
(* The two threads *)

\* Thread t goes on to step s of _start_proxy.
Goes(t, s) ==
  /\ step' = [step EXCEPT ![t] = s]
  /\ UNCHANGED <<given, undo, lost>>

\* Thread t has ended, and the entry is left in step s.
Ends(t, s) ==
  /\ step' = [step EXCEPT ![t] = s]
  /\ given' = [given EXCEPT ![t] = None]
  /\ lost' = IF t = "event" THEN "nothing" ELSE lost
  /\ undo' = undo

\* Wrong: the started event is still waited for.
EventWaits == step["event"]

\* What async_unload_entry leaves of the event thread: one that still waits is
\* unsubscribed, one under way goes on.
EventLeft == IF step["event"] = "waiting" THEN "idle" ELSE step["event"]

\* async_unload_entry, and a removal: the proxy stops, and an event thread under
\* way has lost what it works for.
Unloads(what) ==
  /\ proxy' = None
  /\ given' = [t \in Threads |->
       IF t = "event" /\ EventLeft # "idle" THEN given["event"] ELSE None]
  /\ lost' = IF step["event"] \in Starting THEN what ELSE "nothing"

\* A reload, all but its setup.
Reloads(event) ==
  /\ Unloads("data")
  /\ step' = [entry |-> "begin", event |-> event]
  /\ undo' = undo

-----------------------------------------------------------------------------
(* Setup *)

IsAligned(o) == address.loopback /\ address.port = o.upstream

\* Wrong: the staged slot, not the config in it.
CurrentSlot == IF pending # None THEN pending ELSE stable

\* async_current.
Current == IF pending # None THEN pending.config ELSE stable

\* async_setup_entry up to its call of _start_proxy, or to its return if Home
\* Assistant is still starting.  An instance that is already moved and has no
\* record of where from gets the proxy's port on every interface.
BeginSetup ==
  /\ step["entry"] = "begin"
  /\ previous' = IF options.manage /\ previous = None /\ IsAligned(options)
                 THEN [loopback |-> FALSE, port |-> options.proxy] ELSE previous
  /\ IF running
     THEN /\ step' = [step EXCEPT !["entry"] = "start"]
          /\ given' = [given EXCEPT !["entry"] = options]
     ELSE /\ step' = [entry |-> "idle", event |-> "waiting"]
          /\ given' = [given EXCEPT !["event"] = options]
  /\ UNCHANGED <<server, running, entry, options, undo, lost, listeners, history, edits>>

\* EVENT_HOMEASSISTANT_STARTED
Started ==
  /\ ~running
  /\ running' = TRUE
  /\ step' = [step EXCEPT !["event"] = IF @ = "waiting" THEN "start" ELSE @]
  /\ UNCHANGED <<server, config, given, undo, lost, listeners, history, edits>>

MustMove(t) == given[t].manage /\ ~IsAligned(given[t])

\* async_update_entry knows the entry until its removal is through.
Known(t) == t = "entry" \/ lost # "entry" \/ (entry = "absent" /\ step["entry"] = "restore")

\* The entry is loaded, so its update listener stands.
Loaded == entry = "enabled" /\ step["entry"] = "idle"

\* _move_home_assistant records the keys it is about to overwrite.  Recorded by
\* the event thread that is an edit of a loaded entry, which reloads it.
RecordSnapshot(t) ==
  /\ step[t] = "start"
  /\ MustMove(t)
  /\ Known(t)
  /\ previous' = Current
  /\ IF t = "event" /\ Loaded /\ Current # previous
     THEN Reloads("stage")
     ELSE Goes(t, "stage") /\ proxy' = proxy
  /\ UNCHANGED <<server, running, entry, options, orphan, history, edits>>

\* Wrong: the move is promoted where it is staged.
StagePromoted(t) ==
  /\ step[t] = "stage"
  /\ stable' = [loopback |-> TRUE, port |-> given[t].upstream]
  /\ pending' = None
  /\ restart' = TRUE
  /\ Ends(t, "idle")
  /\ UNCHANGED <<address, trial, running, config, listeners, history, edits>>

\* async_stage, and the restart into it.
StageMove(t) ==
  /\ step[t] = "stage"
  /\ pending' = [config |-> [loopback |-> TRUE, port |-> given[t].upstream], failed |-> FALSE]
  /\ restart' = TRUE
  /\ restaged' = (restaged \/ (undone # None /\ t = "event" /\ lost # "nothing"))
  /\ Ends(t, "idle")
  /\ UNCHANGED <<address, stable, trial, running, config, listeners, undone, edits>>

\* The config cannot be read or the entry is gone, the new address cannot be
\* bound or the store not written: setup goes on.
MoveFails(t) ==
  /\ \/ step[t] = "stage"
     \/ step[t] = "start" /\ MustMove(t)
  /\ Goes(t, "bind")
  /\ UNCHANGED <<server, running, config, listeners, history, edits>>

NoMove(t) ==
  /\ step[t] = "start"
  /\ ~MustMove(t)
  /\ Goes(t, "bind")
  /\ UNCHANGED <<server, running, config, listeners, history, edits>>

Held == {address.port} \cup {l.port : l \in {proxy, orphan} \ {None}}

\* The proxy binds.
Bind(t) ==
  /\ step[t] = "bind"
  /\ given[t].proxy \notin Held
  /\ LET new == [port |-> given[t].proxy, upstream |-> given[t].upstream]
     IN IF t = "event" /\ lost # "nothing"
        THEN orphan' = new /\ proxy' = proxy
        ELSE proxy' = new /\ orphan' = orphan
  /\ IF given[t].manage THEN Goes(t, "confirm") ELSE Ends(t, "idle")
  /\ UNCHANGED <<server, running, config, history, edits>>

\* Home Assistant, or something else on the machine, holds the port.  A setup
\* that ran on the started event logs it; any other raises ConfigEntryNotReady.
BindFails(t) ==
  /\ step[t] = "bind"
  /\ Ends(t, IF t = "event" THEN "idle" ELSE "retry")
  /\ UNCHANGED <<server, running, config, listeners, history, edits>>

Retry ==
  /\ step["entry"] = "retry"
  /\ Goes("entry", "begin")
  /\ UNCHANGED <<server, running, config, listeners, history, edits>>

\* A page asked of the proxy's port comes back from Home Assistant.
Serving(port) == \E l \in {proxy, orphan} \ {None} : l.port = port /\ l.upstream = address.port

Promote ==
  /\ stable' = pending.config
  /\ pending' = None
  /\ trial' = FALSE
  /\ UNCHANGED <<address, restart>>

\* _confirm_move when the proxy served: whatever is staged becomes stable.
Confirm(t) ==
  /\ step[t] = "confirm"
  /\ Serving(given[t].proxy)
  /\ Ends(t, "idle")
  /\ \/ pending # None /\ Promote
     \/ pending = None /\ UNCHANGED server
  /\ UNCHANGED <<running, config, listeners, history, edits>>

\* The page did not come, or the promotion failed.
Unconfirmed(t) ==
  /\ step[t] = "confirm"
  /\ Ends(t, "idle")
  /\ UNCHANGED <<server, running, config, listeners, history, edits>>

-----------------------------------------------------------------------------
(* Home Assistant *)

\* The process is replaced.  What it tries is what is staged and has not failed.
Boot ==
  /\ restart
  /\ restart' = FALSE
  /\ trial' = (pending # None /\ ~pending.failed)
  /\ address' = IF pending # None /\ ~pending.failed THEN pending.config
                ELSE IF stable # None THEN stable ELSE Default
  /\ running' = FALSE
  /\ proxy' = None
  /\ orphan' = None
  /\ step' = [entry |-> IF entry = "enabled" THEN "begin" ELSE "idle", event |-> "idle"]
  /\ given' = [t \in Threads |-> None]
  /\ undo' = None
  /\ lost' = "nothing"
  /\ UNCHANGED <<stable, pending, config, history, edits>>

\* Five minutes are over.
Revert ==
  /\ TrialsFail
  /\ trial
  /\ ~restart
  /\ pending' = [pending EXCEPT !.failed = TRUE]
  /\ trial' = FALSE
  /\ restart' = TRUE
  /\ UNCHANGED <<address, stable, running, config, threads, listeners, history, edits>>

-----------------------------------------------------------------------------
(* The administrator *)

\* The entry's lock is free, whatever the event thread is at.
Unlocked(steps) == step["entry"] \in steps
Acts == Patient => ~restart

Add(o) ==
  /\ entry = "absent"
  /\ Acts /\ Unlocked({"idle"})
  /\ o.restore
  /\ entry' = "enabled"
  /\ options' = o
  /\ previous' = None
  /\ Goes("entry", "begin")
  /\ undone' = None /\ restaged' = FALSE
  /\ UNCHANGED <<server, running, listeners, edits>>

\* The options are edited and the entry reloads: the proxy stops, and setup runs
\* again.  An entry that is not loaded has no listener for the edit.  The restore
\* question is only asked once there is something to restore.
EditOptions(o) ==
  /\ entry = "enabled"
  /\ Acts
  /\ edits < MaxEdits
  /\ o # options
  /\ previous = None => o.restore
  /\ edits' = edits + 1
  /\ options' = o
  /\ IF Loaded THEN Reloads(EventLeft) ELSE UNCHANGED <<threads, proxy>>
  /\ UNCHANGED <<server, running, entry, previous, orphan, history>>

\* What _async_restore_network goes back to.
BackTo == IF options.restore THEN previous ELSE None

\* Unloaded, and on to the restore if there is anything to restore.
Leaves ==
  /\ undo' = BackTo
  /\ step' = [entry |-> IF BackTo # None THEN "restore" ELSE "idle", event |-> EventLeft]

Disable ==
  /\ Loaded
  /\ Acts
  /\ entry' = "disabled"
  /\ Unloads("data")
  /\ Leaves
  /\ UNCHANGED <<server, running, options, previous, orphan, history, edits>>

\* Home Assistant never loaded an entry that waits to be set up again, so it does
\* not unload it either, and nothing is restored.
DisableUnloaded ==
  /\ entry = "enabled"
  /\ Acts /\ Unlocked({"retry"})
  /\ entry' = "disabled"
  /\ Goes("entry", "idle")
  /\ UNCHANGED <<server, running, options, previous, listeners, history, edits>>

Enable ==
  /\ entry = "disabled"
  /\ Acts /\ Unlocked({"idle"})
  /\ entry' = "enabled"
  /\ Goes("entry", "begin")
  /\ undone' = None /\ restaged' = FALSE
  /\ UNCHANGED <<server, running, options, previous, listeners, edits>>

\* Unloaded if it was loaded, and then removed with all it holds.
Remove ==
  /\ entry # "absent"
  /\ Acts /\ Unlocked({"idle", "retry"})
  /\ entry' = "absent"
  /\ options' = None
  /\ previous' = None
  /\ Unloads("entry")
  /\ Leaves
  /\ UNCHANGED <<server, running, orphan, history, edits>>

\* Wrong: restored, and Home Assistant left running where it is.
RestoreNoRestart ==
  /\ step["entry"] = "restore"
  /\ stable' = undo
  /\ pending' = None
  /\ trial' = FALSE
  /\ undone' = undo /\ restaged' = FALSE
  /\ step' = [step EXCEPT !["entry"] = "idle"]
  /\ undo' = None
  /\ UNCHANGED <<address, restart, running, config, given, lost, listeners, edits>>

\* _async_restore_network: what the move changed goes back, at once for good.
Restore ==
  /\ step["entry"] = "restore"
  /\ stable' = undo
  /\ pending' = None
  /\ trial' = FALSE
  /\ restart' = TRUE
  /\ undone' = undo /\ restaged' = FALSE
  /\ step' = [step EXCEPT !["entry"] = "idle"]
  /\ undo' = None
  /\ UNCHANGED <<address, running, config, given, lost, listeners, edits>>

\* The old address cannot be bound or the store not written.
RestoreFails ==
  /\ step["entry"] = "restore"
  /\ step' = [step EXCEPT !["entry"] = "idle"]
  /\ undo' = None
  /\ UNCHANGED <<server, running, config, given, lost, listeners, history, edits>>

-----------------------------------------------------------------------------
StartStep(t) ==
  \/ RecordSnapshot(t)
  \/ StageMove(t)
  \/ MoveFails(t)
  \/ NoMove(t)
  \/ Bind(t)
  \/ BindFails(t)
  \/ Confirm(t)
  \/ Unconfirmed(t)

EntryStep ==
  \/ BeginSetup
  \/ Retry
  \/ Restore
  \/ RestoreFails

Next ==
  \/ \E t \in Threads : StartStep(t)
  \/ EntryStep
  \/ Started
  \/ Boot
  \/ Revert
  \/ \E o \in Options : Add(o)
  \/ \E o \in Options : EditOptions(o)
  \/ Disable
  \/ DisableUnloaded
  \/ Enable
  \/ Remove

Spec == Init /\ [][Next]_vars

\* What was awaited comes, Home Assistant starts, a restart asked for happens and
\* a trial nobody confirms runs out.  Nothing makes the administrator act.
Fairness ==
  /\ \A t \in Threads : WF_vars(StartStep(t))
  /\ WF_vars(EntryStep)
  /\ WF_vars(Started)
  /\ WF_vars(Boot)
  /\ WF_vars(Revert)

FairSpec == Spec /\ Fairness

-----------------------------------------------------------------------------
(* Properties *)

\* Moving out is permanent only from a step in which the page _confirm_move asks
\* of the proxy comes back from Home Assistant: until then every start may still
\* be reverted (_confirm_move, async_promote).
PermanentOnlyOnceServing ==
  [][stable' # stable /\ stable'.loopback /\ undone' = undone
     => \E t \in Threads : step[t] = "confirm" /\ Serving(given[t].proxy)]_vars

\* While loopback is not permanent, Home Assistant is on it only on a trial that
\* will be reverted, or on its way elsewhere: there is always a way back in.
UnconfirmedIsReverted ==
  address.loopback /\ (stable = None \/ ~stable.loopback) => trial \/ restart

\* Once the integration undid the move and nothing enabled it again, the address
\* it put back stays the permanent one, whatever setup was under way when the
\* entry was unloaded (async_restore, async_unload_entry).  Home Assistant is
\* there, or on its way there.  Where the setup of the started event lost its
\* data to the unload and staged its move after the restore, Home Assistant may
\* be on that trial once more, which nobody can confirm.
RestoreIsFinal ==
  undone # None =>
    /\ stable = undone
    /\ restart \/ address = undone \/ (restaged /\ trial)
    /\ pending # None => restaged /\ step["event"] = "idle"

\* Removing or disabling a moved instance puts it back on the network, unless the
\* entry is enabled again meanwhile, the restore is not written, or what was put
\* back last is a record that says loopback (_async_restore_network;
\* NetworkSnapshot has such a record).
RestoreComesBack ==
  step["entry"] = "restore" /\ address.loopback /\ ~undo.loopback
    ~> \/ ~address.loopback
       \/ entry = "enabled"
       \/ step["entry"] = "idle" /\ (undone = None \/ undone.loopback)

-----------------------------------------------------------------------------
(* What the code says of itself, and does not do *)

\* docs/DESIGN.md:186 "So the move is reversed and Home Assistant restarts onto
\* the address it answered on before, using the snapshot taken when it was moved":
\* a restore never makes loopback, where only the move put it, permanent.
RestoreLeavesLoopback ==
  [][undone' # undone /\ undone' # None => ~undone'.loopback]_vars
=============================================================================
