------------------------------- MODULE Listener -------------------------------
(***************************************************************************)
(* The listener of proxy.py and the setup and unload of __init__.py that   *)
(* start and stop it, with the guard of mobile_webhooks.py they put around *)
(* Core's webhook commands.                                                *)
(*                                                                         *)
(* Home Assistant holds a lock over the setup and the unload of an entry,  *)
(* and a reload is one after the other.  The first setup of a process runs *)
(* before Home Assistant has started and leaves the listener to an event,  *)
(* which holds no lock.  Every setup that comes through has a number; its  *)
(* store, evaluator, proxy and guard go by it.  What a setup that fails    *)
(* leaves behind is never taken back, and goes by the name Left.           *)
(*                                                                         *)
(* The move of Home Assistant's own listener, which may put all this off   *)
(* until a restart, is in NetworkMove.                                     *)
(***************************************************************************)
EXTENDS Integers, FiniteSets

CONSTANTS
  MaxReloads,  \* bound: reloads, disablings and enablings
  MaxForeign,  \* bound: how often somebody else takes the port
  BindRetries, \* attempts at binding the port
  MaxConns     \* bound: connections open on one listener

ASSUME ListenerAssumption ==
  /\ MaxReloads \in Nat /\ MaxForeign \in Nat
  /\ BindRetries \in Nat \ {0} /\ MaxConns \in Nat \ {0}

Setups == 1..(MaxReloads + 1)
None == 0    \* nobody: no runtime data, a free port, Core's own handlers
Left == -1   \* what setups that failed have left behind
Other == -2  \* another process, or Home Assistant itself, on the port

VARIABLES
  phase,     \* external: the entry, "unloaded", "setup", "loaded", "unload" or "retry"
  enabled,   \* external: the entry is not disabled
  running,   \* hass.is_running
  setup,     \* the last setup that has not failed
  rbac,      \* hass.data[DATA_RBAC]: whose
  waiting,   \* the started event will start the listener
  starting,  \* the setups whose _start_proxy is under way
  proxy,     \* setup -> its RbacProxy: "none", "new", "serving", "draining", "closed"
  tries,     \* setup -> binds that failed
  held,      \* the setups that have noted their proxy
  port,      \* who listens on the port
  conns,     \* setup -> requests under way on its runner
  driver,    \* the setup through whose proxy the reload was asked for
  mobile,    \* external: mobile_app is loaded
  watching,  \* whose guards listen for component_loaded
  wrapper,   \* whose guard has wrapped Core's commands
  overtaken, \* history: an unload overtook the started event's _start_proxy
  reloads, foreign

entry == <<phase, enabled, running, setup, rbac, waiting>>
listener == <<starting, proxy, tries, held, port>>
traffic == <<conns, driver>>
guard == <<mobile, watching, wrapper>>
counts == <<reloads, foreign>>
vars == <<entry, listener, traffic, guard, overtaken, counts>>

TypeOK ==
  /\ phase \in {"unloaded", "setup", "loaded", "unload", "retry"}
  /\ enabled \in BOOLEAN /\ running \in BOOLEAN /\ waiting \in BOOLEAN
  /\ setup \in 0..(MaxReloads + 1) /\ reloads \in 0..MaxReloads
  /\ rbac \in Setups \cup {None, Left}
  /\ starting \subseteq Setups /\ held \subseteq Setups
  /\ proxy \in [Setups -> {"none", "new", "serving", "draining", "closed"}]
  /\ tries \in [Setups -> 0..(BindRetries - 1)] /\ conns \in [Setups -> 0..MaxConns]
  /\ port \in Setups \cup {None, Other} /\ driver \in Setups \cup {None}
  /\ watching \subseteq Setups \cup {Left} /\ wrapper \in watching \cup {None}

-------------------------------------------------------------------------------
(* The guard: Core's commands are wrapped once, whoever comes first. *)

Installed(by) == IF wrapper = None THEN by ELSE wrapper

\* Wrong: mobile_app is only looked for when the entry is set up.
LoadsUnnoticed ==
  /\ ~mobile
  /\ mobile' = TRUE
  /\ UNCHANGED <<entry, listener, traffic, watching, wrapper, overtaken, counts>>

\* External: mobile_app is loaded, and the guards are told in turn.
MobileAppLoads ==
  /\ ~mobile
  /\ mobile' = TRUE
  /\ wrapper' = IF watching = {} THEN wrapper
                ELSE Installed(CHOOSE s \in watching : \A t \in watching : s <= t)
  /\ UNCHANGED <<entry, listener, traffic, watching, overtaken, counts>>

\* undo: only what this guard wrapped is put back.
Undone == /\ watching' = watching \ {setup}
          /\ wrapper' = IF wrapper = setup THEN None ELSE wrapper

-------------------------------------------------------------------------------
(* Setup. *)

\* _start_proxy begins: the proxy is made.
Begun(s) == /\ starting' = starting \cup {s}
            /\ proxy' = [proxy EXCEPT ![s] = "new"]
            /\ tries' = [tries EXCEPT ![s] = 0]
            /\ UNCHANGED <<held, port>>

\* async_setup_entry, by Home Assistant at its start, in a reload, on enabling
\* and again some time after a failure.
Setup ==
  /\ phase \in {"unloaded", "retry"} /\ enabled
  /\ setup' = setup + 1
  /\ rbac' = setup + 1
  /\ watching' = watching \cup {setup + 1}
  /\ wrapper' = IF mobile THEN Installed(setup + 1) ELSE wrapper
  /\ IF running
     THEN phase' = "setup" /\ waiting' = FALSE /\ Begun(setup + 1)
     ELSE phase' = "loaded" /\ waiting' = TRUE /\ UNCHANGED listener
  /\ UNCHANGED <<enabled, running, traffic, mobile, overtaken, counts>>

\* EVENT_HOMEASSISTANT_STARTED
Started ==
  /\ ~running
  /\ running' = TRUE
  /\ waiting' = FALSE
  /\ IF waiting THEN Begun(setup) ELSE UNCHANGED listener
  /\ UNCHANGED <<phase, enabled, setup, rbac, traffic, guard, overtaken, counts>>

Bind(s) ==
  /\ s \in starting /\ proxy[s] = "new" /\ port = None
  /\ port' = s
  /\ proxy' = [proxy EXCEPT ![s] = "serving"]
  /\ UNCHANGED <<entry, starting, tries, held, traffic, guard, overtaken, counts>>

\* Wrong: the attempts are not counted.
BindForever(s) ==
  /\ s \in starting /\ proxy[s] = "new" /\ port # None
  /\ tries' = [tries EXCEPT ![s] = @ + 1]
  /\ UNCHANGED <<entry, starting, proxy, held, port, traffic, guard, overtaken, counts>>

BindAgain(s) ==
  /\ s \in starting /\ proxy[s] = "new" /\ port # None
  /\ tries[s] + 1 < BindRetries
  /\ tries' = [tries EXCEPT ![s] = @ + 1]
  /\ UNCHANGED <<entry, starting, proxy, held, port, traffic, guard, overtaken, counts>>

\* The runner and its session stay.  A setup under the lock raises
\* ConfigEntryNotReady, and stays registered; on the started event it is
\* logged and no more.
BindFails(s) ==
  /\ s \in starting /\ proxy[s] = "new" /\ port # None
  /\ tries[s] + 1 = BindRetries
  /\ starting' = starting \ {s}
  /\ proxy' = [proxy EXCEPT ![s] = "none"]
  /\ tries' = [tries EXCEPT ![s] = 0]
  /\ IF phase = "setup" /\ s = setup
     THEN /\ phase' = "retry"
          /\ setup' = setup - 1
          /\ rbac' = Left
          /\ watching' = (watching \ {s}) \cup {Left}
          /\ wrapper' = IF wrapper = s THEN Left ELSE wrapper
          /\ driver' = None
     ELSE UNCHANGED <<phase, setup, rbac, watching, wrapper, driver>>
  /\ UNCHANGED <<enabled, running, waiting, held, port, conns, mobile, overtaken, counts>>

\* async_start returns, its question about forwarded addresses answered.
NoteProxy(s) ==
  /\ s \in starting /\ proxy[s] = "serving"
  /\ held' = held \cup {s}
  /\ starting' = starting \ {s}
  /\ IF phase = "setup" /\ s = setup
     THEN phase' = "loaded" /\ driver' = None
     ELSE UNCHANGED <<phase, driver>>
  /\ UNCHANGED <<enabled, running, setup, rbac, waiting, proxy, tries, port, conns,
                 guard, overtaken, counts>>

-------------------------------------------------------------------------------
(* Unload. *)

\* async_unload_entry, as far as the proxy: in a reload or on disabling, perhaps
\* on behalf of a request that comes through this very proxy.
Unload(reload) ==
  /\ phase = "loaded" /\ reloads < MaxReloads
  /\ reloads' = reloads + 1
  /\ enabled' = reload
  /\ rbac' = None
  /\ waiting' = FALSE
  /\ Undone
  /\ phase' = IF setup \in held THEN "unload" ELSE "unloaded"
  /\ \/ driver' = None
     \/ setup \in held /\ conns[setup] > 0 /\ driver' = setup
  /\ overtaken' = (overtaken \/ setup \in starting)
  /\ UNCHANGED <<running, setup, listener, conns, mobile, foreign>>

\* Wrong: the runner is cleaned up before the unload goes on, and when that is
\* cancelled at its timeout the socket stays open.
StopDrains ==
  /\ phase = "unload"
  /\ phase' = "unloaded"
  /\ port' = IF conns[setup] = 0 THEN None ELSE port
  /\ proxy' = [proxy EXCEPT ![setup] = "draining"]
  /\ driver' = IF enabled THEN driver ELSE None
  /\ UNCHANGED <<enabled, running, setup, rbac, waiting, starting, tries, held, conns,
                 guard, overtaken, counts>>

\* async_stop: the socket is closed, the rest left to _drain.
Stop ==
  /\ phase = "unload"
  /\ phase' = "unloaded"
  /\ port' = None
  /\ proxy' = [proxy EXCEPT ![setup] = "draining"]
  /\ driver' = IF enabled THEN driver ELSE None
  /\ UNCHANGED <<enabled, running, setup, rbac, waiting, starting, tries, held, conns,
                 guard, overtaken, counts>>

\* Wrong: the drain waits for as long as anybody stays.
DrainWaits(s) ==
  /\ proxy[s] = "draining" /\ conns[s] = 0
  /\ proxy' = [proxy EXCEPT ![s] = "closed"]
  /\ UNCHANGED <<entry, starting, tries, held, port, traffic, guard, overtaken, counts>>

\* _drain: everybody has gone or SHUTDOWN_DRAIN is over, and closing the session
\* ends what is left.
Drain(s) ==
  /\ proxy[s] = "draining"
  /\ proxy' = [proxy EXCEPT ![s] = "closed"]
  /\ conns' = [conns EXCEPT ![s] = 0]
  /\ driver' = IF driver = s THEN None ELSE driver
  /\ UNCHANGED <<entry, starting, tries, held, port, guard, overtaken, counts>>

\* An entry waiting for its retry is disabled without being unloaded.
DisableRetry ==
  /\ phase = "retry" /\ reloads < MaxReloads
  /\ reloads' = reloads + 1
  /\ phase' = "unloaded" /\ enabled' = FALSE
  /\ UNCHANGED <<running, setup, rbac, waiting, listener, traffic, guard, overtaken, foreign>>

Enable ==
  /\ ~enabled /\ phase = "unloaded"
  /\ enabled' = TRUE
  /\ UNCHANGED <<phase, running, setup, rbac, waiting, listener, traffic, guard, overtaken, counts>>

-------------------------------------------------------------------------------
(* Requests, and others on the port. *)

Arrives(s) ==
  /\ port = s /\ conns[s] < MaxConns
  /\ conns' = [conns EXCEPT ![s] = @ + 1]
  /\ UNCHANGED <<entry, listener, driver, guard, overtaken, counts>>

\* The request that asked for the reload is answered when that is done.
Answered(s) ==
  /\ conns[s] > IF driver = s THEN 1 ELSE 0
  /\ conns' = [conns EXCEPT ![s] = @ - 1]
  /\ UNCHANGED <<entry, listener, driver, guard, overtaken, counts>>

OtherTakes ==
  /\ port = None /\ foreign < MaxForeign
  /\ foreign' = foreign + 1
  /\ port' = Other
  /\ UNCHANGED <<entry, starting, proxy, tries, held, traffic, guard, overtaken, reloads>>

OtherLetsGo ==
  /\ port = Other
  /\ port' = None
  /\ UNCHANGED <<entry, starting, proxy, tries, held, traffic, guard, overtaken, counts>>

-------------------------------------------------------------------------------
\* A process: nothing is loaded, and Home Assistant may have started before the
\* entry was added.
Init ==
  /\ phase = "unloaded" /\ enabled = TRUE /\ running \in BOOLEAN
  /\ setup = 0 /\ rbac = None /\ waiting = FALSE
  /\ starting = {} /\ held = {} /\ port = None
  /\ proxy = [s \in Setups |-> "none"] /\ tries = [s \in Setups |-> 0]
  /\ conns = [s \in Setups |-> 0] /\ driver = None
  /\ mobile \in BOOLEAN /\ watching = {} /\ wrapper = None
  /\ overtaken = FALSE /\ reloads = 0 /\ foreign = 0

Starts(s) == Bind(s) \/ BindAgain(s) \/ BindFails(s) \/ NoteProxy(s)

Next ==
  \/ Setup \/ Started \/ Stop \/ DisableRetry \/ Enable
  \/ \E reload \in BOOLEAN : Unload(reload)
  \/ \E s \in Setups : Starts(s) \/ Drain(s) \/ Arrives(s) \/ Answered(s)
  \/ MobileAppLoads \/ OtherTakes \/ OtherLetsGo

Spec == Init /\ [][Next]_vars

\* The event loop goes on, Home Assistant retries a setup, the drain has a
\* timeout and others do not keep the port; no client need ever hang up.
FairSpec ==
  /\ Spec
  /\ WF_vars(Setup) /\ WF_vars(Stop) /\ WF_vars(OtherLetsGo)
  /\ \A s \in Setups : WF_vars(Starts(s)) /\ WF_vars(Drain(s))

-------------------------------------------------------------------------------
(* Properties. *)

\* A setup made while Home Assistant runs ends with its own listener on the
\* port, though the request that asked for it comes through the listener being
\* stopped, and though the port was taken for a while (async_stop,
\* _bind_with_retry, ConfigEntryNotReady); unless the entry is disabled, or a
\* listener that nobody stops is left over.
ServesAgain ==
  phase = "setup" ~> (phase = "loaded" /\ port = setup) \/ ~enabled \/ overtaken

\* A connection made before a reload, judged by the rules of then, does not
\* outlast it, however long the client would stay (_drain).
OldConnectionsEnd ==
  \A s \in Setups : (conns[s] > 0 /\ proxy[s] # "serving") ~> conns[s] = 0

\* While the entry is loaded the webhook commands of a phone are judged, and by
\* the roles of this setup, whatever was loaded first and whatever failed
\* setups, unloads and reloads came before (_Guard, hass.data[DATA_RBAC]).
GuardedWhileLoaded ==
  phase = "loaded" => rbac = setup /\ (mobile => wrapper # None)

\* Whoever answers on the port judges by the roles of the entry as it is loaded,
\* and an entry that is not loaded answers nothing: "a connection left on it
\* indefinitely would go on being judged against the configuration that has just
\* been replaced" (async_stop).
LoadedRulesJudge == port \in Setups => phase = "unload" \/ port = rbac
=============================================================================
