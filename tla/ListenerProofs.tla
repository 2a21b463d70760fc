--------------------------- MODULE ListenerProofs ---------------------------
(***************************************************************************)
(* What holds of the listener and the guard for any number of reloads,     *)
(* failed setups, bind attempts and requests.                              *)
(***************************************************************************)
EXTENDS Listener, WellFoundedInduction, TLAPS

\* A setup has one number, and every number a setup, as long as reloads are left.
Numbered ==
  /\ phase \in {"setup", "loaded"} => setup \in 1..(reloads + 1)
  /\ phase = "unload" => setup \in 1..reloads
  /\ phase \in {"unloaded", "retry"} => setup \in 0..reloads
  /\ \A s \in Setups : s > setup => proxy[s] = "none" /\ s \notin held

\* Until Home Assistant has started, nothing listens; and the setup that waits
\* for that has yet to begin.
Awaited ==
  /\ ~running => /\ starting = {} /\ held = {}
                 /\ \A s \in Setups : proxy[s] = "none"
                 /\ phase \in {"loaded", "unloaded"}
  /\ waiting => phase = "loaded"

\* A proxy serves where it has the port; it is being started before it is held,
\* and an unload under way has the one it is to stop.
Serving ==
  /\ phase = "setup" => setup \in starting
  /\ \A s \in starting : proxy[s] \in {"new", "serving"} /\ s \notin held
  /\ \A s \in Setups : proxy[s] = "serving" <=> port = s
  /\ \A s \in Setups : proxy[s] = "serving" => s \in starting \cup held
  /\ phase \in {"setup", "loaded", "unload"} /\ setup \in held => proxy[setup] = "serving"
  /\ phase = "unload" => setup \in held

\* The guard of the setup under way or loaded watches for mobile_app, and once
\* that is loaded somebody's guard is around its commands.
Guarded ==
  phase \in {"setup", "loaded"} =>
    /\ rbac = setup /\ setup \in watching
    /\ mobile => wrapper # None

\* Unless an unload overtook the started event, only the last setup starts a
\* listener or has one, and only while its entry is there.
Orderly ==
  \/ overtaken
  \/ \A s \in Setups : s \in starting \/ proxy[s] = "serving" =>
       s = setup /\ phase \in {"setup", "loaded", "unload"}

Inductive == TypeOK /\ Numbered /\ Awaited /\ Serving /\ Guarded /\ Orderly

-------------------------------------------------------------------------------
LEMMA InductiveInit == Init => Inductive
<1> SUFFICES ASSUME Init PROVE Inductive
  OBVIOUS
<1> USE ListenerAssumption DEF Init, Setups, None, Left, Other
<1>1. TypeOK
  <2>1. enabled \in BOOLEAN /\ running \in BOOLEAN /\ waiting \in BOOLEAN
    OBVIOUS
  <2>2. setup \in 0..(MaxReloads + 1) /\ reloads \in 0..MaxReloads
    OBVIOUS
  <2>3. QED BY <2>1, <2>2 DEF TypeOK
<1>2. Numbered /\ Awaited /\ Serving /\ Guarded /\ Orderly
  BY DEF Numbered, Awaited, Serving, Guarded, Orderly
<1>3. QED BY <1>1, <1>2 DEF Inductive

\* Guards are told in an order that has a first.
LEMMA FirstToldWatches ==
  ASSUME TypeOK, watching # {}
  PROVE  (CHOOSE s \in watching : \A t \in watching : s <= t) \in watching
<1> SUFFICES \E s \in watching : \A t \in watching : s <= t
  OBVIOUS
<1>1. watching \subseteq Nat \cup {-1}
  BY ListenerAssumption DEF TypeOK, Setups, Left
<1>2. CASE -1 \in watching
  BY <1>1, <1>2
<1>3. CASE -1 \notin watching
  <2> DEFINE Less == OpToRel(<, Nat)
  <2>1. PICK s \in watching : \A t \in watching : <<t, s>> \notin Less
    <3>1. watching \subseteq Nat
      BY <1>1, <1>3
    <3>2. IsWellFoundedOn(Less, Nat)
      BY NatLessThanWellFounded
    <3>3. QED BY <3>1, <3>2, WFMin
  <2>2. \A t \in watching : ~(t < s)
    BY <1>1, <1>3, <2>1 DEF OpToRel
  <2>3. QED BY <1>1, <1>3, <2>2
<1>4. QED BY <1>2, <1>3

\* A proxy that is made is new, and nobody else's is touched.
LEMMA BegunMakesNew ==
  ASSUME Inductive, NEW s \in Setups, proxy[s] = "none", s \notin held, Begun(s)
  PROVE  /\ starting' = starting \cup {s} /\ UNCHANGED <<held, port>>
         /\ proxy' \in [Setups -> {"none", "new", "serving", "draining", "closed"}]
         /\ tries' \in [Setups -> 0..(BindRetries - 1)]
         /\ proxy'[s] = "new" /\ \A t \in Setups \ {s} : proxy'[t] = proxy[t]
         /\ \A t \in starting' : proxy'[t] \in {"new", "serving"} /\ t \notin held'
         /\ \A t \in Setups : proxy'[t] = "serving" <=> port' = t
         /\ \A t \in Setups : proxy'[t] = "serving" => t \in starting' \cup held'
<1> USE ListenerAssumption DEF Inductive, TypeOK, Begun
<1>1. /\ starting' = starting \cup {s} /\ UNCHANGED <<held, port>>
      /\ proxy' \in [Setups -> {"none", "new", "serving", "draining", "closed"}]
      /\ tries' \in [Setups -> 0..(BindRetries - 1)]
      /\ proxy'[s] = "new" /\ \A t \in Setups \ {s} : proxy'[t] = proxy[t]
  OBVIOUS
<1>2. \A t \in starting' : proxy'[t] \in {"new", "serving"} /\ t \notin held'
  BY <1>1 DEF Serving
<1>3. \A t \in Setups : proxy'[t] = "serving" <=> port' = t
  BY <1>1 DEF Serving
<1>4. \A t \in Setups : proxy'[t] = "serving" => t \in starting' \cup held'
  BY <1>1 DEF Serving
<1>5. QED BY <1>1, <1>2, <1>3, <1>4

-------------------------------------------------------------------------------
(* The induction, one lemma per step. *)

\* A setup takes the next number, of which nothing is left.
LEMMA SetupKeeps ==
  ASSUME Inductive, Setup
  PROVE  Inductive'
<1> USE ListenerAssumption DEF Inductive, Setup, listener, traffic, counts
<1>1. /\ setup' = setup + 1 /\ setup' \in Setups /\ setup' \in 1..(reloads' + 1)
      /\ proxy[setup'] = "none" /\ setup' \notin held
      /\ phase' \in {"setup", "loaded"} /\ setup' \in 0..(MaxReloads + 1)
      /\ setup \in 0..reloads /\ reloads' = reloads /\ reloads \in 0..MaxReloads
  BY DEF TypeOK, Numbered, Setups
<1>2. /\ watching' \subseteq Setups \cup {Left} /\ wrapper' \in watching' \cup {None}
      /\ rbac' = setup' /\ setup' \in watching' /\ mobile' => wrapper' # None
  BY <1>1 DEF TypeOK, Installed, Setups, None
<1>3. enabled' \in BOOLEAN /\ running' \in BOOLEAN /\ waiting' \in BOOLEAN
  BY DEF TypeOK
<1>4. CASE running
  <2>1. phase' = "setup" /\ ~waiting' /\ Begun(setup')
    BY <1>4
  <2>2. TypeOK'
    <3>1. starting' \subseteq Setups /\ held' \subseteq Setups /\ port' \in Setups \cup {None, Other}
      BY <1>1, <2>1, BegunMakesNew DEF TypeOK
    <3>2. /\ conns' \in [Setups -> 0..MaxConns] /\ driver' \in Setups \cup {None}
          /\ rbac' \in Setups \cup {None, Left} /\ reloads' \in 0..MaxReloads
      BY <1>1, <1>2 DEF TypeOK
    <3>3. QED BY <1>1, <1>2, <1>3, <2>1, <3>1, <3>2, BegunMakesNew DEF TypeOK
  <2>3. Numbered'
    <3>1. \A t \in Setups : t > setup' => t \notin held' /\ proxy'[t] = "none"
      BY <1>1, <2>1, BegunMakesNew DEF Numbered, Setups
    <3>2. QED BY <1>1, <2>1, <3>1 DEF Numbered
  <2>4. Serving' /\ Awaited'
    BY <1>1, <1>4, <2>1, BegunMakesNew DEF Serving, Awaited
  <2>5. Orderly'
    BY <1>1, <2>1, BegunMakesNew DEF Orderly
  <2>6. QED BY <1>1, <1>2, <2>2, <2>3, <2>4, <2>5 DEF Guarded
<1>5. CASE ~running
  <2>1. phase' = "loaded" /\ UNCHANGED <<starting, proxy, tries, held, port>>
    BY <1>5
  <2>2. TypeOK'
    BY <1>1, <1>2, <1>3, <2>1 DEF TypeOK
  <2>3. Numbered'
    BY <1>1, <2>1 DEF Numbered, Setups
  <2>4. Serving' /\ Awaited' /\ Orderly'
    BY <1>1, <1>5, <2>1 DEF Serving, Awaited, Orderly
  <2>5. QED BY <1>1, <1>2, <2>2, <2>3, <2>4 DEF Guarded
<1>6. QED BY <1>4, <1>5

\* The started event begins what the last setup put off.
LEMMA StartedKeeps ==
  ASSUME Inductive, Started
  PROVE  Inductive'
<1> USE ListenerAssumption DEF Inductive, Started, listener, traffic, guard, counts
<1>1. Numbered' /\ Guarded'
  BY DEF Numbered, Guarded, Awaited, Begun, TypeOK, Setups
<1>2. running' = TRUE /\ waiting' = FALSE /\ Awaited'
  BY DEF Awaited
<1>3. CASE waiting
  <2>1. /\ phase = "loaded" /\ setup \in Setups /\ proxy[setup] = "none"
        /\ setup \notin held /\ Begun(setup)
    BY <1>3 DEF Awaited, Numbered, TypeOK, Setups
  <2>2. TypeOK'
    BY <1>2, <2>1, BegunMakesNew DEF TypeOK
  <2>3. Serving' /\ Orderly'
    BY <2>1, BegunMakesNew DEF Serving, Orderly, Awaited
  <2>4. QED BY <1>1, <1>2, <2>2, <2>3
<1>4. CASE ~waiting
  <2>1. UNCHANGED <<starting, proxy, tries, held, port, phase, setup>>
    BY <1>4
  <2>2. TypeOK'
    BY <1>2, <2>1 DEF TypeOK
  <2>3. Serving' /\ Orderly'
    BY <2>1 DEF Serving, Orderly
  <2>4. QED BY <1>1, <1>2, <2>2, <2>3
<1>5. QED BY <1>3, <1>4

\* The port is free, so nobody serves.
LEMMA BindKeeps ==
  ASSUME Inductive, NEW s \in Setups, Bind(s)
  PROVE  Inductive'
<1> USE ListenerAssumption DEF Inductive, Bind, entry, listener, traffic, guard, counts
<1>1. TypeOK'
  BY DEF TypeOK, Setups, None, Left, Other
<1>2. Numbered'
  BY DEF TypeOK, Numbered, Setups, None, Left, Other
<1>3. Awaited'
  BY DEF TypeOK, Awaited, Setups, None, Left, Other
<1>4. Serving'
  BY DEF TypeOK, Serving, Setups, None, Left, Other
<1>5. Guarded'
  BY DEF TypeOK, Guarded, Setups, None, Left, Other
<1>6. Orderly'
  BY DEF TypeOK, Orderly, Setups, None, Left, Other
<1>7. QED BY <1>1, <1>2, <1>3, <1>4, <1>5, <1>6

\* A bind that failed and is tried again.
LEMMA BindAgainKeeps ==
  ASSUME Inductive, NEW s \in Setups, BindAgain(s)
  PROVE  Inductive'
<1> USE ListenerAssumption DEF Inductive, BindAgain, entry, listener, traffic, guard, counts
<1>1. TypeOK'
  BY DEF TypeOK, Setups, None, Left, Other
<1>2. Numbered'
  BY DEF TypeOK, Numbered, Setups, None, Left, Other
<1>3. Awaited'
  BY DEF TypeOK, Awaited, Setups, None, Left, Other
<1>4. Serving'
  BY DEF TypeOK, Serving, Setups, None, Left, Other
<1>5. Guarded'
  BY DEF TypeOK, Guarded, Setups, None, Left, Other
<1>6. Orderly'
  BY DEF TypeOK, Orderly, Setups, None, Left, Other
<1>7. QED BY <1>1, <1>2, <1>3, <1>4, <1>5, <1>6

\* A setup that fails gives its number back.
LEMMA BindFailsKeeps ==
  ASSUME Inductive, NEW s \in Setups, BindFails(s)
  PROVE  Inductive'
<1> USE ListenerAssumption DEF Inductive, BindFails, guard
<1>1. /\ starting' = starting \ {s} /\ UNCHANGED <<held, port, conns, reloads, overtaken>>
      /\ proxy' \in [Setups -> {"none", "new", "serving", "draining", "closed"}]
      /\ proxy[s] = "new" /\ s \notin held /\ proxy'[s] = "none"
      /\ \A t \in Setups \ {s} : proxy'[t] = proxy[t]
      /\ tries' \in [Setups -> 0..(BindRetries - 1)]
  BY DEF TypeOK, Serving, counts
<1>2. enabled' \in BOOLEAN /\ running' \in BOOLEAN /\ waiting' \in BOOLEAN
  BY DEF TypeOK
<1>3. Awaited'
  BY <1>1 DEF Awaited
<1>4. CASE phase = "setup" /\ s = setup
  <2>1. /\ phase' = "retry" /\ setup' = setup - 1 /\ setup' \in 0..reloads /\ rbac' = Left
        /\ setup' \in 0..(MaxReloads + 1) /\ driver' = None
    BY <1>4 DEF Numbered, TypeOK
  <2>2. watching' \subseteq Setups \cup {Left} /\ wrapper' \in watching' \cup {None}
    <3>1. /\ watching' = (watching \ {s}) \cup {Left}
          /\ wrapper' = IF wrapper = s THEN Left ELSE wrapper
      BY <1>4
    <3>2. QED BY ONLY <3>1, TypeOK DEF TypeOK
  <2>3. TypeOK'
    BY <1>1, <1>2, <2>1, <2>2 DEF TypeOK
  <2>4. Numbered'
    <3>1. \A t \in Setups : t > setup - 1 => t = s \/ t > setup
      BY <1>4 DEF TypeOK, Setups
    <3>2. QED BY <1>1, <2>1, <3>1 DEF Numbered
  <2>5. Serving' /\ Guarded' /\ Orderly'
    BY <1>1, <1>4, <2>1 DEF Serving, Guarded, Orderly
  <2>6. QED BY <1>3, <2>3, <2>4, <2>5
<1>5. CASE ~(phase = "setup" /\ s = setup)
  <2>1. UNCHANGED <<phase, setup, rbac, watching, wrapper, driver, mobile>>
    BY <1>5
  <2>2. TypeOK'
    BY <1>1, <1>2, <2>1 DEF TypeOK
  <2>3. Numbered' /\ Guarded' /\ Orderly'
    BY <1>1, <2>1 DEF Numbered, Guarded, Orderly
  <2>4. Serving'
    BY <1>1, <1>5, <2>1 DEF Serving
  <2>5. QED BY <1>3, <2>2, <2>3, <2>4
<1>6. QED BY <1>4, <1>5

\* The listener of a setup is there.
LEMMA NoteProxyKeeps ==
  ASSUME Inductive, NEW s \in Setups, NoteProxy(s)
  PROVE  Inductive'
<1> USE ListenerAssumption DEF Inductive, NoteProxy, entry, listener, traffic, guard, counts
<1>1. TypeOK'
  BY DEF TypeOK, Setups, None, Left, Other
<1>2. Numbered'
  BY DEF TypeOK, Numbered, Setups, None, Left, Other
<1>3. Awaited'
  BY DEF TypeOK, Awaited, Setups, None, Left, Other
<1>4. Serving'
  BY DEF TypeOK, Serving, Setups, None, Left, Other
<1>5. Guarded'
  BY DEF TypeOK, Guarded, Setups, None, Left, Other
<1>6. Orderly'
  BY DEF TypeOK, Orderly, Setups, None, Left, Other
<1>7. QED BY <1>1, <1>2, <1>3, <1>4, <1>5, <1>6

\* An unload under way has the proxy it is to stop, and one that has none to
\* stop leaves none behind unless it overtook it.
LEMMA UnloadKeeps ==
  ASSUME Inductive, NEW reload \in BOOLEAN, Unload(reload)
  PROVE  Inductive'
<1> USE ListenerAssumption DEF Inductive, Unload, Undone, listener
<1>1. /\ UNCHANGED <<starting, proxy, tries, held, port, setup, running, conns, mobile>>
      /\ reloads' = reloads + 1 /\ reloads' \in 0..MaxReloads /\ rbac' = None
      /\ phase' = IF setup \in held THEN "unload" ELSE "unloaded"
      /\ setup \in 1..reloads' /\ setup \in Setups /\ phase = "loaded"
  BY DEF TypeOK, Numbered, Setups
<1>2. enabled' \in BOOLEAN /\ running' \in BOOLEAN /\ waiting' = FALSE
  BY DEF TypeOK
<1>3. /\ watching' \subseteq Setups \cup {Left} /\ wrapper' \in watching' \cup {None}
      /\ driver' \in Setups \cup {None}
  BY <1>1 DEF TypeOK
<1>4. TypeOK'
  BY <1>1, <1>2, <1>3 DEF TypeOK
<1>5. Numbered' /\ Guarded' /\ Serving'
  BY <1>1 DEF Numbered, Guarded, Serving
<1>6. Awaited'
  BY <1>1, <1>2 DEF Awaited
<1>7. Orderly'
  <2>1. CASE overtaken \/ setup \in starting
    BY <2>1 DEF Orderly
  <2>2. CASE ~overtaken /\ setup \notin starting
    <3>1. \A t \in Setups : t \in starting \/ proxy[t] = "serving" => t = setup /\ setup \in held
      BY <2>2 DEF Orderly, Serving
    <3>2. QED BY <1>1, <3>1 DEF Orderly
  <2>3. QED BY <2>1, <2>2
<1>8. QED BY <1>4, <1>5, <1>6, <1>7

\* The proxy that is stopped is the one on the port.
LEMMA StopKeeps ==
  ASSUME Inductive, Stop
  PROVE  Inductive'
<1> USE ListenerAssumption DEF Inductive, Stop, entry, listener, traffic, guard, counts
<1>1. TypeOK'
  BY DEF TypeOK, Setups, None, Left, Other
<1>2. Numbered'
  BY DEF TypeOK, Numbered, Setups, None, Left, Other
<1>3. Awaited'
  BY DEF TypeOK, Awaited, Setups, None, Left, Other
<1>4. Serving'
  BY DEF TypeOK, Serving, Setups, None, Left, Other
<1>5. Guarded'
  BY DEF TypeOK, Guarded, Setups, None, Left, Other
<1>6. Orderly'
  <2>1. /\ setup \in held /\ setup \notin starting /\ overtaken' = overtaken
        /\ \A t \in Setups : proxy'[t] = "serving" => t # setup /\ proxy[t] = "serving"
    BY DEF Serving, TypeOK, Numbered
  <2>2. QED BY <2>1 DEF Orderly
<1>7. QED BY <1>1, <1>2, <1>3, <1>4, <1>5, <1>6

\* A proxy that drains has left the port.
LEMMA DrainKeeps ==
  ASSUME Inductive, NEW s \in Setups, Drain(s)
  PROVE  Inductive'
<1> USE ListenerAssumption DEF Inductive, Drain, entry, listener, traffic, guard, counts
<1>1. TypeOK'
  BY DEF TypeOK, Setups, None, Left, Other
<1>2. Numbered'
  BY DEF TypeOK, Numbered, Setups, None, Left, Other
<1>3. Awaited'
  BY DEF TypeOK, Awaited, Setups, None, Left, Other
<1>4. Serving'
  BY DEF TypeOK, Serving, Setups, None, Left, Other
<1>5. Guarded'
  BY DEF TypeOK, Guarded, Setups, None, Left, Other
<1>6. Orderly'
  BY DEF TypeOK, Orderly, Setups, None, Left, Other
<1>7. QED BY <1>1, <1>2, <1>3, <1>4, <1>5, <1>6

\* Whoever is told first that mobile_app is loaded wraps its commands.
LEMMA MobileAppLoadsKeeps ==
  ASSUME Inductive, MobileAppLoads
  PROVE  Inductive'
<1> USE DEF Inductive, MobileAppLoads, entry, listener, traffic, counts
<1>1. wrapper' \in watching \cup {None} /\ (watching # {} => wrapper' # None)
  <2> DEFINE first == CHOOSE s \in watching : \A t \in watching : s <= t
  <2>1. watching # {} => first \in watching /\ first # None
    <3>1. watching # {} => first \in watching
      BY FirstToldWatches
    <3>2. None \notin watching
      BY ListenerAssumption DEF TypeOK, Setups, None, Left
    <3> HIDE DEF first
    <3>3. QED BY <3>1, <3>2
  <2>2. watching # {} => wrapper' = IF wrapper = None THEN first ELSE wrapper
    BY DEF Installed
  <2>3. QED BY <2>1, <2>2 DEF TypeOK
<1>2. TypeOK'
  BY <1>1 DEF TypeOK
<1>3. Guarded'
  BY <1>1 DEF Guarded
<1>4. Numbered' /\ Awaited' /\ Serving' /\ Orderly'
  BY DEF Numbered, Awaited, Serving, Orderly
<1>5. QED BY <1>2, <1>3, <1>4

\* An entry that waits for its retry has no listener to leave behind.
LEMMA EntryKeeps ==
  ASSUME Inductive, DisableRetry \/ Enable
  PROVE  Inductive'
<1> USE ListenerAssumption DEF Inductive, listener, traffic, guard, counts
<1>1. CASE DisableRetry
  <2>1. /\ phase = "retry" /\ phase' = "unloaded" /\ reloads' = reloads + 1 /\ reloads' \in 0..MaxReloads
        /\ UNCHANGED <<running, setup, rbac, waiting, listener, traffic, guard, overtaken>>
    BY <1>1 DEF DisableRetry, TypeOK
  <2>2. enabled' \in BOOLEAN
    BY <1>1 DEF DisableRetry
  <2>3. TypeOK'
    BY <2>1, <2>2 DEF TypeOK
  <2>4. Numbered' /\ Awaited' /\ Serving' /\ Guarded' /\ Orderly'
    BY <2>1 DEF Numbered, Awaited, Serving, Guarded, Orderly, TypeOK
  <2>5. QED BY <2>3, <2>4
<1>2. CASE Enable
  <2>1. UNCHANGED <<phase, running, setup, rbac, waiting, listener, traffic, guard, overtaken, counts>>
    BY <1>2 DEF Enable
  <2>2. enabled' \in BOOLEAN
    BY <1>2 DEF Enable
  <2>3. TypeOK'
    BY <2>1, <2>2 DEF TypeOK
  <2>4. Numbered' /\ Awaited' /\ Serving' /\ Guarded' /\ Orderly'
    BY <2>1 DEF Numbered, Awaited, Serving, Guarded, Orderly
  <2>5. QED BY <2>3, <2>4
<1>3. QED BY <1>1, <1>2

\* Requests touch nothing but their number, and what others do with the port
\* nothing but that.
LEMMA TrafficKeeps ==
  ASSUME Inductive,
         \/ \E s \in Setups : Arrives(s) \/ Answered(s)
         \/ OtherTakes \/ OtherLetsGo
         \/ UNCHANGED vars
  PROVE  Inductive'
<1> USE ListenerAssumption DEF Inductive
<1>1. CASE \E s \in Setups : Arrives(s) \/ Answered(s)
  <2>1. PICK s \in Setups : Arrives(s) \/ Answered(s)
    BY <1>1
  <2>2. UNCHANGED <<entry, listener, driver, guard, overtaken, counts>>
    BY <2>1 DEF Arrives, Answered
  <2>3. conns' \in [Setups -> 0..MaxConns]
    <3>1. /\ conns[s] \in 0..MaxConns
          /\ \/ conns[s] < MaxConns /\ conns' = [conns EXCEPT ![s] = @ + 1]
             \/ conns[s] > 0 /\ conns' = [conns EXCEPT ![s] = @ - 1]
      BY <2>1 DEF Arrives, Answered, TypeOK
    <3>2. QED BY <3>1 DEF TypeOK
  <2>4. TypeOK'
    BY <2>2, <2>3 DEF TypeOK, entry, listener, guard, counts
  <2>5. Numbered' /\ Awaited' /\ Serving' /\ Guarded' /\ Orderly'
    BY <2>2 DEF Numbered, Awaited, Serving, Guarded, Orderly, entry, listener, guard, counts
  <2>6. QED BY <2>4, <2>5
<1>2. CASE OtherTakes \/ OtherLetsGo
  <2>1. /\ UNCHANGED <<entry, starting, proxy, tries, held, traffic, guard, overtaken, reloads>>
        /\ port \notin Setups /\ port' \in {None, Other} /\ port' \notin Setups
    BY <1>2 DEF OtherTakes, OtherLetsGo, Setups, None, Other, counts
  <2>2. TypeOK'
    BY <2>1 DEF TypeOK, entry, traffic, guard
  <2>3. Numbered' /\ Awaited' /\ Serving' /\ Guarded' /\ Orderly'
    BY <2>1 DEF Numbered, Awaited, Serving, Guarded, Orderly, entry, guard
  <2>4. QED BY <2>2, <2>3
<1>3. CASE UNCHANGED vars
  <2>1. TypeOK'
    BY <1>3 DEF TypeOK, vars, entry, listener, traffic, guard, counts
  <2>2. Numbered' /\ Awaited' /\ Serving' /\ Guarded' /\ Orderly'
    BY <1>3 DEF Numbered, Awaited, Serving, Guarded, Orderly, vars, entry, listener, guard, counts
  <2>3. QED BY <2>1, <2>2
<1>4. QED BY <1>1, <1>2, <1>3

LEMMA InductiveStep == Inductive /\ [Next]_vars => Inductive'
  BY SetupKeeps, StartedKeeps, BindKeeps, BindAgainKeeps, BindFailsKeeps, NoteProxyKeeps,
     UnloadKeeps, StopKeeps, DrainKeeps, MobileAppLoadsKeeps, EntryKeeps, TrafficKeeps
     DEF Next, Starts

LEMMA AlwaysInductive == Spec => []Inductive
  BY InductiveInit, InductiveStep, PTL DEF Spec

-------------------------------------------------------------------------------
(* Theorems. *)

\* Every variable keeps its type: no port is tried once too often, and reloads
\* and setups keep step.
THEOREM TypeCorrect == Spec => []TypeOK
  BY AlwaysInductive, PTL DEF Inductive

\* While the entry is loaded phones are judged, and by its rules, whatever order
\* mobile_app, failed setups, unloads and reloads came in (_Guard).
THEOREM PhonesAreGuarded == Spec => []GuardedWhileLoaded
<1>1. Inductive => GuardedWhileLoaded
  BY DEF Inductive, Guarded, GuardedWhileLoaded
<1>2. QED BY <1>1, AlwaysInductive, PTL

\* The one way for rules of before to go on answering is the unload that
\* overtakes the started event: as long as that has not happened, whoever is on
\* the port judges by the roles loaded, and an entry that is not loaded has
\* nobody there (async_unload_entry, _start_proxy_later).
THEOREM OnlyTheStartedEvent == Spec => [](LoadedRulesJudge \/ overtaken)
<1>1. Inductive => LoadedRulesJudge \/ overtaken
  BY DEF Inductive, Serving, Guarded, Orderly, LoadedRulesJudge
<1>2. QED BY <1>1, AlwaysInductive, PTL
=============================================================================
