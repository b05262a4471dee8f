------------------------------ MODULE Gateway -------------------------------
(***************************************************************************)
(* The process of "mqtt-forward gateway": the command (newGatewayCmd in    *)
(* src/internal/cmd/cmd.go), the gateway with one client for each device   *)
(* (src/internal/gateway/gateway.go, RunTCPForwards in client.go) over one *)
(* transport (src/internal/tunnel/transport.go), and the health server     *)
(* (src/internal/health/health.go).                                        *)
(*                                                                         *)
(* The members of a group (xcmd.ErrGroup, a library) run side by side; the *)
(* first error ends the group's context, and Wait returns when all have    *)
(* returned.  The clients are a group inside the command's group.  The     *)
(* connection to the broker is lost while they start, serve or stop, and   *)
(* the event handler closes the sessions of all clients.                   *)
(*                                                                         *)
(* "client tcp" runs the same RunTCPForwards for one device, with forwards *)
(* that ParseAll read, directly in the command's group.                    *)
(***************************************************************************)
EXTENDS Forwards

CONSTANTS Inputs,      \* what the user wrote: records [config, flags]
          MaxConns,    \* connections accepted
          MaxLosses    \* times the connection to the broker is lost

ASSUME GatewayAssumption ==
    /\ MaxConns \in Nat /\ MaxLosses \in Nat
    /\ \A i \in Inputs : /\ i.config \in Seq(Routes)
                         /\ i.flags \in Seq(Seq(Fields))

VARIABLES
    input,
    stage,      \* of the command: "merge", "connect", "build", "run", "exited"
    plan,       \* the routes the gateway was given
    outer,      \* the context of the command's group: "live" or "ended"
    inner,      \* the context of the clients' group
    clients,    \* Gateway.clients, by device
    launching,  \* the device, if any, whose client was appended but not started yet
    phase,      \* where each client stands in RunTCPForwards
    router,     \* the filters registered in the transport's router
    todo,       \* the filters each client's SubscribeAll still has to subscribe
    broker,     \* the filters subscribed at the broker
    open,       \* the addresses listened on
    conns,      \* the accepted connections that are not closed; at: is the session in its
                \* client's map; old: it was there when the connection was last lost
    gw,         \* gw.Run: "runs" or "ended"
    health,     \* the health server: "off", "start", "serving" or "ended"
    losses,     \* times the connection to the broker was lost
    event,      \* its event handler: "none", "pending" or "closing"
    toClose,    \* the clients whose sessions it still has to close
    emptying    \* the client, if any, whose map its CloseAll has yet to replace

config  == <<input, plan>>
wires   == <<router, todo, broker>>
lost    == <<losses, event, toClose, emptying>>
vars    == <<input, stage, plan, outer, inner, clients, launching, phase, router, todo,
             broker, open, conns, gw, health, losses, event, toClose, emptying>>

AllDevices == UNION {Devices(i.config) \cup {FieldOf(i.flags[k], "device") : k \in DOMAIN i.flags} :
                        i \in Inputs}
FiltersOf(d) == {d} \X {"control", "data"}
Planned == Devices(plan)
Ended == {"none", "done", "failed"}

TypeOK ==
    /\ input \in Inputs
    /\ stage \in {"merge", "connect", "build", "run", "exited"}
    /\ Planned \subseteq AllDevices
    /\ outer \in {"live", "ended"} /\ inner \in {"live", "ended"}
    /\ outer = "ended" => inner = "ended"
    /\ clients \subseteq Planned /\ launching \subseteq clients
    /\ phase \in [AllDevices -> Ended \cup {"new", "registered", "subscribing", "listening",
                                            "serving", "draining", "emptying"}]
    /\ router \subseteq UNION {FiltersOf(d) : d \in clients}
    /\ todo \in [AllDevices -> SUBSET router]
    /\ broker \subseteq router
    /\ open \subseteq Listens(plan)
    /\ conns \subseteq [id : 1..MaxConns, route : {plan[i] : i \in DOMAIN plan},
                        at : {"handler", "map", "nowhere"}, old : BOOLEAN]
    /\ gw \in {"runs", "ended"} /\ health \in {"off", "start", "serving", "ended"}
    /\ losses \in 0..MaxLosses /\ event \in {"none", "pending", "closing"}
    /\ toClose \subseteq clients /\ emptying \subseteq clients

Init ==
    /\ input \in Inputs /\ health \in {"off", "start"}
    /\ stage = "merge" /\ plan = <<>>
    /\ outer = "live" /\ inner = "live"
    /\ clients = {} /\ launching = {}
    /\ phase = [d \in AllDevices |-> "none"]
    /\ router = {} /\ todo = [d \in AllDevices |-> {}] /\ broker = {}
    /\ open = {} /\ conns = {} /\ gw = "runs"
    /\ losses = 0 /\ event = "none" /\ toClose = {} /\ emptying = {}

-----------------------------------------------------------------------------
(* Operators named Mutant... are plausible bugs, kept for mutation testing *)
(* of the properties; the specification does not use them.                 *)

(* The command.  The routes are merged before it connects, and checked     *)
(* when the gateway is built; each failure ends it.                        *)

ReadRoutes ==
    /\ stage = "merge"
    /\ IF ParseRouteFlags(input.flags) = {}
       THEN stage' = "exited" /\ UNCHANGED plan
       ELSE /\ stage' = "connect"
            /\ \E routes \in ParseRouteFlags(input.flags) : plan' = Merge(input.config, routes)
    /\ UNCHANGED <<input, outer, inner, clients, launching, phase, wires, open, conns, gw,
                   health, lost>>

Connect ==
    /\ stage = "connect"
    /\ stage' \in {"build", "exited"}
    /\ UNCHANGED <<config, outer, inner, clients, launching, phase, wires, open, conns, gw,
                   health, lost>>

Build ==
    /\ stage = "build"
    /\ stage' = (IF Acceptable(plan) THEN "run" ELSE "exited")
    /\ UNCHANGED <<config, outer, inner, clients, launching, phase, wires, open, conns, gw,
                   health, lost>>

EndOuter == outer' = "ended" /\ inner' = "ended"

(* WaitInterrupted returns an error when the process is told to stop.      *)
Interrupt ==
    /\ stage = "run" /\ outer = "live"
    /\ EndOuter
    /\ UNCHANGED <<config, stage, clients, launching, phase, wires, open, conns, gw,
                   health, lost>>

(* Wait returns, and the process ends with the connections it still has.   *)
Exit ==
    /\ stage = "run"
    /\ outer = "ended" /\ gw = "ended" /\ health \in {"off", "ended"}
    /\ stage' = "exited" /\ conns' = {}
    /\ UNCHANGED <<config, outer, inner, clients, launching, phase, wires, open, gw,
                   health, lost>>

(* health.Run: listen, serve until the context ends or Serve fails.        *)
HealthListens ==
    /\ stage = "run" /\ health = "start"
    /\ \/ health' = "serving" /\ UNCHANGED <<outer, inner>>
       \/ health' = "ended" /\ EndOuter
    /\ UNCHANGED <<config, stage, clients, launching, phase, wires, open, conns, gw, lost>>

HealthEnds ==
    /\ stage = "run" /\ health = "serving"
    /\ health' = "ended" /\ EndOuter
    /\ UNCHANGED <<config, stage, clients, launching, phase, wires, open, conns, gw, lost>>

HealthStops == HealthEnds /\ outer = "ended"

-----------------------------------------------------------------------------
(* Gateway.Run: each client is appended to g.clients, under the mutex,     *)
(* before it is started.  The devices come in any order (a Go map).        *)

AppendClient(d) ==
    /\ stage = "run" /\ launching = {}
    /\ d \in Planned \ clients
    /\ clients' = clients \cup {d} /\ launching' = {d}
    /\ UNCHANGED <<config, stage, outer, inner, phase, wires, open, conns, gw, health, lost>>

StartClient(d) ==
    /\ d \in launching
    /\ launching' = {} /\ phase' = [phase EXCEPT ![d] = "new"]
    /\ UNCHANGED <<config, stage, outer, inner, clients, wires, open, conns, gw, health, lost>>

(* group.Wait of the clients' group: an error of a client is gw.Run's.     *)
GatewayReturns ==
    /\ stage = "run" /\ gw = "runs"
    /\ clients = Planned /\ launching = {}
    /\ \A d \in Planned : phase[d] \in Ended
    /\ gw' = "ended"
    /\ IF \E d \in Planned : phase[d] = "failed" THEN EndOuter ELSE UNCHANGED <<outer, inner>>
    /\ UNCHANGED <<config, stage, clients, launching, phase, wires, open, conns, health, lost>>

-----------------------------------------------------------------------------
(* A client's RunTCPForwards.                                              *)

Fail(d) == phase' = [phase EXCEPT ![d] = "failed"] /\ inner' = "ended"

(* Client.subscribe hands its two filters to the router, one by one, ...   *)
Register(d) ==
    /\ phase[d] = "new"
    /\ IF <<d, "control">> \notin router
       THEN router' = router \cup {<<d, "control">>} /\ UNCHANGED phase
       ELSE /\ router' = router \cup {<<d, "data">>}
            /\ phase' = [phase EXCEPT ![d] = "registered"]
    /\ UNCHANGED <<config, stage, outer, inner, clients, launching, todo, broker, open,
                   conns, gw, health, lost>>

(* Filters that are registered by nobody yet.                              *)
MutantFilters(d) == UNION {FiltersOf(e) : e \in Planned}

(* Filters another client is about to subscribe are left to it.            *)
MutantOwnFilters(d) == router \ UNION {todo[e] : e \in AllDevices}

FiltersFor(d) == router

(* ... and SubscribeAll subscribes all filters of the shared router, those *)
(* of the other clients included.                                          *)
SubscribeAll(d) ==
    /\ phase[d] = "registered"
    /\ todo' = [todo EXCEPT ![d] = FiltersFor(d)]
    /\ phase' = [phase EXCEPT ![d] = "subscribing"]
    /\ UNCHANGED <<config, stage, outer, inner, clients, launching, router, broker, open,
                   conns, gw, health, lost>>

Subscribe(d) ==
    /\ phase[d] = "subscribing"
    /\ \/ \E f \in todo[d] :
             /\ broker' = broker \cup {f} /\ todo' = [todo EXCEPT ![d] = @ \ {f}]
             /\ UNCHANGED <<phase, inner>>
       \/ todo[d] # {} /\ Fail(d) /\ UNCHANGED <<broker, todo>>
       \/ /\ todo[d] = {}
          /\ phase' = [phase EXCEPT ![d] = "listening"]
          /\ UNCHANGED <<inner, broker, todo>>
    /\ UNCHANGED <<config, stage, outer, clients, launching, router, open, conns, gw,
                   health, lost>>

Own(d) == {plan[i].listen : i \in ForDevice(plan, d)}

(* The addresses in the order of the routes; when one cannot be listened   *)
(* on, those before it are closed again.                                   *)
Listen(d) ==
    LET left == {i \in ForDevice(plan, d) : plan[i].listen \notin open}
    IN  /\ phase[d] = "listening"
        /\ \/ \E i \in left :
                 /\ \A j \in left : i <= j
                 /\ open' = open \cup {plan[i].listen} /\ UNCHANGED <<phase, inner>>
           \/ left # {} /\ open' = open \ Own(d) /\ Fail(d)
           \/ /\ left = {}
              /\ phase' = [phase EXCEPT ![d] = "serving"]
              /\ UNCHANGED <<open, inner>>
        /\ UNCHANGED <<config, stage, outer, clients, launching, wires, conns, gw, health, lost>>

Accept(d) ==
    /\ phase[d] = "serving"
    /\ \E a \in open \cap Own(d), i \in DOMAIN plan, id \in (1..MaxConns) \ {c.id : c \in conns} :
          /\ plan[i].listen = a
          /\ conns' = conns \cup {[id |-> id, route |-> plan[i], at |-> "handler", old |-> FALSE]}
    /\ UNCHANGED <<config, stage, outer, inner, clients, launching, phase, wires, open, gw,
                   health, lost>>

(* handleTCPConn adds the session to its client's manager.                 *)
Manage ==
    /\ \E c \in conns : c.at = "handler" /\ conns' = (conns \ {c}) \cup {[c EXCEPT !.at = "map"]}
    /\ UNCHANGED <<config, stage, outer, inner, clients, launching, phase, wires, open, gw,
                   health, lost>>

(* A session ends by itself, or because its context has ended.             *)
ConnEnds ==
    /\ \E c \in conns : conns' = conns \ {c}
    /\ UNCHANGED <<config, stage, outer, inner, clients, launching, phase, wires, open, gw,
                   health, lost>>

(* SessionManager.CloseAll: close the sessions that are in the map now ... *)
SessionsOf(d) == {c \in conns : c.at = "map" /\ c.route.device = d}
CloseMapped(d) == conns' = conns \ SessionsOf(d)

(* ... and replace the map: what was added meanwhile goes on, but is in    *)
(* nobody's map any more (run sessions_closeall).                          *)
ReplaceMap(d) ==
    conns' = (conns \ SessionsOf(d)) \cup {[c EXCEPT !.at = "nowhere"] : c \in SessionsOf(d)}

(* Only the command's own context is watched.                              *)
MutantContext == outer

Context == inner

(* closeAll when the context has ended; the accept loops end with it ...   *)
StopListening(d) ==
    /\ phase[d] = "serving" /\ Context = "ended"
    /\ open' = open \ Own(d)
    /\ phase' = [phase EXCEPT ![d] = "draining"]
    /\ UNCHANGED <<config, stage, outer, inner, clients, launching, wires, conns, gw,
                   health, lost>>

(* ... and CloseAll ends the sessions.                                     *)
CloseSessions(d) ==
    /\ phase[d] = "draining"
    /\ CloseMapped(d)
    /\ phase' = [phase EXCEPT ![d] = "emptying"]
    /\ UNCHANGED <<config, stage, outer, inner, clients, launching, wires, open, gw,
                   health, lost>>

Return(d) ==
    /\ phase[d] = "emptying"
    /\ ReplaceMap(d)
    /\ phase' = [phase EXCEPT ![d] = "done"]
    /\ UNCHANGED <<config, stage, outer, inner, clients, launching, wires, open, gw,
                   health, lost>>

-----------------------------------------------------------------------------
(* The connection to the broker is lost.  The handler is told later, and   *)
(* calls CloseAllSessions once the gateway has been built.                 *)

LinkLost ==
    /\ stage \in {"build", "run"} /\ event = "none" /\ losses < MaxLosses
    /\ losses' = losses + 1 /\ event' = "pending"
    /\ conns' = {[c EXCEPT !.old = (c.at = "map")] : c \in conns}
    /\ UNCHANGED <<config, stage, outer, inner, clients, launching, phase, wires, open, gw,
                   health, toClose, emptying>>

(* Only clients that serve are closed.                                     *)
MutantClientsToClose == {d \in clients : phase[d] = "serving"}

(* A copy of g.clients, taken under the mutex.                             *)
ClientsToClose == IF stage = "run" THEN clients ELSE {}

CloseAllSessions ==
    /\ stage # "exited" /\ event = "pending"
    /\ toClose' = ClientsToClose
    /\ event' = (IF ClientsToClose = {} THEN "none" ELSE "closing")
    /\ UNCHANGED <<config, stage, outer, inner, clients, launching, phase, wires, open,
                   conns, gw, health, losses, emptying>>

(* One client after the other, in the two steps of CloseAll.               *)
CloseClient ==
    /\ stage # "exited" /\ emptying = {}
    /\ \E d \in toClose :
          /\ CloseMapped(d)
          /\ toClose' = toClose \ {d} /\ emptying' = {d}
    /\ UNCHANGED <<config, stage, outer, inner, clients, launching, phase, wires, open, gw,
                   health, losses, event>>

EmptyClient ==
    /\ stage # "exited"
    /\ \E d \in emptying : ReplaceMap(d)
    /\ emptying' = {}
    /\ event' = (IF toClose = {} THEN "none" ELSE "closing")
    /\ UNCHANGED <<config, stage, outer, inner, clients, launching, phase, wires, open, gw,
                   health, losses, toClose>>

Goroutine(d) ==
    \/ AppendClient(d) \/ StartClient(d) \/ Register(d) \/ SubscribeAll(d) \/ Subscribe(d)
    \/ Listen(d) \/ StopListening(d) \/ CloseSessions(d) \/ Return(d)

Main ==
    \/ ReadRoutes \/ Connect \/ Build \/ HealthListens \/ HealthStops \/ GatewayReturns \/ Exit
    \/ CloseAllSessions \/ CloseClient \/ EmptyClient

Next ==
    \/ Main
    \/ \E d \in AllDevices : Goroutine(d) \/ Accept(d)
    \/ Interrupt \/ HealthEnds \/ Manage \/ ConnEnds \/ LinkLost

(* Every goroutine goes on; nobody need connect, and sessions need not end *)
(* by themselves.                                                          *)
Fairness ==
    /\ WF_vars(Main)
    /\ \A d \in AllDevices : WF_vars(Goroutine(d))

Spec == Init /\ [][Next]_vars /\ Fairness

-----------------------------------------------------------------------------
(* The route a user means for an address: the last flag that names it,     *)
(* otherwise the configuration's.                                          *)
Meant(listen) ==
    LET flagged == {i \in DOMAIN input.flags : FieldOf(input.flags[i], "listen") = listen}
    IN  IF flagged = {}
        THEN {input.config[i] : i \in {i \in DOMAIN input.config : input.config[i].listen = listen}}
        ELSE ParseRouteFlag(input.flags[Max(flagged)])

Wanted == Listens(input.config)
             \cup {FieldOf(input.flags[i], "listen") : i \in DOMAIN input.flags}

(* A command that is about to read its texts reads every -L text as it is  *)
(* written, and loses or moves no word of a text outside the documented    *)
(* form (ReadAsMeant, which names no variable, so that one look at it      *)
(* before anything else has happened is enough).                           *)
ForwardsRead == stage = "merge" => ReadAsMeant

(* Once all clients serve, exactly the addresses the user named are        *)
(* listened on, and every connection is forwarded to the device and the    *)
(* target meant for its address.                                           *)
RoutesServed ==
    /\ stage = "run" /\ (\A d \in Planned : phase[d] = "serving") => open = Wanted
    /\ open \subseteq Wanted
    /\ \A c \in conns : Meant(c.route.listen) = {c.route}

(* A connection is accepted only when its device's answers and data will   *)
(* be heard, whichever client subscribed to them.                          *)
ReadyBeforeAccept == \A c \in conns : FiltersOf(c.route.device) \subseteq broker

(* When the event handler has run, no session of any client is left that  *)
(* was in its client's map when the connection was last lost ("all active  *)
(* sessions are torn down", docs/flows.md), except one that a client which *)
(* stops threw out of its map meanwhile; and until the first loss nobody   *)
(* but a client that stops has thrown out any.                             *)
CutOff ==
    /\ event = "none" => \A c \in conns : c.old => c.at = "nowhere" /\ inner = "ended"
    /\ \A c \in conns : c.at = "nowhere" => losses > 0 \/ inner = "ended"

(* Fail-fast: when one client or the health server fails, or the process   *)
(* is told to stop, all end and no address is listened on any more.        *)
EndsTogether == inner = "ended" ~> stage = "exited" /\ open = {}

=============================================================================
