------------------------------ MODULE Discovery ------------------------------
(***************************************************************************)
(* How a server becomes known to the proxy.  A server process (Run in      *)
(* proxy/server_general_rpc.go, and the same code in proxy/server_lb.go)   *)
(* registers an ephemeral endpoint node in ZooKeeper (RegisterService,     *)
(* proxy/endpoint.go), keeps it over session expiries, and deletes it when *)
(* it gets a signal.  The proxy's Router (proxy/router_proxy.go) follows   *)
(* the directories of the services and keeps one BackService for each.     *)
(*                                                                         *)
(* Proc are the processes started, one after the other, on one frontend    *)
(* address of service Svc: they use the same endpoint path.  ZooKeeper is  *)
(* external: dirs, node (the session that owns the endpoint node, named by *)
(* its process), and one-shot watches.  A BackService is reduced to what   *)
(* its watcher converges to (module BackService, Converges).               *)
(***************************************************************************)
EXTENDS Integers, FiniteSets

CONSTANTS
    Proc, Service, Svc, Back, Nil,
    MaxExpiries,        \* bound: expiries of the session of a live process
    MaxOps              \* bound: directories made, removed or touched by hand

ASSUME DiscoveryAssumption ==
    /\ Svc \in Service /\ Nil \notin Proc \cup Back \cup Service
    /\ MaxExpiries \in Nat /\ MaxOps \in Nat
    /\ Cardinality(Back) >= Cardinality(Service) + MaxOps

VARIABLES
    dirs, node,         \* ZooKeeper: service directories, owner of the endpoint
    main,               \* a process: Run
    rg, event,          \* ... the goroutine of RegisterService and its watch
    ex, signalled,      \* ... the goroutine that waits for exitSignal
    session,            \* processes, dead ones too, whose session is alive
    lost,               \* history: the session expired while nothing watched
    rt, listed, rwatch, \* Router: WatchServices, its children, its watch
    services,           \* Router.services
    backSvc, stops,     \* BackServices: service, number of Stop calls
    known,              \* BackServices that have a connection to the endpoint
    expiries, ops

zkVars == <<dirs, node>>
procVars == <<main, rg, event, ex, signalled, session, lost>>
routerVars == <<rt, listed, rwatch, services, backSvc, stops, known>>
vars == <<zkVars, procVars, routerVars, expiries, ops>>

-----------------------------------------------------------------------------
TypeOK ==
    /\ dirs \subseteq Service
    /\ node \in Proc \cup {Nil}
    /\ node # Nil => Svc \in dirs
    /\ main \in [Proc -> {"off", "delete", "mkdir", "unlink", "create", "listen",
                          "accept", "dead"}]
    /\ rg \in [Proc -> {"off", "watch", "select", "retry", "delete", "mkdir",
                        "unlink", "create", "done"}]
    /\ event \in [Proc -> {"none", "armed", "expired", "changed"}]
    /\ ex \in [Proc -> {"off", "wait", "notify", "delete", "idle", "done"}]
    /\ signalled \subseteq Proc /\ session \subseteq Proc /\ lost \subseteq Proc
    /\ rt \in {"list", "update", "wait", "sleep"}
    /\ listed \subseteq Service
    /\ rwatch \in {"none", "armed", "event"}
    /\ services \in [Service -> Back \cup {Nil}]
    /\ backSvc \in [Back -> Service \cup {Nil}]
    /\ stops \in [Back -> 0 .. 1]
    /\ known \subseteq Back
    /\ expiries \in 0 .. MaxExpiries /\ ops \in 0 .. MaxOps

Init ==
    /\ dirs = {} /\ node = Nil
    /\ main = [p \in Proc |-> "off"] /\ rg = [p \in Proc |-> "off"]
    /\ event = [p \in Proc |-> "none"] /\ ex = [p \in Proc |-> "off"]
    /\ signalled = {} /\ session = {} /\ lost = {}
    /\ rt = "list" /\ listed = {} /\ rwatch = "none"
    /\ services = [s \in Service |-> Nil]
    /\ backSvc = [b \in Back |-> Nil] /\ stops = [b \in Back |-> 0]
    /\ known = {} /\ expiries = 0 /\ ops = 0

Alive(p) == main[p] \notin {"off", "dead"}

-----------------------------------------------------------------------------
(* ZooKeeper (external).                                                   *)

\* The watch on the children of the services directory fires.
DirsChange(ds) ==
    /\ dirs' = ds
    /\ rwatch' = IF rwatch = "armed" /\ ds # dirs THEN "event" ELSE rwatch

\* The session of a live process expires: its ephemeral node is deleted, its
\* watch reports it, and the driver opens a new session.
SessionExpires(p) ==
    /\ Alive(p) /\ expiries < MaxExpiries
    /\ expiries' = expiries + 1
    /\ node' = IF node = p THEN Nil ELSE node
    /\ event' = IF event[p] = "armed" THEN [event EXCEPT ![p] = "expired"] ELSE event
    /\ lost' = IF node = p /\ event[p] # "armed" THEN lost \cup {p} ELSE lost
    /\ UNCHANGED <<dirs, main, rg, ex, signalled, session>>
    /\ UNCHANGED <<routerVars, ops>>

\* The session of a dead process times out.
DeadSessionExpires(p) ==
    /\ main[p] = "dead" /\ p \in session
    /\ session' = session \ {p}
    /\ node' = IF node = p THEN Nil ELSE node
    /\ UNCHANGED <<dirs, main, rg, event, ex, signalled, lost>>
    /\ UNCHANGED <<routerVars, expiries, ops>>

\* The session of the router expires.
RouterSessionExpires ==
    /\ rwatch = "armed" /\ expiries < MaxExpiries
    /\ expiries' = expiries + 1
    /\ rwatch' = "event"
    /\ UNCHANGED <<zkVars, procVars, ops>>
    /\ UNCHANGED <<rt, listed, services, backSvc, stops, known>>

\* An operator makes a directory, removes one of a service that has no server,
\* or writes to one.
Operator(s) ==
    /\ ops < MaxOps
    /\ ops' = ops + 1
    /\ \/ s \notin dirs /\ DirsChange(dirs \cup {s}) /\ UNCHANGED event
       \/ /\ s \in dirs /\ (s = Svc => node = Nil /\ \A p \in Proc : ~Alive(p))
          /\ DirsChange(dirs \ {s}) /\ UNCHANGED event
       \/ /\ s = Svc /\ s \in dirs /\ UNCHANGED <<dirs, rwatch>>
          /\ event' = [p \in Proc |->
                IF event[p] = "armed" THEN "changed" ELSE event[p]]
    /\ UNCHANGED <<node, main, rg, ex, signalled, session, lost>>
    /\ UNCHANGED <<rt, listed, services, backSvc, stops, known, expiries>>

-----------------------------------------------------------------------------
(* A server process.                                                       *)

\* The process is started when the one before it has ended; the session of that
\* one may still be alive.
Start(p) ==
    /\ main[p] = "off" /\ \A q \in Proc : ~Alive(q)
    /\ main' = [main EXCEPT ![p] = "delete"]
    /\ session' = session \cup {p}
    /\ UNCHANGED <<rg, event, ex, signalled, lost>>
    /\ UNCHANGED <<zkVars, routerVars, expiries, ops>>

\* Mutant of DeleteNode: only a node of its own session is deleted.
MutDeleteNode(p) == node' = IF node = p THEN Nil ELSE node

\* Delete by path, whoever owns the node; errors are ignored.
DeleteNode(p) == node' = Nil

\* Create: fails when the node exists or its directory is missing.
CreateNode(p) == node' = IF node = Nil /\ Svc \in dirs THEN p ELSE node

\* DeleteServiceEndpoint and AddServiceEndpoint, as a goroutine whose place is
\* pc goes through them, up to its place "next".
EndpointStep(p, pc, next) ==
    \/ /\ pc[p] = "delete" /\ DeleteNode(p)
       /\ pc' = [pc EXCEPT ![p] = "mkdir"] /\ UNCHANGED <<dirs, rwatch>>
    \/ /\ pc[p] = "mkdir" /\ DirsChange(dirs \cup {Svc})
       /\ pc' = [pc EXCEPT ![p] = "unlink"] /\ UNCHANGED node
    \/ /\ pc[p] = "unlink" /\ DeleteNode(p)
       /\ pc' = [pc EXCEPT ![p] = "create"] /\ UNCHANGED <<dirs, rwatch>>
    \/ /\ pc[p] = "create" /\ CreateNode(p)
       /\ pc' = [pc EXCEPT ![p] = next] /\ UNCHANGED <<dirs, rwatch>>

\* RegisterService, before it starts its goroutine,
Register(p) ==
    /\ EndpointStep(p, main, "listen")
    /\ rg' = IF main[p] = "create" THEN [rg EXCEPT ![p] = "watch"] ELSE rg
    /\ UNCHANGED <<event, ex, signalled, session, lost>>
    /\ UNCHANGED <<rt, listed, services, backSvc, stops, known, expiries, ops>>

\* ... and Listen, after which the exit goroutine runs.
Listen(p) ==
    /\ main[p] = "listen"
    /\ main' = [main EXCEPT ![p] = "accept"]
    /\ ex' = [ex EXCEPT ![p] = "wait"]
    /\ UNCHANGED <<rg, event, signalled, session, lost>>
    /\ UNCHANGED <<zkVars, routerVars, expiries, ops>>

\* The process dies: a crash, a kill -9, or the panic after Listen failed.
Crash(p) ==
    /\ Alive(p)
    /\ main' = [main EXCEPT ![p] = "dead"]
    /\ rg' = [rg EXCEPT ![p] = "off"] /\ ex' = [ex EXCEPT ![p] = "off"]
    /\ event' = [event EXCEPT ![p] = "none"]
    /\ UNCHANGED <<signalled, session, lost>>
    /\ UNCHANGED <<zkVars, routerVars, expiries, ops>>

\* WatchNode arms a watch on the directory of the service; the timer of a
\* failed attempt leads to the next one.
WatchNode(p) ==
    /\ rg[p] \in {"watch", "retry"} /\ Svc \in dirs
    /\ event' = [event EXCEPT ![p] = "armed"]
    /\ rg' = [rg EXCEPT ![p] = "select"]
    /\ UNCHANGED <<main, ex, signalled, session, lost>>
    /\ UNCHANGED <<zkVars, routerVars, expiries, ops>>

\* GetW fails: the goroutine waits for the timer or for evtExit.
WatchNodeFails(p) ==
    /\ rg[p] = "watch"
    /\ rg' = [rg EXCEPT ![p] = "retry"]
    /\ UNCHANGED <<main, event, ex, signalled, session, lost>>
    /\ UNCHANGED <<zkVars, routerVars, expiries, ops>>

\* Mutant of TakeEvent: after any event the node is only watched again.
MutTakeEvent(p) ==
    /\ rg[p] = "select" /\ event[p] \in {"expired", "changed"}
    /\ rg' = [rg EXCEPT ![p] = "watch"]
    /\ event' = [event EXCEPT ![p] = "none"]
    /\ UNCHANGED <<main, ex, signalled, session, lost>>
    /\ UNCHANGED <<zkVars, routerVars, expiries, ops>>

\* An event, passed on by doWatch: the endpoint is registered again when the
\* session expired, and watched again otherwise.
TakeEvent(p) ==
    /\ rg[p] = "select" /\ event[p] \in {"expired", "changed"}
    /\ rg' = [rg EXCEPT ![p] = IF event[p] = "expired" THEN "delete" ELSE "watch"]
    /\ event' = [event EXCEPT ![p] = "none"]
    /\ UNCHANGED <<main, ex, signalled, session, lost>>
    /\ UNCHANGED <<zkVars, routerVars, expiries, ops>>

\* The goroutine registers the endpoint again.
RegisterAgain(p) ==
    /\ EndpointStep(p, rg, "watch")
    /\ UNCHANGED <<main, event, ex, signalled, session, lost>>
    /\ UNCHANGED <<rt, listed, services, backSvc, stops, known, expiries, ops>>

\* SIGTERM or SIGINT; exitSignal has one place.
Signal(p) ==
    /\ Alive(p) /\ p \notin signalled
    /\ signalled' = signalled \cup {p}
    /\ UNCHANGED <<main, rg, event, ex, session, lost>>
    /\ UNCHANGED <<zkVars, routerVars, expiries, ops>>

\* <-exitSignal
TakeSignal(p) ==
    /\ ex[p] = "wait" /\ p \in signalled
    /\ ex' = [ex EXCEPT ![p] = "notify"]
    /\ UNCHANGED <<main, rg, event, signalled, session, lost>>
    /\ UNCHANGED <<zkVars, routerVars, expiries, ops>>

\* Mutant of NotifyExit: evtExit is buffered and nobody waits for it.
MutNotifyExit(p) ==
    /\ ex[p] = "notify"
    /\ ex' = [ex EXCEPT ![p] = "delete"]
    /\ UNCHANGED <<main, rg, event, signalled, session, lost>>
    /\ UNCHANGED <<zkVars, routerVars, expiries, ops>>

\* Mutant of NotifyExit: the select with the watch has no case for evtExit.
MutNotifyExitRetry(p) ==
    /\ ex[p] = "notify" /\ rg[p] = "retry"
    /\ ex' = [ex EXCEPT ![p] = "delete"]
    /\ rg' = [rg EXCEPT ![p] = "done"]
    /\ UNCHANGED <<main, event, signalled, session, lost>>
    /\ UNCHANGED <<zkVars, routerVars, expiries, ops>>

\* evtExit <- true, a rendezvous with one of the selects of RegisterService.
NotifyExit(p) ==
    /\ ex[p] = "notify" /\ rg[p] \in {"select", "retry"}
    /\ ex' = [ex EXCEPT ![p] = "delete"]
    /\ rg' = [rg EXCEPT ![p] = "done"]
    /\ UNCHANGED <<main, event, signalled, session, lost>>
    /\ UNCHANGED <<zkVars, routerVars, expiries, ops>>

\* DeleteServiceEndpoint by the exit goroutine,
ExitDelete(p) ==
    /\ ex[p] = "delete"
    /\ DeleteNode(p)
    /\ ex' = [ex EXCEPT ![p] = "idle"]
    /\ UNCHANGED <<dirs, main, rg, event, signalled, session, lost>>
    /\ UNCHANGED <<routerVars, expiries, ops>>

\* ... and, after five seconds without a request, the end of Accept and of the
\* process.
ExitClose(p) ==
    /\ ex[p] = "idle"
    /\ ex' = [ex EXCEPT ![p] = "done"]
    /\ main' = [main EXCEPT ![p] = "dead"]
    /\ rg' = [rg EXCEPT ![p] = "off"]
    /\ event' = [event EXCEPT ![p] = "none"]
    /\ UNCHANGED <<signalled, session, lost>>
    /\ UNCHANGED <<zkVars, routerVars, expiries, ops>>

-----------------------------------------------------------------------------
(* The router of the proxy.                                                *)

\* WatchChildren: the services are listed and a watch is armed.
ListServices ==
    /\ rt \in {"list", "sleep"}
    /\ listed' = dirs
    /\ rwatch' = "armed"
    /\ rt' = "update"
    /\ UNCHANGED <<zkVars, procVars, services, backSvc, stops, known, expiries, ops>>

\* ... or the listing fails and is tried again after five seconds.
ListServicesFails ==
    /\ rt = "list"
    /\ rt' = "sleep"
    /\ UNCHANGED <<zkVars, procVars, expiries, ops>>
    /\ UNCHANGED <<listed, rwatch, services, backSvc, stops, known>>

Free == {b \in Back : backSvc[b] = Nil}
NewServices == {s \in listed : services[s] = Nil}

\* One new object for each new service (Back bounds how many are ever made).
NewBacks ==
    {f \in [NewServices -> Free] : \A s, t \in NewServices : f[s] = f[t] => s = t}

\* Mutant of Update: the services that are gone are forgotten, not stopped.
MutUpdate ==
    /\ rt = "update"
    /\ NewBacks # {}
    /\ LET new == CHOOSE f \in NewBacks : TRUE
       IN  /\ services' = [s \in Service |->
                 IF s \in NewServices THEN new[s]
                 ELSE IF s \in listed THEN services[s] ELSE Nil]
           /\ backSvc' = [b \in Back |->
                 IF \E s \in NewServices : new[s] = b
                 THEN CHOOSE s \in NewServices : new[s] = b ELSE backSvc[b]]
    /\ rt' = "wait"
    /\ UNCHANGED <<zkVars, procVars, listed, rwatch, stops, known, expiries, ops>>

\* Under serviceLock: the BackServices of the listed services are kept or
\* created, the others are stopped.
Update ==
    /\ rt = "update"
    /\ NewBacks # {}
    /\ LET new == CHOOSE f \in NewBacks : TRUE
           gone == {services[s] : s \in Service \ listed} \ {Nil}
       IN  /\ services' = [s \in Service |->
                 IF s \in NewServices THEN new[s]
                 ELSE IF s \in listed THEN services[s] ELSE Nil]
           /\ backSvc' = [b \in Back |->
                 IF \E s \in NewServices : new[s] = b
                 THEN CHOOSE s \in NewServices : new[s] = b ELSE backSvc[b]]
           /\ stops' = [b \in Back |-> IF b \in gone THEN stops[b] + 1 ELSE stops[b]]
           /\ known' = known \ gone
    /\ rt' = "wait"
    /\ UNCHANGED <<zkVars, procVars, listed, rwatch, expiries, ops>>

\* <-evtbus: doWatch passes the event on.
ServicesEvent ==
    /\ rt = "wait" /\ rwatch = "event"
    /\ rt' = "list"
    /\ rwatch' = "none"
    /\ UNCHANGED <<zkVars, procVars, expiries, ops>>
    /\ UNCHANGED <<listed, services, backSvc, stops, known>>

\* Mutant of Sync: connections to endpoints that are gone are kept.
MutSync(b) ==
    /\ backSvc[b] = Svc /\ stops[b] = 0
    /\ known' = IF node = Nil THEN known ELSE known \cup {b}
    /\ UNCHANGED <<zkVars, procVars, expiries, ops>>
    /\ UNCHANGED <<rt, listed, rwatch, services, backSvc, stops>>

\* The watcher of a BackService that was not stopped sees the endpoint come or
\* go (module BackService).
Sync(b) ==
    /\ backSvc[b] = Svc /\ stops[b] = 0
    /\ known' = IF node = Nil THEN known \ {b} ELSE known \cup {b}
    /\ UNCHANGED <<zkVars, procVars, expiries, ops>>
    /\ UNCHANGED <<rt, listed, rwatch, services, backSvc, stops>>

-----------------------------------------------------------------------------
ProcStep(p) ==
    \/ Register(p) \/ Listen(p)
    \/ TakeEvent(p) \/ RegisterAgain(p)
    \/ TakeSignal(p) \/ NotifyExit(p) \/ ExitDelete(p) \/ ExitClose(p)

Next ==
    \/ \E p \in Proc :
          \/ ProcStep(p) \/ WatchNode(p) \/ WatchNodeFails(p)
          \/ Start(p) \/ Crash(p) \/ Signal(p)
          \/ SessionExpires(p) \/ DeadSessionExpires(p)
    \/ RouterSessionExpires
    \/ \E s \in Service : Operator(s)
    \/ ListServices \/ ListServicesFails \/ Update \/ ServicesEvent
    \/ \E b \in Back : Sync(b)

Spec == Init /\ [][Next]_vars

\* The goroutines run; a watch or a listing that failed is tried again until it
\* succeeds; ZooKeeper ends the session of a dead process.  Nothing has
\* to start, crash, expire or be signalled.
Fairness ==
    /\ \A p \in Proc :
          /\ WF_vars(Register(p)) /\ WF_vars(Listen(p))
          /\ WF_vars(TakeEvent(p) \/ RegisterAgain(p))
          /\ WF_vars(TakeSignal(p) \/ ExitDelete(p) \/ ExitClose(p))
          /\ WF_vars(NotifyExit(p)) /\ WF_vars(WatchNode(p))
          /\ WF_vars(DeadSessionExpires(p))
    /\ WF_vars(ListServices) /\ WF_vars(Update \/ ServicesEvent)
    /\ \A b \in Back : WF_vars(Sync(b))

FairSpec == Spec /\ Fairness

-----------------------------------------------------------------------------
(* Properties.                                                             *)

\* While a server accepts, and its goroutine waits for events, the endpoint node
\* is its own or missing: never the leftover of the session of the process
\* before it, which would vanish with that session (DeleteServiceEndpoint and
\* the Delete in AddServiceEndpoint come before Create).
EndpointIsOwn ==
    \A p \in Proc : main[p] = "accept" /\ rg[p] = "select" => node \in {p, Nil}

\* A server that deleted its endpoint on exit does not register it again: a
\* session that expires at that moment finds the goroutine of RegisterService
\* already stopped by evtExit.
NotRegisteredAfterExit == \A p \in Proc : ex[p] \in {"idle", "done"} => node # p

\* The BackServices that were created and not stopped are exactly those in
\* Router.services, each under its own service: none that still watches and
\* keeps connections is forgotten, none in use was stopped, and none is stopped
\* twice, which EvtbusNeverBlocks of BackService rests on.
OneBackPerService ==
    /\ {<<backSvc[b], b>> : b \in {c \in Back : backSvc[c] # Nil /\ stops[c] = 0}}
         = {<<s, services[s]>> : s \in {t \in Service : services[t] # Nil}}
    /\ \A b \in Back : stops[b] <= 1

\* The router has a BackService of Svc that is connected to the endpoint.
Routable == services[Svc] # Nil /\ services[Svc] \in known

\* A server that stays up is in the end known to the router, over session
\* expiries of the server and of the router; except when its session expired
\* while it had a node and no watch (after Create, before WatchNode).
ServerFound ==
    \A p \in Proc :
        <>[](main[p] = "accept" /\ p \notin signalled)
            => (<>(p \in lost) \/ <>[]Routable)

\* When all servers are gone, by exit or by crash, the router ends without a
\* connection to the endpoint.
ServerForgotten == <>[](\A p \in Proc : ~Alive(p)) => <>[](~Routable)

\* A signalled server exits: evtExit <- true always finds the goroutine of
\* RegisterService back in one of its selects.
SignalEnds == \A p \in Proc : p \in signalled ~> main[p] = "dead"
=============================================================================
