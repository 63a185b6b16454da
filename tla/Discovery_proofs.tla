--------------------------- MODULE Discovery_proofs ---------------------------
(***************************************************************************)
(* Proofs about Discovery, for any number of processes, services,          *)
(* BackServices, session expiries and changes by hand.                     *)
(*                                                                         *)
(* The endpoint: at most one process of the address is alive (Start), so   *)
(* from its first Delete on the node is its own or missing (OwnEndpoint).  *)
(* The exit goroutine deletes the node after the goroutine of              *)
(* RegisterService has stopped, so nothing is left in the process that     *)
(* could create it again (ExitPath).                                       *)
(*                                                                         *)
(* The router: Router.services and the BackServices that run are inverse   *)
(* to each other (InverseMaps); Update changes both under one lock.        *)
(*                                                                         *)
(* The other variables: RestType, with which all types are kept.           *)
(***************************************************************************)
EXTENDS Discovery, TLAPS

\* Zenon tries a leaf first; the leaves that need SMT cite it.
USE ZenonT(30), SMTT(30)

\* The places of the goroutines of a process.
ProcType ==
    /\ main \in [Proc -> {"off", "delete", "mkdir", "unlink", "create", "listen",
                          "accept", "dead"}]
    /\ rg \in [Proc -> {"off", "watch", "select", "retry", "delete", "mkdir",
                        "unlink", "create", "done"}]
    /\ ex \in [Proc -> {"off", "wait", "notify", "delete", "idle", "done"}]

\* One process at a time.
OneAlive == \A p, q \in Proc : Alive(p) /\ Alive(q) => p = q

\* Which goroutines run at which place of Run: that of RegisterService once the
\* endpoint is registered, the exit goroutine once the server listens.
Places ==
    \A p \in Proc :
        /\ rg[p] # "off" => main[p] \in {"listen", "accept"}
        /\ ex[p] \in {"wait", "notify", "delete", "idle"} => main[p] = "accept"
        /\ ex[p] = "done" => main[p] = "dead"

\* After its first Delete, a process that lives shares the node with nobody.
OwnEndpoint ==
    \A p \in Proc :
        main[p] \in {"mkdir", "unlink", "create", "listen", "accept"}
            => node \in {p, Nil}

\* The exit goroutine goes on only after RegisterService's has stopped, and then
\* the node is deleted for good.
ExitPath ==
    \A p \in Proc :
        /\ ex[p] \in {"delete", "idle"} => rg[p] = "done"
        /\ ex[p] \in {"idle", "done"} => node # p

ProcInv == ProcType /\ OneAlive /\ Places /\ OwnEndpoint /\ ExitPath

\* The maps of the router, and the BackServices.
RouterType ==
    /\ dirs \subseteq Service /\ listed \subseteq Service
    /\ services \in [Service -> Back \cup {Nil}]
    /\ backSvc \in [Back -> Service \cup {Nil}]
    /\ stops \in [Back -> 0 .. 1]

\* A service and the BackService it is mapped to name each other; a BackService
\* that runs is in the map; one that was not created was not stopped.
InverseMaps ==
    /\ \A s \in Service : services[s] # Nil
           => backSvc[services[s]] = s /\ stops[services[s]] = 0
    /\ \A b \in Back : backSvc[b] # Nil /\ stops[b] = 0 => services[backSvc[b]] = b
    /\ \A b \in Back : backSvc[b] = Nil => stops[b] = 0

RouterInv == RouterType /\ InverseMaps

-----------------------------------------------------------------------------
(* The processes.                                                          *)

\* Steps that move no goroutine, and create no node: of ZooKeeper, of the router,
\* a signal.
LEMMA OutsideStep ==
    ASSUME ProcInv, UNCHANGED <<main, rg, ex>>, node' \in {node, Nil}
    PROVE  ProcInv'
  <1>1. Nil \notin Proc
    BY DiscoveryAssumption
  <1>2. ProcType' /\ OneAlive' /\ Places'
    BY DEF ProcInv, ProcType, OneAlive, Alive, Places
  <1>3. OwnEndpoint' /\ ExitPath'
    BY <1>1 DEF ProcInv, OwnEndpoint, ExitPath
  <1> QED
    BY <1>2, <1>3 DEF ProcInv

\* The process is started: no other one is alive.
LEMMA StartStep ==
    ASSUME ProcInv, NEW p \in Proc, Start(p)
    PROVE  ProcInv'
  <1>1. /\ main[p] = "off" /\ \A q \in Proc : ~Alive(q)
        /\ main' = [main EXCEPT ![p] = "delete"]
        /\ UNCHANGED <<rg, ex, node>>
    BY DEF Start, zkVars
  <1>2. main'[p] = "delete" /\ \A q \in Proc \ {p} : main'[q] = main[q]
    BY <1>1 DEF ProcInv, ProcType
  <1>3. ProcType'
    BY <1>1 DEF ProcInv, ProcType
  <1>4. OneAlive'
    BY <1>1, <1>2 DEF OneAlive, Alive
  <1>5. Places' /\ OwnEndpoint' /\ ExitPath'
    BY <1>1, <1>2 DEF ProcInv, Places, OwnEndpoint, ExitPath
  <1> QED
    BY <1>3, <1>4, <1>5 DEF ProcInv

\* What RegisterService does in Run, one call after the other.
LEMMA RegisterStep ==
    ASSUME ProcInv, NEW p \in Proc, Register(p)
    PROVE  ProcInv'
  <1>1. /\ main[p] \in {"delete", "mkdir", "unlink", "create"}
        /\ \/ main[p] # "create" /\ rg' = rg
           \/ main[p] = "create" /\ rg' = [rg EXCEPT ![p] = "watch"]
        /\ \/ main[p] \in {"delete", "unlink"} /\ node' = Nil
           \/ main[p] = "mkdir" /\ node' = node
           \/ main[p] = "create" /\ node' \in {node, p}
        /\ \E c \in {"mkdir", "unlink", "create", "listen"} :
              /\ main' = [main EXCEPT ![p] = c]
              /\ main[p] = "create" => c = "listen"
        /\ UNCHANGED ex
    BY DEF Register, EndpointStep, DeleteNode, CreateNode
  <1>2. PICK c \in {"mkdir", "unlink", "create", "listen"} :
              /\ main' = [main EXCEPT ![p] = c]
              /\ main[p] = "create" => c = "listen"
    BY <1>1
  <1>3. /\ main'[p] = c /\ \A q \in Proc \ {p} : main'[q] = main[q] /\ rg'[q] = rg[q]
        /\ rg'[p] # rg[p] => c = "listen"
    BY <1>1, <1>2 DEF ProcInv, ProcType
  <1>4. ProcType'
    BY <1>1, <1>2 DEF ProcInv, ProcType
  <1>5. \A q \in Proc : Alive(q)' <=> Alive(q)
    BY <1>1, <1>2, <1>3 DEF Alive
  <1>6. OneAlive'
    BY <1>5 DEF ProcInv, OneAlive
  <1>7. Places'
    BY <1>1, <1>3 DEF ProcInv, Places
  <1>8. \A q \in Proc \ {p} : main[q] \in {"off", "dead"}
    BY <1>1 DEF ProcInv, OneAlive, Alive
  <1>9. OwnEndpoint'
    BY <1>1, <1>3, <1>8 DEF ProcInv, OwnEndpoint
  <1>10. ex[p] \notin {"delete", "idle", "done"}
    BY <1>1 DEF ProcInv, Places
  <1>11. Nil \notin Proc
    BY DiscoveryAssumption
  <1>12. ExitPath'
    BY <1>1, <1>3, <1>10, <1>11 DEF ProcInv, ExitPath
  <1> QED
    BY <1>4, <1>6, <1>7, <1>9, <1>12 DEF ProcInv

\* The goroutine of RegisterService moves, and does not stop; the node is left,
\* deleted, or created by this process.
LEMMA GoroutineStep ==
    ASSUME ProcInv, NEW p \in Proc,
           NEW c \in {"watch", "select", "retry", "delete", "mkdir", "unlink", "create"},
           rg[p] \notin {"off", "done"}, rg' = [rg EXCEPT ![p] = c],
           node' \in {node, Nil, p}, UNCHANGED <<main, ex>>
    PROVE  ProcInv'
  <1>1. \A q \in Proc \ {p} : rg'[q] = rg[q]
    BY DEF ProcInv, ProcType
  <1>2. ProcType' /\ OneAlive'
    BY DEF ProcInv, ProcType, OneAlive, Alive
  <1>3. main[p] \in {"listen", "accept"}
    BY DEF ProcInv, Places
  <1>4. Places'
    BY <1>1, <1>3 DEF ProcInv, Places
  <1>5. \A q \in Proc \ {p} : main[q] \in {"off", "dead"}
    BY <1>3 DEF ProcInv, OneAlive, Alive
  <1>6. OwnEndpoint'
    BY <1>3, <1>5 DEF ProcInv, OwnEndpoint
  <1>7. ex[p] \notin {"delete", "idle", "done"}
    BY <1>3 DEF ProcInv, Places, ExitPath
  <1>8. Nil \notin Proc
    BY DiscoveryAssumption
  <1>9. ExitPath'
    BY <1>1, <1>7, <1>8 DEF ProcInv, ExitPath
  <1> QED
    BY <1>2, <1>4, <1>6, <1>9 DEF ProcInv

\* The exit goroutine starts, takes the signal, stops the goroutine of
\* RegisterService, and deletes the node, in that order.
LEMMA ExitStep ==
    ASSUME ProcInv, NEW p \in Proc,
           \/ Listen(p) \/ TakeSignal(p) \/ NotifyExit(p) \/ ExitDelete(p)
    PROVE  ProcInv'
  <1> DEFINE Moved(m, e) ==
               /\ main' = [main EXCEPT ![p] = m] /\ ex' = [ex EXCEPT ![p] = e]
  <1>1. \/ /\ main[p] = "listen" /\ Moved("accept", "wait")
           /\ UNCHANGED <<rg, node>>
        \/ /\ ex[p] = "wait" /\ Moved("accept", "notify")
           /\ UNCHANGED <<rg, node>>
        \/ /\ ex[p] = "notify" /\ Moved("accept", "delete")
           /\ rg[p] # "off" /\ rg' = [rg EXCEPT ![p] = "done"] /\ UNCHANGED node
        \/ /\ ex[p] = "delete" /\ Moved("accept", "idle")
           /\ node' = Nil /\ UNCHANGED rg
    <2>1. ex[p] \in {"wait", "notify", "delete"} => main = [main EXCEPT ![p] = "accept"]
      BY DEF ProcInv, ProcType, Places
    <2> QED
      BY <2>1 DEF Listen, TakeSignal, NotifyExit, ExitDelete, DeleteNode, zkVars
  <1>2. main[p] \in {"listen", "accept"} /\ main'[p] = "accept"
    BY <1>1 DEF ProcInv, ProcType, Places
  <1>3. \A q \in Proc \ {p} : main'[q] = main[q] /\ rg'[q] = rg[q] /\ ex'[q] = ex[q]
    BY <1>1 DEF ProcInv, ProcType
  <1>4. ProcType'
    BY <1>1 DEF ProcInv, ProcType
  <1>5. OneAlive'
    BY <1>2, <1>3 DEF ProcInv, OneAlive, Alive
  <1>6. ex'[p] \in {"wait", "notify", "delete", "idle"}
    BY <1>1 DEF ProcInv, ProcType
  <1>7. Places'
    BY <1>2, <1>3, <1>6 DEF ProcInv, Places
  <1>8. OwnEndpoint'
    BY <1>1, <1>2, <1>3 DEF ProcInv, OwnEndpoint
  <1>9. Nil \notin Proc
    BY DiscoveryAssumption
  <1>10. /\ ex'[p] \in {"delete", "idle"} => rg'[p] = "done"
         /\ ex'[p] = "idle" => node' = Nil
    BY <1>1 DEF ProcInv, ProcType, ExitPath
  <1>11. ExitPath'
    BY <1>1, <1>3, <1>6, <1>9, <1>10 DEF ProcInv, ExitPath
  <1> QED
    BY <1>4, <1>5, <1>7, <1>8, <1>11 DEF ProcInv

\* The process ends, by a crash or after the node was deleted.
LEMMA EndStep ==
    ASSUME ProcInv, NEW p \in Proc, Crash(p) \/ ExitClose(p)
    PROVE  ProcInv'
  <1>1. /\ main' = [main EXCEPT ![p] = "dead"] /\ rg' = [rg EXCEPT ![p] = "off"]
        /\ \/ ex' = [ex EXCEPT ![p] = "off"]
           \/ ex[p] = "idle" /\ ex' = [ex EXCEPT ![p] = "done"]
        /\ UNCHANGED node
    BY DEF Crash, ExitClose, zkVars
  <1>2. /\ \A q \in Proc \ {p} : main'[q] = main[q] /\ rg'[q] = rg[q] /\ ex'[q] = ex[q]
        /\ main'[p] = "dead" /\ rg'[p] = "off"
        /\ \/ ex'[p] = "off"
           \/ ex[p] = "idle" /\ ex'[p] = "done"
    BY <1>1 DEF ProcInv, ProcType
  <1>3. ProcType'
    BY <1>1 DEF ProcInv, ProcType
  <1>4. OneAlive'
    BY <1>2 DEF ProcInv, OneAlive, Alive
  <1>5. Places' /\ OwnEndpoint' /\ ExitPath'
    BY <1>1, <1>2, SMTT(30) DEF ProcInv, Places, OwnEndpoint, ExitPath
  <1> QED
    BY <1>3, <1>4, <1>5 DEF ProcInv

\* Every step keeps the invariant of the processes.
LEMMA NextProcInv ==
    ASSUME ProcInv, [Next]_vars
    PROVE  ProcInv'
  <1>1. CASE UNCHANGED vars
    <2>1. UNCHANGED <<main, rg, ex, node>>
      BY <1>1 DEF vars, zkVars, procVars
    <2> QED
      BY <2>1, OutsideStep
  <1>2. ASSUME NEW p \in Proc,
               SessionExpires(p) \/ DeadSessionExpires(p) \/ Signal(p)
        PROVE  ProcInv'
    <2>1. UNCHANGED <<main, rg, ex>> /\ node' \in {node, Nil}
      BY <1>2 DEF SessionExpires, DeadSessionExpires, Signal, zkVars
    <2> QED
      BY <2>1, OutsideStep
  <1>3. CASE RouterSessionExpires \/ \E s \in Service : Operator(s)
    <2>1. UNCHANGED <<main, rg, ex, node>>
      BY <1>3 DEF RouterSessionExpires, Operator, zkVars, procVars
    <2> QED
      BY <2>1, OutsideStep
  <1>4. CASE ListServices \/ ListServicesFails \/ Update \/ ServicesEvent
             \/ \E b \in Back : Sync(b)
    <2>1. UNCHANGED <<main, rg, ex, node>>
      BY <1>4 DEF ListServices, ListServicesFails, Update, ServicesEvent, Sync,
                         zkVars, procVars
    <2> QED
      BY <2>1, OutsideStep
  <1>5. ASSUME NEW p \in Proc, WatchNode(p) \/ WatchNodeFails(p) \/ TakeEvent(p)
        PROVE  ProcInv'
    <2>1. /\ rg[p] \notin {"off", "done"} /\ UNCHANGED <<main, ex, node>>
          /\ \E c \in {"watch", "select", "retry", "delete"} : rg' = [rg EXCEPT ![p] = c]
      BY <1>5 DEF WatchNode, WatchNodeFails, TakeEvent, zkVars
    <2> QED
      BY <2>1, GoroutineStep
  <1>6. ASSUME NEW p \in Proc, RegisterAgain(p)
        PROVE  ProcInv'
    <2>1. /\ rg[p] \notin {"off", "done"} /\ UNCHANGED <<main, ex>>
          /\ node' \in {node, Nil, p}
          /\ \E c \in {"mkdir", "unlink", "create", "watch"} : rg' = [rg EXCEPT ![p] = c]
      BY <1>6 DEF RegisterAgain, EndpointStep, DeleteNode, CreateNode
    <2> QED
      BY <2>1, GoroutineStep
  <1> QED
    BY <1>1, <1>2, <1>3, <1>4, <1>5, <1>6, StartStep, RegisterStep, ExitStep, EndStep
       DEF Next, ProcStep

-----------------------------------------------------------------------------
(* The router.                                                             *)

\* One pass of WatchServices over the services it listed.
LEMMA UpdateStep ==
    ASSUME RouterInv, Update
    PROVE  RouterInv'
  <1> DEFINE new == CHOOSE f \in NewBacks : TRUE
             gone == {services[s] : s \in Service \ listed} \ {Nil}
  <1>1. /\ new \in NewBacks
        /\ services' = [s \in Service |->
               IF s \in NewServices THEN new[s]
               ELSE IF s \in listed THEN services[s] ELSE Nil]
        /\ backSvc' = [b \in Back |->
               IF \E s \in NewServices : new[s] = b
               THEN CHOOSE s \in NewServices : new[s] = b ELSE backSvc[b]]
        /\ stops' = [b \in Back |-> IF b \in gone THEN stops[b] + 1 ELSE stops[b]]
        /\ UNCHANGED <<dirs, listed>>
    BY DEF Update, zkVars
  <1> HIDE DEF new
  <1>2. Nil \notin Back \cup Service
    BY DiscoveryAssumption
  <1>3. RouterType /\ InverseMaps
    BY DEF RouterInv
  <1>4. /\ NewServices \subseteq Service
        /\ \A s \in Service : s \in NewServices <=> s \in listed /\ services[s] = Nil
    BY <1>3 DEF NewServices, RouterType
  <1>5. \A s \in NewServices : new[s] \in Back /\ backSvc[new[s]] = Nil
    BY <1>1 DEF NewBacks, Free
  <1>6. \A s, t \in NewServices : new[s] = new[t] => s = t
    BY <1>1 DEF NewBacks
  <1>7. \A s \in NewServices : backSvc'[new[s]] = s
    BY <1>1, <1>5, <1>6
  <1>8. ASSUME NEW b \in Back, \A s \in NewServices : new[s] # b
        PROVE  backSvc'[b] = backSvc[b]
    BY <1>1, <1>8
  <1>9. \A b \in Back : b \in gone
            <=> backSvc[b] \in Service \ listed /\ stops[b] = 0
    BY <1>2, <1>3, SMTT(30) DEF RouterType, InverseMaps
  <1>10. \A b \in Back : stops'[b] = IF b \in gone THEN stops[b] + 1 ELSE stops[b]
    BY <1>1
  <1> HIDE DEF gone
  <1>11. RouterType'
    <2>1. services' \in [Service -> Back \cup {Nil}]
      BY <1>1, <1>3, <1>5 DEF RouterType
    <2>2. backSvc' \in [Back -> Service \cup {Nil}]
      BY <1>1, <1>3, <1>4, <1>7 DEF RouterType
    <2>3. stops' \in [Back -> 0 .. 1]
      BY <1>1, <1>3, <1>9, SMTT(30) DEF RouterType
    <2> QED
      BY <1>1, <1>3, <2>1, <2>2, <2>3 DEF RouterType
  <1>12. ASSUME NEW s \in Service, services'[s] # Nil
         PROVE  backSvc'[services'[s]] = s /\ stops'[services'[s]] = 0
    <2>1. CASE s \in NewServices
      <3>1. services'[s] = new[s] /\ stops[new[s]] = 0 /\ new[s] \notin gone
        BY <1>1, <1>2, <1>3, <1>5, <1>9, <2>1 DEF InverseMaps
      <3> QED
        BY <1>5, <1>7, <1>10, <2>1, <3>1, SMTT(30)
    <2>2. CASE s \notin NewServices
      <3>1. services'[s] = services[s] /\ s \in listed /\ services[s] \in Back
        BY <1>1, <1>3, <1>12, <2>2 DEF RouterType
      <3>2. backSvc[services[s]] = s /\ stops[services[s]] = 0
        BY <1>2, <1>3, <3>1 DEF InverseMaps
      <3>3. \A t \in NewServices : new[t] # services[s]
        BY <1>2, <1>5, <3>2
      <3>4. services[s] \notin gone
        BY <1>9, <3>1, <3>2
      <3> QED
        BY <1>8, <1>10, <3>1, <3>2, <3>3, <3>4
    <2> QED
      BY <2>1, <2>2
  <1>13. ASSUME NEW b \in Back, backSvc'[b] # Nil, stops'[b] = 0
         PROVE  services'[backSvc'[b]] = b
    <2>1. CASE \E s \in NewServices : new[s] = b
      BY <1>1, <1>4, <1>7, <2>1
    <2>2. CASE \A s \in NewServices : new[s] # b
      <3>1. backSvc'[b] = backSvc[b] /\ backSvc[b] \in Service
        BY <1>3, <1>8, <1>13, <2>2 DEF RouterType
      <3>2. b \notin gone /\ stops[b] = 0
        BY <1>3, <1>10, <1>13, SMTT(30) DEF RouterType
      <3>3. services[backSvc[b]] = b /\ backSvc[b] \in listed
        BY <1>2, <1>3, <1>9, <3>1, <3>2 DEF InverseMaps
      <3> QED
        BY <1>1, <1>2, <1>4, <3>1, <3>3
    <2> QED
      BY <2>1, <2>2
  <1>14. ASSUME NEW b \in Back, backSvc'[b] = Nil
         PROVE  stops'[b] = 0
    <2>1. \A s \in NewServices : new[s] # b
      BY <1>2, <1>4, <1>7, <1>14
    <2>2. backSvc[b] = Nil
      BY <1>8, <1>14, <2>1
    <2> QED
      BY <1>2, <1>3, <1>9, <1>10, <2>2, SMTT(30) DEF InverseMaps
  <1> QED
    BY <1>11, <1>12, <1>13, <1>14 DEF RouterInv, InverseMaps

\* Every step keeps the invariant of the router.
LEMMA NextRouterInv ==
    ASSUME RouterInv, [Next]_vars
    PROVE  RouterInv'
  <1>1. ASSUME UNCHANGED <<services, backSvc, stops>>, dirs' \subseteq Service,
               listed' \in {listed, dirs}
        PROVE  RouterInv'
    BY <1>1 DEF RouterInv, RouterType, InverseMaps
  <1>2. dirs \subseteq Service
    BY DEF RouterInv, RouterType
  <1>3. CASE UNCHANGED vars
    BY <1>1, <1>2, <1>3 DEF vars, zkVars, routerVars
  <1>4. CASE RouterSessionExpires \/ ListServices \/ ListServicesFails \/ ServicesEvent
             \/ \E b \in Back : Sync(b)
    <2>1. UNCHANGED <<services, backSvc, stops, dirs>> /\ listed' \in {listed, dirs}
      BY <1>4
         DEF RouterSessionExpires, ListServices, ListServicesFails, ServicesEvent, Sync,
             zkVars
    <2> QED
      BY <1>1, <1>2, <2>1
  <1>5. ASSUME NEW s \in Service, Operator(s)
        PROVE  RouterInv'
    <2>1. UNCHANGED <<services, backSvc, stops, listed>>
      BY <1>5 DEF Operator
    <2>2. dirs' \in {dirs, dirs \cup {s}, dirs \ {s}}
      BY <1>5 DEF Operator, DirsChange
    <2>3. dirs' \subseteq Service
      BY <1>2, <2>2
    <2> QED
      BY <1>1, <2>1, <2>3
  <1>6. ASSUME NEW p \in Proc, Register(p) \/ RegisterAgain(p)
        PROVE  RouterInv'
    <2>1. UNCHANGED <<services, backSvc, stops, listed>>
      BY <1>6 DEF Register, RegisterAgain
    <2>2. dirs' \in {dirs, dirs \cup {Svc}}
      BY <1>6 DEF Register, RegisterAgain, EndpointStep, DirsChange
    <2>3. dirs' \subseteq Service
      BY <1>2, <2>2, DiscoveryAssumption
    <2> QED
      BY <1>1, <2>1, <2>3
  <1>7. ASSUME NEW p \in Proc,
               \/ SessionExpires(p) \/ DeadSessionExpires(p) \/ Start(p) \/ Crash(p)
               \/ Signal(p) \/ ExitDelete(p)
        PROVE  RouterInv'
    <2>1. UNCHANGED <<services, backSvc, stops, listed, dirs>>
      BY <1>7
         DEF SessionExpires, DeadSessionExpires, Start, Crash, Signal, ExitDelete,
             zkVars, routerVars
    <2> QED
      BY <1>1, <1>2, <2>1
  <1>8. ASSUME NEW p \in Proc,
               \/ Listen(p) \/ WatchNode(p) \/ WatchNodeFails(p) \/ TakeEvent(p)
               \/ TakeSignal(p) \/ NotifyExit(p) \/ ExitClose(p)
        PROVE  RouterInv'
    <2>1. UNCHANGED <<services, backSvc, stops, listed, dirs>>
      BY <1>8
         DEF Listen, WatchNode, WatchNodeFails, TakeEvent, TakeSignal, NotifyExit,
             ExitClose, zkVars, routerVars
    <2> QED
      BY <1>1, <1>2, <2>1
  <1> QED
    BY <1>3, <1>4, <1>5, <1>6, <1>7, <1>8, UpdateStep DEF Next, ProcStep

-----------------------------------------------------------------------------
(* The other variables, and with them all types.                           *)

\* ZooKeeper's node and the watches, and the histories: the node exists only
\* under the directory of the service.
RestType ==
    /\ node \in Proc \cup {Nil} /\ (node # Nil => Svc \in dirs)
    /\ event \in [Proc -> {"none", "armed", "expired", "changed"}]
    /\ signalled \subseteq Proc /\ session \subseteq Proc /\ lost \subseteq Proc
    /\ rt \in {"list", "update", "wait", "sleep"}
    /\ rwatch \in {"none", "armed", "event"}
    /\ known \subseteq Back
    /\ expiries \in 0 .. MaxExpiries /\ ops \in 0 .. MaxOps

\* Steps of ZooKeeper and of the operator.
LEMMA OutsideTypes ==
    ASSUME RestType,
           \/ \E p \in Proc : SessionExpires(p) \/ DeadSessionExpires(p)
           \/ RouterSessionExpires
           \/ \E s \in Service : Operator(s)
    PROVE  RestType'
  <1>1. ASSUME NEW p \in Proc, SessionExpires(p)
        PROVE  RestType'
    <2>1. /\ node' \in {node, Nil} /\ UNCHANGED dirs
          /\ event' \in {event, [event EXCEPT ![p] = "expired"]}
          /\ lost' \in {lost, lost \cup {p}}
          /\ expiries < MaxExpiries /\ expiries' = expiries + 1
          /\ UNCHANGED <<signalled, session, rt, rwatch, known, ops>>
      BY <1>1 DEF SessionExpires, routerVars
    <2> QED
      BY <2>1, DiscoveryAssumption, SMTT(30) DEF RestType
  <1>2. ASSUME NEW p \in Proc, DeadSessionExpires(p)
        PROVE  RestType'
    <2>1. /\ node' \in {node, Nil} /\ session' = session \ {p}
          /\ UNCHANGED <<dirs, event, signalled, lost, rt, rwatch, known, expiries, ops>>
      BY <1>2 DEF DeadSessionExpires, routerVars
    <2> QED
      BY <2>1 DEF RestType
  <1>3. CASE RouterSessionExpires
    <2>1. /\ expiries < MaxExpiries /\ expiries' = expiries + 1 /\ rwatch' = "event"
          /\ UNCHANGED <<node, dirs, event, signalled, session, lost, rt, known, ops>>
      BY <1>3 DEF RouterSessionExpires, zkVars, procVars
    <2> QED
      BY <2>1, DiscoveryAssumption, SMTT(30) DEF RestType
  <1>4. ASSUME NEW s \in Service, Operator(s)
        PROVE  RestType'
    <2>1. /\ ops < MaxOps /\ ops' = ops + 1
          /\ UNCHANGED <<node, signalled, session, lost, rt, known, expiries>>
      BY <1>4 DEF Operator
    <2>2. node # Nil /\ Svc \in dirs => Svc \in dirs'
      BY <1>4 DEF Operator, DirsChange
    <2>3. rwatch' \in {rwatch, "event"}
      BY <1>4 DEF Operator, DirsChange
    <2>4. event' \in {event, [p \in Proc |->
                         IF event[p] = "armed" THEN "changed" ELSE event[p]]}
      BY <1>4 DEF Operator
    <2>5. event' \in [Proc -> {"none", "armed", "expired", "changed"}]
      BY <2>4 DEF RestType
    <2> QED
      BY <2>1, <2>2, <2>3, <2>5, DiscoveryAssumption, SMTT(30) DEF RestType
  <1> QED
    BY <1>1, <1>2, <1>3, <1>4

\* The calls on the endpoint: the directory is only ever made, and the node is
\* created under it.
LEMMA EndpointTypes ==
    ASSUME RestType, NEW p \in Proc, Register(p) \/ RegisterAgain(p) \/ ExitDelete(p)
    PROVE  RestType'
  <1>1. /\ node' \in {node, Nil, p} /\ dirs \subseteq dirs'
        /\ node' = node \/ node' = Nil \/ Svc \in dirs
        /\ rwatch' \in {rwatch, "event"}
    BY DEF Register, RegisterAgain, ExitDelete, EndpointStep, DeleteNode, CreateNode,
           DirsChange, routerVars
  <1>2. UNCHANGED <<event, signalled, session, lost, rt, known, expiries, ops>>
    BY DEF Register, RegisterAgain, ExitDelete, routerVars
  <1> QED
    BY <1>1, <1>2 DEF RestType

\* The other steps of a process: its watch, the signal, its session.
LEMMA ProcessTypes ==
    ASSUME RestType, NEW p \in Proc,
           \/ Listen(p) \/ WatchNode(p) \/ WatchNodeFails(p) \/ TakeEvent(p)
           \/ TakeSignal(p) \/ NotifyExit(p) \/ ExitClose(p)
           \/ Start(p) \/ Crash(p) \/ Signal(p)
    PROVE  RestType'
  <1>1. event' \in {event, [event EXCEPT ![p] = "armed"], [event EXCEPT ![p] = "none"]}
    BY DEF Listen, WatchNode, WatchNodeFails, TakeEvent, TakeSignal, NotifyExit,
                 ExitClose, Start, Crash, Signal
  <1>2. /\ signalled' \in {signalled, signalled \cup {p}}
        /\ session' \in {session, session \cup {p}}
        /\ UNCHANGED <<node, dirs, lost, rt, rwatch, known, expiries, ops>>
    BY DEF Listen, WatchNode, WatchNodeFails, TakeEvent, TakeSignal, NotifyExit,
                 ExitClose, Start, Crash, Signal, zkVars, routerVars
  <1> QED
    BY <1>1, <1>2 DEF RestType

\* The steps of the router and of its BackServices.
LEMMA RouterTypes ==
    ASSUME RestType,
           \/ ListServices \/ ListServicesFails \/ Update \/ ServicesEvent
           \/ \E b \in Back : Sync(b)
    PROVE  RestType'
  <1>1. known' \subseteq Back
    BY DEF RestType, ListServices, ListServicesFails, Update, ServicesEvent, Sync
  <1>2. /\ rt' \in {rt, "list", "update", "wait", "sleep"}
        /\ rwatch' \in {rwatch, "armed", "none"}
        /\ UNCHANGED <<node, dirs, event, signalled, session, lost, expiries, ops>>
    BY DEF ListServices, ListServicesFails, Update, ServicesEvent, Sync, zkVars,
                 procVars
  <1> QED
    BY <1>1, <1>2 DEF RestType

\* Every step keeps the types of the other variables.
LEMMA NextRestType ==
    ASSUME RestType, [Next]_vars
    PROVE  RestType'
  <1>1. CASE UNCHANGED vars
    BY <1>1 DEF RestType, vars, zkVars, procVars, routerVars
  <1> QED
    BY <1>1, OutsideTypes, EndpointTypes, ProcessTypes, RouterTypes
       DEF Next, ProcStep

-----------------------------------------------------------------------------
(* The theorems.                                                           *)

\* Nothing runs and the maps are empty.
LEMMA InitInvs == Init => ProcInv /\ RouterInv
  <1> SUFFICES ASSUME Init PROVE ProcInv /\ RouterInv
    OBVIOUS
  <1>1. Nil \notin Proc \cup Back \cup Service
    BY DiscoveryAssumption
  <1>2. ProcType /\ OneAlive /\ Places /\ OwnEndpoint /\ ExitPath
    BY <1>1 DEF Init, ProcType, OneAlive, Alive, Places, OwnEndpoint, ExitPath
  <1>3. RouterType /\ InverseMaps
    BY <1>1, SMTT(30) DEF Init, RouterType, InverseMaps
  <1> QED
    BY <1>2, <1>3 DEF ProcInv, RouterInv

\* The places of a server's goroutines, and who owns the endpoint at each.
THEOREM ProcInvariant == Spec => []ProcInv
  <1>1. Init => ProcInv
    BY InitInvs
  <1>2. ProcInv /\ [Next]_vars => ProcInv'
    BY NextProcInv
  <1> QED
    BY <1>1, <1>2, PTL DEF Spec

\* Router.services and the running BackServices are inverse to each other.
THEOREM RouterInvariant == Spec => []RouterInv
  <1>1. Init => RouterInv
    BY InitInvs
  <1>2. RouterInv /\ [Next]_vars => RouterInv'
    BY NextRouterInv
  <1> QED
    BY <1>1, <1>2, PTL DEF Spec

\* The node of a server that accepts is never the leftover of the one before it.
THEOREM EndpointIsOwnCorrect == Spec => []EndpointIsOwn
  <1>1. ProcInv => EndpointIsOwn
    BY DEF ProcInv, OwnEndpoint, EndpointIsOwn
  <1> QED
    BY <1>1, ProcInvariant, PTL

\* A server that deleted its endpoint on exit does not register it again.
THEOREM NotRegisteredAfterExitCorrect == Spec => []NotRegisteredAfterExit
  <1>1. ProcInv => NotRegisteredAfterExit
    BY DEF ProcInv, ExitPath, NotRegisteredAfterExit
  <1> QED
    BY <1>1, ProcInvariant, PTL

\* The BackServices that were created and not stopped are those of the map.
THEOREM OneBackPerServiceCorrect == Spec => []OneBackPerService
  <1>1. RouterInv => OneBackPerService
    <2> SUFFICES ASSUME RouterInv PROVE OneBackPerService
      OBVIOUS
    <2>1. /\ \A s \in Service : services[s] \in Back \cup {Nil}
          /\ \A b \in Back : backSvc[b] \in Service \cup {Nil} /\ stops[b] \in 0 .. 1
      BY DEF RouterInv, RouterType
    <2>2. InverseMaps
      BY DEF RouterInv
    <2>3. ASSUME NEW b \in Back, backSvc[b] # Nil, stops[b] = 0
          PROVE  \E s \in Service : services[s] # Nil
                                    /\ <<backSvc[b], b>> = <<s, services[s]>>
      BY <2>1, <2>2, <2>3, DiscoveryAssumption DEF InverseMaps
    <2>4. ASSUME NEW s \in Service, services[s] # Nil
          PROVE  \E b \in Back : backSvc[b] # Nil /\ stops[b] = 0
                                 /\ <<s, services[s]>> = <<backSvc[b], b>>
      BY <2>1, <2>2, <2>4, DiscoveryAssumption DEF InverseMaps
    <2>5. \A b \in Back : stops[b] <= 1
      BY <2>1, SMTT(30)
    <2> QED
      BY <2>3, <2>4, <2>5, SMTT(30) DEF OneBackPerService
  <1> QED
    BY <1>1, RouterInvariant, PTL

\* The state of every part is of its type, and the endpoint node exists only
\* under the directory of its service.
THEOREM DiscoveryTypeCorrect == Spec => []TypeOK
  <1>1. Init => RestType
    BY DiscoveryAssumption, SMTT(30) DEF Init, RestType
  <1>2. RestType /\ [Next]_vars => RestType'
    BY NextRestType
  <1>3. ProcInv /\ RouterInv /\ RestType => TypeOK
    BY DEF ProcInv, ProcType, RouterInv, RouterType, RestType, TypeOK
  <1> QED
    BY <1>1, <1>2, <1>3, ProcInvariant, RouterInvariant, PTL DEF Spec
===============================================================================
