--------------------------- MODULE WorkerResources ---------------------------
(***************************************************************************)
(* What a DSH worker needs around it, and who takes it away: the runtime   *)
(* directory of the run (dsh/runtime.ts), the internal Docker network and  *)
(* the credential proxy of a turn (dsh/network.ts, dsh/proxy.ts).          *)
(*                                                                         *)
(* The Controller waits for each of them with a timer and an ear for the   *)
(* run's signal (lifecycle/deadline.ts): what it has given up waiting for  *)
(* goes on and may still come into being.                                  *)
(***************************************************************************)
EXTENDS Naturals, FiniteSets

CONSTANTS
    Requests            \* what a turn asks the runtime to be: turns -> bindings

VARIABLES
    runtime,        \* the runtime directory
    binding,        \* runtime.binding, if there is one
    network,        \* the internal network of the turn
    named,          \* internalNetwork: its name is known to the cleanup
    proxy,          \* the credential proxy of the turn
    request         \* a request of the worker to the model, through the proxy

resourceVars == <<runtime, binding, network, named, proxy, request>>

(* DshRuntimeBinding, as far as two turns of a run could differ in it. *)
Binding == [bash : BOOLEAN,             \* nativeRuntimeTools has bash
            network : BOOLEAN,          \* an extension needs the network
            webSearch : BOOLEAN,        \* webSearchProxy
            searchBase : BOOLEAN]       \* webSearchBaseUrl is there

ASSUME ResourceAssumption == \A t \in DOMAIN Requests : Requests[t] \subseteq Binding

(* abandoned: nobody waits for it any more, but it will be taken away when *)
(* it is there.  late: nobody waits, and nobody will.  disposed: its one   *)
(* removal was tried.  kept: a container held it when it was.              *)
ResourceTypeOK ==
    /\ runtime \in {"none", "ready", "abandoned", "disposed"}
    /\ binding \subseteq Binding /\ Cardinality(binding) <= 1
    /\ network \in {"none", "up", "late", "kept"} /\ named \in BOOLEAN
    /\ proxy \in {"none", "open", "abandoned", "closed"}
    /\ request \in {"none", "reading", "upstream", "unheeded"}

ResourceInit ==
    /\ runtime = "none" /\ binding = {}
    /\ network = "none" /\ named = FALSE
    /\ proxy = "none" /\ request = "none"

-----------------------------------------------------------------------------
(* The runtime directory: one for all turns of a run. *)

RuntimeReady == runtime = "none" /\ runtime' = "ready"

(* createDshRuntime removes what it has when a part of it fails. *)
RuntimeFails == runtime = "none" /\ runtime' = "disposed"

RuntimeAbandoned == runtime = "none" /\ runtime' = "abandoned"

(* The disposal that is chained to the creation. *)
RuntimeArrives ==
    /\ runtime = "abandoned"
    /\ runtime' = "disposed"
    /\ UNCHANGED <<binding, network, named, proxy, request>>

(* disposeDshRuntime: five seconds at most, and no second attempt. *)
DisposeRuntime == runtime' = "disposed"

(* normalizedBinding *)
WellFormedBinding(b) == b.webSearch = b.searchBase

(* changedBindingFields *)
ChangedFields(b, c) == {f \in DOMAIN b : b[f] # c[f]}

(* native.bash would share the network of the extension. *)
Conflicts(b) == b.bash /\ b.network

(* bindDshRuntime: the first turn binds, a later one may not change it. *)
Binds(b) ==
    /\ WellFormedBinding(b) /\ ~Conflicts(b)
    /\ \A c \in binding : ChangedFields(c, b) = {}
    /\ binding' = {b}

BindingRefused(b) ==
    \/ ~WellFormedBinding(b) \/ Conflicts(b)
    \/ \E c \in binding : ChangedFields(c, b) # {}

-----------------------------------------------------------------------------
(* The internal network.  A container that uses it keeps it. *)

NeedsNetwork == \A b \in binding : ~b.network

(* A mutant: only a network that Docker has confirmed has a name. *)
NetworkRefusedNameless(killed) ==
    /\ network' \in IF killed THEN {"none", "up", "late"} ELSE {"none"}
    /\ UNCHANGED named

(* A create that fails has made nothing; one whose client was killed may   *)
(* have, or may yet.  The name was chosen before Docker was asked.         *)
NetworkRefused(killed) ==
    /\ network' \in IF killed THEN {"none", "up", "late"} ELSE {"none"}
    /\ named' = TRUE

NetworkCreated == network' = "up" /\ named' = TRUE

(* docker network rm, once, of what has a name: nothing looks at its exit  *)
(* code, and Docker keeps a network that a container uses.                 *)
RemoveNetwork(inUse) ==
    /\ IF named /\ network = "up"
       THEN network' = IF inUse THEN "kept" ELSE "none"
       ELSE UNCHANGED network
    /\ named' = FALSE

(* The daemon comes to the create of a client that is gone. *)
NetworkArrives ==
    /\ network = "late"
    /\ network' \in {"none", "kept"}
    /\ UNCHANGED <<runtime, binding, named, proxy, request>>

-----------------------------------------------------------------------------
(* The proxy. *)

ProxyOpens == proxy = "none" /\ proxy' = "open"

(* runControllerPhase, disposeLateValue: close, as soon as it has started. *)
ProxyAbandoned == proxy = "none" /\ proxy' = "abandoned"

(* A mutant: a proxy that starts late stays. *)
ProxyArrivesOpen ==
    /\ proxy = "abandoned"
    /\ proxy' = "open"
    /\ UNCHANGED <<runtime, binding, network, named, request>>

ProxyArrives ==
    /\ proxy = "abandoned"
    /\ proxy' = "closed"
    /\ UNCHANGED <<runtime, binding, network, named, request>>

(* The routes of the proxy: one of them is there only with web search. *)
Routed(kind) == kind = "chat" \/ (kind = "search" /\ \E b \in binding : b.webSearch)

(* A request with the worker's token; another is answered at once. *)
RequestArrives ==
    /\ proxy = "open" /\ request = "none"
    /\ \E kind \in {"chat", "search"} : Routed(kind)
    /\ request' = "reading"
    /\ UNCHANGED <<runtime, binding, network, named, proxy>>

(* readBoundedBody *)
BodyRead ==
    /\ request = "reading"
    /\ request' \in {"upstream", "none"}
    /\ UNCHANGED <<runtime, binding, network, named, proxy>>

(* streamResponse, an upstream failure or the request's own timer. *)
RequestEnds ==
    /\ request \in {"upstream", "unheeded"}
    /\ request' = "none"
    /\ UNCHANGED <<runtime, binding, network, named, proxy>>

(* response "close": what the worker no longer waits for is aborted. *)
ConnectionLost == request' = "none"

(* A mutant: the requests upstream go on. *)
CloseProxyKeeping ==
    /\ proxy' = IF proxy = "open" THEN "closed" ELSE proxy
    /\ UNCHANGED request

(* close: the requests upstream are aborted and all connections are cut;   *)
(* a body whose last piece has just been read may slip through.            *)
CloseProxy ==
    /\ proxy' = IF proxy = "open" THEN "closed" ELSE proxy
    /\ request' \in IF request = "reading" THEN {"none", "unheeded"} ELSE {"none"}

=============================================================================
