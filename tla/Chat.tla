-------------------------------- MODULE Chat ---------------------------------
(***************************************************************************)
(* The chat route (api/routers/chat.py) over the usage meter: a chat is    *)
(* metered, routed to an agent or straight to the inference kernel, walks  *)
(* the chain of models until one answers, and stores the exchange.  The    *)
(* agents are those of the blueprint files the process read when it        *)
(* started (core/agents/factory/blueprint.py, api/main.py).                *)
(*                                                                         *)
(* An action of the meter keeps its definition in Metering; here it is     *)
(* conjoined with what the route does around it.  The registry is written  *)
(* at import only, so a chat reads it in the step that ends its metering.  *)
(***************************************************************************)
EXTENDS Metering, Inference

CONSTANTS
    Intents,        \* non-empty values a request or a blueprint may name
    Agents,         \* names a request may give for agent
    Deployments,    \* contents of blueprints/: sequences of files by file name
    Unparsable      \* a file on which load_blueprint raises

Blueprints == [name : Agents, tier : 0..4, preference : Intents \cup {"auto"}]

Resolved == Intents \cup {None, "research", "code", "simple"}

ASSUME ChatAssumption ==
    /\ Deployments # {}
    /\ \A d \in Deployments : d \in Seq(Blueprints \cup {Unparsable})
    /\ Unparsable \notin Blueprints
    /\ None \notin Intents \cup Agents

VARIABLES
    disk,       \* the files under blueprints/
    server,     \* "down", "loading" or "up"
    loaded,     \* files load_directory has got through
    registry,   \* registry._blueprints: blueprints by name
    at,         \* at[w]: where the chat on worker w stands
    chat,       \* chat[w]: tenant, number, agent and intent of that chat
    left,       \* left[w]: models complete() has not tried yet
    last,       \* last[t]: exchange under the key chat:t:last
    tried,      \* history: tried[w], models that have refused this chat
    before,     \* history: before[w], last[t] when the chat began
    superseded  \* history: exchanges some stored chat found stored when it began

fileVars == <<disk, server, loaded, registry>>
chatVars == <<at, chat, left, last, tried, before, superseded>>
chatAll  == <<vars, fileVars, chatVars>>

NoChat     == [tenant |-> None, number |-> 0, agent |-> None, intent |-> None]
NoExchange == [tenant |-> None, number |-> 0]

Exchange(c) == [tenant |-> c.tenant, number |-> c.number]

(* self._blueprints[bp.name] = bp *)
Registered(reg, bp) ==
    [n \in DOMAIN reg \cup {bp.name} |-> IF n = bp.name THEN bp ELSE reg[n]]

NoAgents == [n \in {} |-> None]

(* The worker is free again, whatever the response was. *)
Free(w) ==
    /\ at' = [at EXCEPT ![w] = "idle"]
    /\ chat' = [chat EXCEPT ![w] = NoChat]
    /\ left' = [left EXCEPT ![w] = <<>>]
    /\ tried' = [tried EXCEPT ![w] = <<>>]
    /\ before' = [before EXCEPT ![w] = NoExchange]

ChatInit ==
    /\ Init
    /\ disk \in Deployments
    /\ server = "down" /\ loaded = 0 /\ registry = NoAgents
    /\ at = [w \in Workers |-> "idle"]
    /\ chat = [w \in Workers |-> NoChat]
    /\ left = [w \in Workers |-> <<>>] /\ tried = [w \in Workers |-> <<>>]
    /\ last = [t \in Tenants |-> NoExchange]
    /\ before = [w \in Workers |-> NoExchange]
    /\ superseded = {}

-----------------------------------------------------------------------------
(* Start-up.  create_app() runs load_blueprints() at import. *)

Boot ==
    /\ server = "down"
    /\ server' = "loading" /\ loaded' = 0 /\ registry' = NoAgents
    /\ UNCHANGED <<vars, disk, chatVars>>

LoadNext ==
    /\ server = "loading" /\ loaded < Len(disk)
    /\ disk[loaded + 1] # Unparsable
    /\ registry' = Registered(registry, disk[loaded + 1])
    /\ loaded' = loaded + 1
    /\ UNCHANGED <<vars, disk, server, chatVars>>

(* Mutant of LoadRaises: the loop goes on after a file that does not parse. *)
LoadSkips ==
    /\ server = "loading" /\ loaded < Len(disk)
    /\ disk[loaded + 1] = Unparsable
    /\ loaded' = loaded + 1
    /\ UNCHANGED <<vars, disk, server, registry, chatVars>>

(* The exception leaves load_directory, create_app and the import: nothing  *)
(* is served, and what was registered is gone with the process.             *)
LoadRaises ==
    /\ server = "loading" /\ loaded < Len(disk)
    /\ disk[loaded + 1] = Unparsable
    /\ server' = "down" /\ loaded' = 0 /\ registry' = NoAgents
    /\ UNCHANGED <<vars, disk, chatVars>>

Serve ==
    /\ server = "loading" /\ loaded = Len(disk)
    /\ server' = "up" /\ loaded' = 0
    /\ UNCHANGED <<vars, disk, registry, chatVars>>

(* Files are exchanged while no process is reading them. *)
Deploy(d) ==
    /\ server # "loading"
    /\ disk # d
    /\ disk' = d
    /\ UNCHANGED <<vars, server, loaded, registry, chatVars>>

(* The process dies: chats in flight, metered or not, are gone. *)
Crash ==
    /\ server = "up"
    /\ server' = "down" /\ loaded' = 0 /\ registry' = NoAgents
    /\ IF \E w \in Workers : pc[w] # "idle" THEN Restart ELSE UNCHANGED vars
    /\ at' = [w \in Workers |-> "idle"]
    /\ chat' = [w \in Workers |-> NoChat]
    /\ left' = [w \in Workers |-> <<>>] /\ tried' = [w \in Workers |-> <<>>]
    /\ before' = [w \in Workers |-> NoExchange]
    /\ UNCHANGED <<disk, last, superseded>>

-----------------------------------------------------------------------------
(* The route up to the end of its metering. *)

(* req.intent, or what the message looks like.  With an agent it decides no *)
(* more than the model that the response names, and is left out.            *)
BeginChat(w, t, agent, intent, message) ==
    /\ server = "up" /\ at[w] = "idle"
    /\ BeginCall(w, t)
    /\ at' = [at EXCEPT ![w] = "metering"]
    /\ chat' = [chat EXCEPT ![w] =
          [tenant |-> t, number |-> requests', agent |-> agent,
           intent |-> IF agent # None THEN None
                      ELSE IF intent # None THEN intent ELSE ExtractIntent(message)]]
    /\ before' = [before EXCEPT ![w] = last[t]]
    /\ UNCHANGED <<fileVars, left, last, tried, superseded>>

Meter(w) == ReadUsage(w) /\ UNCHANGED <<fileVars, chatVars>>

(* 429. *)
Refuse(w) ==
    /\ Deny(w)
    /\ Free(w)
    /\ UNCHANGED <<fileVars, last, superseded>>

(* The client library is there and can be built: _client() is outside of    *)
(* the try, and would end the chat with 500 before the first model.         *)
Ask(w, intent) ==
    /\ at' = [at EXCEPT ![w] = "asking"]
    /\ left' = [left EXCEPT ![w] = Chain(intent)]
    /\ UNCHANGED <<fileVars, chat, last, tried, before, superseded>>

(* No agent: inference.complete() with the intent of the request. *)
CompleteDirectly(w) ==
    /\ chat[w].agent = None
    /\ WriteUsage(w)
    /\ Ask(w, chat[w].intent)

(* Specialist.run: the blueprint's preference, never the request's intent. *)
Preference(w) ==
    LET p == registry[chat[w].agent].preference
    IN  IF p # "auto" THEN p ELSE None

(* Any tier but 1 is run as a Specialist. *)
RunSpecialist(w) ==
    /\ chat[w].agent \in DOMAIN registry
    /\ registry[chat[w].agent].tier # 1
    /\ WriteUsage(w)
    /\ Ask(w, Preference(w))

(* A Commander has no run(): AttributeError, 500, after the charge. *)
RunCommander(w) ==
    /\ chat[w].agent \in DOMAIN registry
    /\ registry[chat[w].agent].tier = 1
    /\ WriteUsage(w)
    /\ Free(w)
    /\ UNCHANGED <<fileVars, last, superseded>>

(* 404, after the charge. *)
UnknownAgent(w) ==
    /\ chat[w].agent \notin DOMAIN registry \cup {None}
    /\ WriteUsage(w)
    /\ Free(w)
    /\ UNCHANGED <<fileVars, last, superseded>>

-----------------------------------------------------------------------------
(* inference.complete(), and the end of the route. *)

Waiting(w) == at[w] = "asking" /\ left[w] # <<>>

(* The provider raises, or the client gives up waiting for it. *)
ModelFails(w) ==
    /\ Waiting(w)
    /\ tried' = [tried EXCEPT ![w] = Append(@, Head(left[w]))]
    /\ left' = [left EXCEPT ![w] = Tail(@)]
    /\ UNCHANGED <<vars, fileVars, at, chat, last, before, superseded>>

(* Mutant of AllFail: the last model of the chain is not waited for. *)
AllFailEarly(w) ==
    /\ at[w] = "asking" /\ Len(left[w]) <= 1
    /\ Free(w)
    /\ UNCHANGED <<vars, fileVars, last, superseded>>

(* RuntimeError, 500. *)
AllFail(w) ==
    /\ at[w] = "asking" /\ left[w] = <<>>
    /\ Free(w)
    /\ UNCHANGED <<vars, fileVars, last, superseded>>

(* Mutant of StoreLast: a store that is slow to answer is written to again. *)
StoreLastRepeated(w) ==
    /\ Waiting(w)
    /\ last' = [last EXCEPT ![chat[w].tenant] = Exchange(chat[w])]
    /\ superseded' = superseded \cup {before[w]}
    /\ Free(w) \/ UNCHANGED <<at, chat, left, tried, before>>
    /\ UNCHANGED <<vars, fileVars>>

(* The next model answers, the exchange is stored under the tenant's key    *)
(* and the response is sent.                                                *)
StoreLast(w) ==
    /\ Waiting(w)
    /\ last' = [last EXCEPT ![chat[w].tenant] = Exchange(chat[w])]
    /\ superseded' = superseded \cup {before[w]}
    /\ Free(w)
    /\ UNCHANGED <<vars, fileVars>>

(* A model answers, the store is Redis and does not: 500, nothing stored. *)
StoreRaises(w) ==
    /\ Waiting(w)
    /\ Free(w)
    /\ UNCHANGED <<vars, fileVars, last, superseded>>

ChatStep(w) ==
    \/ Meter(w)
    \/ Refuse(w)
    \/ CompleteDirectly(w)
    \/ RunSpecialist(w)
    \/ RunCommander(w)
    \/ UnknownAgent(w)
    \/ ModelFails(w)
    \/ AllFail(w)
    \/ StoreLast(w)
    \/ StoreRaises(w)

ChatNext ==
    \/ Boot
    \/ LoadNext
    \/ LoadRaises
    \/ Serve
    \/ \E d \in Deployments : Deploy(d)
    \/ Crash
    \/ \E w \in Workers, t \in Tenants, a \in Agents \cup {None},
          i \in Intents \cup {None}, m \in Messages : BeginChat(w, t, a, i, m)
    \/ \E w \in Workers : ChatStep(w)
    \/ \E t \in Tenants, p \in Plans : SetPlan(t, p) /\ UNCHANGED <<fileVars, chatVars>>
    \/ Midnight /\ UNCHANGED <<fileVars, chatVars>>

ChatSpec == ChatInit /\ [][ChatNext]_chatAll

-----------------------------------------------------------------------------
Exchanges == [tenant : Tenants \cup {None}, number : 0..MaxRequests]

(* Types; a chat is being metered exactly while its call to the meter is    *)
(* open, has a tenant until it ends, and exists only while the server is up.*)
ChatTypeOK ==
    /\ TypeOK
    /\ disk \in Deployments
    /\ server \in {"down", "loading", "up"} /\ loaded \in 0..Len(disk)
    /\ server # "loading" => loaded = 0
    /\ DOMAIN registry \subseteq Agents
    /\ \A n \in DOMAIN registry : registry[n] \in Blueprints
    /\ at \in [Workers -> {"idle", "metering", "asking"}]
    /\ chat \in [Workers -> [tenant : Tenants \cup {None}, number : 0..MaxRequests,
                              agent : Agents \cup {None}, intent : Resolved]]
    /\ left \in [Workers -> Seq(Models)] /\ tried \in [Workers -> Seq(Models)]
    /\ last \in [Tenants -> Exchanges] /\ before \in [Workers -> Exchanges]
    /\ superseded \subseteq Exchanges
    /\ \A w \in Workers :
        /\ at[w] = "metering" <=> pc[w] # "idle"
        /\ at[w] # "idle" => server = "up" /\ chat[w].tenant \in Tenants
        /\ at[w] = "metering" => chat[w].tenant = caller[w]

(* reg holds the agents of the first n files, of two with one name the last. *)
IsRegistryOf(reg, files, n) ==
    /\ \A i \in 1..n : files[i] # Unparsable /\ files[i].name \in DOMAIN reg
    /\ \A a \in DOMAIN reg : \E i \in 1..n :
        /\ files[i] = reg[a] /\ reg[a].name = a
        /\ \A j \in 1..n : files[j].name = a => j <= i

(* Deployments come and go under a running process, files may not parse and *)
(* the process may die at any time, yet whoever is served is served by the  *)
(* agents of one whole deployment: none missing, none left from another.    *)
AgentsOfOneDeployment ==
    server = "up" => \E d \in Deployments : IsRegistryOf(registry, d, Len(d))

(* Chats of a tenant may end in another order than they began, but what is  *)
(* stored as its last exchange is its own, and never one that an exchange   *)
(* stored later had found in its place when it began.                       *)
LastNotSuperseded ==
    \A t \in Tenants : last[t] # NoExchange =>
        last[t].tenant = t /\ last[t] \notin superseded

(* A chat is given up only after the model its agent prefers, or without an *)
(* agent its intent, and then every fallback have refused it, in this order.*)
FailoverComplete ==
    [][\A w \in Workers : AllFail(w) =>
        \E i \in Resolved \cup {None} :
            /\ IF chat[w].agent = None THEN i = chat[w].intent
               ELSE registry[chat[w].agent].preference = (IF i = None THEN "auto" ELSE i)
            /\ tried[w] = <<SelectModel(i)>> \o FALLBACK_CHAIN]_chatAll

(* "Commander (tier 1): /chat calls execute(goal)": a chat that is past the *)
(* meter and names an agent of the registry gets to the models.             *)
AgentsAreRun ==
    [][\A w \in Workers :
        /\ pc[w] = "checked" /\ pc'[w] = "idle" /\ server' = "up"
        /\ chat[w].agent \in DOMAIN registry
        => at'[w] = "asking"]_chatAll

=============================================================================
