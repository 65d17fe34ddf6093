----------------------------- MODULE ChatProofs ------------------------------
(***************************************************************************)
(* Proofs for any number of workers, tenants, agents, deployments and      *)
(* requests.  A chat implements the meter, so what is proved of the meter  *)
(* holds of chats.                                                         *)
(*   LoadInv  while the files are read, the registry is that of the files  *)
(*            read so far; once it is served it stays.                     *)
(*   LastInv  the number of a chat in flight is its own, and nothing       *)
(*            stored, superseded or remembered bears it yet.               *)
(*   ChainInv what a chat has tried and what it has left make up its chain.*)
(***************************************************************************)
EXTENDS Chat, MeteringProofs

(* Each step of a chat, of the files or of the server is a step of the      *)
(* meter or leaves it alone.                                                *)
LEMMA StepImplementsMeter == ASSUME [ChatNext]_chatAll PROVE [Next]_vars
<1>1. CASE Boot \/ LoadNext \/ LoadRaises \/ Serve \/ \E d \in Deployments : Deploy(d)
  BY <1>1 DEF Boot, LoadNext, LoadRaises, Serve, Deploy
<1>2. CASE Crash
  BY <1>2 DEF Crash, Next
<1>3. ASSUME NEW w \in Workers, NEW t \in Tenants, NEW a \in Agents \cup {None},
             NEW i \in Intents \cup {None}, NEW m \in Messages, BeginChat(w, t, a, i, m)
      PROVE  Next
  BY <1>3 DEF BeginChat, Next
<1>4. ASSUME NEW w \in Workers, ChatStep(w) PROVE [Next]_vars
  BY <1>4 DEF ChatStep, Meter, Refuse, CompleteDirectly, RunSpecialist, RunCommander,
              UnknownAgent, ModelFails, AllFail, StoreLast, StoreRaises, Next
<1>5. CASE \/ \E t \in Tenants, p \in Plans : SetPlan(t, p) /\ UNCHANGED <<fileVars, chatVars>>
           \/ Midnight /\ UNCHANGED <<fileVars, chatVars>>
  BY <1>5 DEF Next
<1>6. CASE UNCHANGED chatAll
  BY <1>6 DEF chatAll
<1>7. QED
  BY <1>1, <1>2, <1>3, <1>4, <1>5, <1>6 DEF ChatNext

(* The chat route implements the meter: around it a call is still read,     *)
(* compared and counted as Metering has it.                                 *)
THEOREM ChatImplementsMeter == ChatSpec => Spec
<1>1. ChatInit => Init
  BY DEF ChatInit
<1>2. [ChatNext]_chatAll => [Next]_vars
  BY StepImplementsMeter
<1>3. QED
  BY <1>1, <1>2, PTL DEF ChatSpec, Spec

(* The meter's guarantees hold of chats: the count of a day stays within    *)
(* the allowance and the requests counted so far, and nobody is refused     *)
(* before its allowance.                                                    *)
THEOREM ChatsAreMetered ==
    ChatSpec => []CounterSaturates /\ []ChargedForRequestsMade /\ DenialEarned
  BY ChatImplementsMeter, CounterNeverPassesAllowance, ChargesAreReal, DenialsAreEarned

-----------------------------------------------------------------------------
LEMMA ChainType == \A i : Chain(i) \in Seq(Models) /\ Len(Chain(i)) = 3
<1>1. ASSUME NEW i PROVE SelectModel(i) \in Models
  BY DEF SelectModel, MODEL_MAP, Models
<1>2. QED
  BY <1>1 DEF Chain, FALLBACK_CHAIN, Models

LEMMA FileType ==
    ASSUME NEW d \in Deployments
    PROVE  d \in Seq(Blueprints \cup {Unparsable}) /\ Len(d) \in Nat
           /\ \A i \in 1..Len(d) : d[i] # Unparsable => d[i] \in Blueprints
  BY ChatAssumption

LEMMA ExtractedIntent == \A m : ExtractIntent(m) \in Resolved
  BY DEF ExtractIntent, Resolved

LEMMA FreeType ==
    ASSUME ChatTypeOK, NEW w \in Workers, Free(w)
    PROVE  /\ at' \in [Workers -> {"idle", "metering", "asking"}]
           /\ chat' \in [Workers -> [tenant : Tenants \cup {None}, number : 0..MaxRequests,
                              agent : Agents \cup {None}, intent : Resolved]]
           /\ left' \in [Workers -> Seq(Models)] /\ tried' \in [Workers -> Seq(Models)]
           /\ before' \in [Workers -> Exchanges]
  BY MeteringAssumption DEF ChatTypeOK, Free, NoChat, NoExchange, Exchanges, Resolved

LEMMA ChatTypeStep ==
    ASSUME ChatTypeOK, [ChatNext]_chatAll PROVE ChatTypeOK'
<1>0. TypeOK'
  BY StepImplementsMeter, TypeCorrectStep DEF ChatTypeOK
<1>a. NoExchange \in Exchanges
  BY MeteringAssumption DEF NoExchange, Exchanges
<1>1. CASE Boot \/ LoadNext \/ LoadRaises \/ Serve \/ \E d \in Deployments : Deploy(d)
  <2>1. /\ loaded' \in 0..Len(disk') /\ disk' \in Deployments
        /\ server' # "loading" => loaded' = 0
    <3>1. Len(disk) \in Nat /\ \A d \in Deployments : Len(d) \in Nat
      BY FileType DEF ChatTypeOK
    <3>2. QED
      BY <1>1, <3>1 DEF ChatTypeOK, Boot, LoadNext, LoadRaises, Serve, Deploy
  <2>2. DOMAIN registry' \subseteq Agents /\ \A n \in DOMAIN registry' : registry'[n] \in Blueprints
    <3>1. CASE LoadNext
      <4>1. disk[loaded + 1] \in Blueprints
        BY <3>1, FileType DEF ChatTypeOK, LoadNext
      <4>2. PICK bp \in Blueprints : registry' = Registered(registry, bp)
        BY <3>1, <4>1 DEF LoadNext
      <4>3. bp.name \in Agents
        BY DEF Blueprints
      <4>4. DOMAIN registry' = DOMAIN registry \cup {bp.name}
            /\ registry'[bp.name] = bp /\ \A n \in DOMAIN registry : n # bp.name => registry'[n] = registry[n]
        BY <4>2 DEF Registered
      <4>5. QED
        BY <4>3, <4>4 DEF ChatTypeOK
    <3>2. CASE ~LoadNext
      <4>1. registry' = registry \/ registry' = NoAgents
        BY <1>1, <3>2 DEF Boot, LoadRaises, Serve, Deploy
      <4>2. DOMAIN NoAgents = {}
        BY DEF NoAgents
      <4>3. QED
        BY <4>1, <4>2 DEF ChatTypeOK
    <3>3. QED
      BY <3>1, <3>2
  <2>3. QED
    BY <1>0, <1>1, <2>1, <2>2 DEF ChatTypeOK, Boot, LoadNext, LoadRaises, Serve, Deploy,
                                  vars, callVars, chatVars
<1>2. CASE Crash
  <2>1. \A w \in Workers : pc'[w] = "idle"
    BY <1>2 DEF Crash, Restart, ChatTypeOK, TypeOK, vars, callVars
  <2>2. Len(disk) \in Nat /\ DOMAIN NoAgents = {}
    BY FileType DEF ChatTypeOK, NoAgents
  <2>3. NoChat \in [tenant : Tenants \cup {None}, number : 0..MaxRequests,
                   agent : Agents \cup {None}, intent : Resolved]
    BY MeteringAssumption DEF NoChat, Resolved
  <2>4. QED
    BY <1>0, <1>2, <1>a, <2>1, <2>2, <2>3 DEF ChatTypeOK, Crash
<1>3. ASSUME NEW w \in Workers, NEW t \in Tenants, NEW a \in Agents \cup {None},
             NEW i \in Intents \cup {None}, NEW m \in Messages, BeginChat(w, t, a, i, m)
      PROVE  ChatTypeOK'
  <2>1. chat'[w] \in [tenant : Tenants \cup {None}, number : 0..MaxRequests,
                      agent : Agents \cup {None}, intent : Resolved]
    BY SMTT(30), <1>0, <1>3, ExtractedIntent DEF BeginChat, ChatTypeOK, TypeOK, Resolved
  <2>2. \A v \in Workers : pc'[v] # "idle" <=> (pc[v] # "idle" \/ v = w)
    BY <1>3 DEF BeginChat, BeginCall, ChatTypeOK, TypeOK
  <2>3. caller' = [caller EXCEPT ![w] = t] /\ server = "up"
    BY <1>3 DEF BeginChat, BeginCall
  <2>4. chat'[w].tenant = t /\ at'[w] = "metering" /\ caller'[w] = t /\ pc'[w] # "idle"
    BY <2>2, <2>3, <1>3 DEF BeginChat, ChatTypeOK, TypeOK
  <2>5. \A v \in Workers : v # w => at'[v] = at[v] /\ chat'[v] = chat[v]
        /\ pc'[v] = pc[v] /\ caller'[v] = caller[v]
    BY <1>3 DEF BeginChat, BeginCall, ChatTypeOK, TypeOK
  <2>6. /\ at' \in [Workers -> {"idle", "metering", "asking"}]
        /\ chat' \in [Workers -> [tenant : Tenants \cup {None}, number : 0..MaxRequests,
                                  agent : Agents \cup {None}, intent : Resolved]]
        /\ before' \in [Workers -> Exchanges]
        /\ UNCHANGED <<fileVars, left, last, tried, superseded>>
    BY <1>3, <2>1 DEF BeginChat, ChatTypeOK
  <2>7. \A v \in Workers :
        /\ at'[v] = "metering" <=> pc'[v] # "idle"
        /\ at'[v] # "idle" => server' = "up" /\ chat'[v].tenant \in Tenants
        /\ at'[v] = "metering" => chat'[v].tenant = caller'[v]
    <3>1. server' = server
      BY <2>6 DEF fileVars
    <3>2. SUFFICES ASSUME NEW v \in Workers
                   PROVE  /\ at'[v] = "metering" <=> pc'[v] # "idle"
                          /\ at'[v] # "idle" => server' = "up" /\ chat'[v].tenant \in Tenants
                          /\ at'[v] = "metering" => chat'[v].tenant = caller'[v]
      OBVIOUS
    <3>3. CASE v = w
      BY <2>3, <2>4, <3>1, <3>3
    <3>4. CASE v # w
      <4>1. /\ at[v] = "metering" <=> pc[v] # "idle"
            /\ at[v] # "idle" => server = "up" /\ chat[v].tenant \in Tenants
            /\ at[v] = "metering" => chat[v].tenant = caller[v]
        BY DEF ChatTypeOK
      <4>2. QED
        BY <2>5, <3>1, <3>4, <4>1
    <3>5. QED
      BY <3>3, <3>4
  <2>8. QED
    BY <1>0, <2>6, <2>7 DEF ChatTypeOK, fileVars
<1>4. ASSUME NEW w \in Workers, ChatStep(w) PROVE ChatTypeOK'
  <2>1. CASE Meter(w)
    BY <1>0, <2>1 DEF Meter, ReadUsage, ChatTypeOK, TypeOK, fileVars, chatVars
  <2>2. CASE Refuse(w) \/ RunCommander(w) \/ UnknownAgent(w)
    <3>1. pc' = [pc EXCEPT ![w] = "idle"] /\ caller' = [caller EXCEPT ![w] = None] /\ Free(w)
          /\ UNCHANGED <<fileVars, last, superseded>>
      BY <2>2 DEF Refuse, RunCommander, UnknownAgent, Deny, WriteUsage, Idle
    <3>2. \A v \in Workers : v # w => at'[v] = at[v] /\ chat'[v] = chat[v]
          /\ pc'[v] = pc[v] /\ caller'[v] = caller[v]
      BY <3>1 DEF Free, ChatTypeOK, TypeOK
    <3>3. at'[w] = "idle" /\ pc'[w] = "idle"
      BY <3>1 DEF Free, ChatTypeOK, TypeOK
    <3>4. QED
      BY SMTT(30), <1>0, <3>1, <3>2, <3>3, FreeType DEF ChatTypeOK, fileVars
  <2>3. ASSUME NEW i, WriteUsage(w), Ask(w, i) PROVE ChatTypeOK'
    <3>1. pc' = [pc EXCEPT ![w] = "idle"] /\ caller' = [caller EXCEPT ![w] = None]
          /\ at' = [at EXCEPT ![w] = "asking"]
          /\ UNCHANGED <<fileVars, chat, last, tried, before, superseded>>
      BY <2>3 DEF WriteUsage, Idle, Ask
    <3>2. left' \in [Workers -> Seq(Models)] /\ at' \in [Workers -> {"idle", "metering", "asking"}]
      BY <2>3, ChainType DEF Ask, ChatTypeOK
    <3>3. at[w] = "metering"
      BY <2>3 DEF WriteUsage, ChatTypeOK
    <3>4. \A v \in Workers :
          /\ at'[v] = "metering" <=> pc'[v] # "idle"
          /\ at'[v] # "idle" => server' = "up" /\ chat'[v].tenant \in Tenants
          /\ at'[v] = "metering" => chat'[v].tenant = caller'[v]
      BY <3>1, <3>3 DEF ChatTypeOK, TypeOK, fileVars
    <3>5. QED
      BY <1>0, <3>1, <3>2, <3>4 DEF ChatTypeOK, fileVars
  <2>4. CASE ModelFails(w)
    <3>1. Head(left[w]) \in Models /\ Tail(left[w]) \in Seq(Models)
      BY <2>4 DEF ModelFails, Waiting, ChatTypeOK
    <3>2. QED
      BY <1>0, <2>4, <3>1 DEF ModelFails, ChatTypeOK, vars, callVars, fileVars
  <2>5. CASE AllFail(w) \/ StoreLast(w) \/ StoreRaises(w)
    <3>1. at[w] = "asking" /\ Free(w) /\ UNCHANGED <<vars, fileVars>>
      BY <2>5 DEF AllFail, StoreLast, StoreRaises, Waiting
    <3>2. Exchange(chat[w]) \in Exchanges
      BY DEF Exchange, Exchanges, ChatTypeOK
    <3>3. last' \in [Tenants -> Exchanges] /\ superseded' \subseteq Exchanges
      BY <2>5, <3>2 DEF AllFail, StoreLast, StoreRaises, ChatTypeOK
    <3>4. \A v \in Workers : v # w => at'[v] = at[v] /\ chat'[v] = chat[v]
      BY <3>1 DEF Free, ChatTypeOK
    <3>5. at'[w] = "idle" /\ pc'[w] = "idle"
      BY <3>1 DEF Free, ChatTypeOK, TypeOK, vars, callVars
    <3>6. QED
      BY <1>0, <3>1, <3>3, <3>4, <3>5, FreeType DEF ChatTypeOK, vars, callVars, fileVars
  <2>6. QED
    BY <1>4, <2>1, <2>2, <2>3, <2>4, <2>5 DEF ChatStep, CompleteDirectly, RunSpecialist
<1>5. CASE \/ \E t \in Tenants, p \in Plans : SetPlan(t, p) /\ UNCHANGED <<fileVars, chatVars>>
           \/ Midnight /\ UNCHANGED <<fileVars, chatVars>>
  BY <1>0, <1>5 DEF SetPlan, Midnight, ChatTypeOK, callVars, fileVars, chatVars
<1>6. CASE UNCHANGED chatAll
  BY <1>0, <1>6 DEF chatAll, ChatTypeOK, vars, callVars, fileVars, chatVars
<1>7. QED
  BY <1>1, <1>2, <1>3, <1>4, <1>5, <1>6 DEF ChatNext

(* Everything a chat keeps has its type, and a chat is being metered exactly*)
(* while its call to the meter is open.                                     *)
THEOREM ChatTypeCorrect == ChatSpec => []ChatTypeOK
<1>1. ChatInit => ChatTypeOK
  <2> SUFFICES ASSUME ChatInit PROVE ChatTypeOK
    OBVIOUS
  <2>1. TypeOK
    BY MeteringAssumption, LimitType DEF ChatInit, Init, TypeOK, Days
  <2>2. NoExchange \in Exchanges
    BY MeteringAssumption DEF NoExchange, Exchanges
  <2>3. QED
    BY <2>1, <2>2, FileType, MeteringAssumption
       DEF ChatInit, Init, ChatTypeOK, NoChat, NoAgents, Resolved
<1>2. ChatTypeOK /\ [ChatNext]_chatAll => ChatTypeOK'
  BY ChatTypeStep
<1>3. QED
  BY <1>1, <1>2, PTL DEF ChatSpec

-----------------------------------------------------------------------------
LEMMA OneMoreFile ==
    ASSUME NEW reg, NEW files, NEW n \in Nat,
           IsRegistryOf(reg, files, n), files[n + 1] # Unparsable
    PROVE  IsRegistryOf(Registered(reg, files[n + 1]), files, n + 1)
<1> DEFINE bp == files[n + 1]
           new == Registered(reg, bp)
<1>1. /\ DOMAIN new = DOMAIN reg \cup {bp.name}
      /\ new[bp.name] = bp
      /\ \A a \in DOMAIN reg : a # bp.name => new[a] = reg[a]
  BY DEF Registered
<1>2. 1..(n + 1) = (1..n) \cup {n + 1}
  OBVIOUS
<1> HIDE DEF new
<1>3. \A i \in 1..(n + 1) : files[i] # Unparsable /\ files[i].name \in DOMAIN new
  BY <1>1, <1>2 DEF IsRegistryOf
<1>4. ASSUME NEW a \in DOMAIN new
      PROVE  \E i \in 1..(n + 1) :
                /\ files[i] = new[a] /\ new[a].name = a
                /\ \A j \in 1..(n + 1) : files[j].name = a => j <= i
  <2>1. CASE a = bp.name
    BY <1>1, <2>1
  <2>2. CASE a # bp.name
    <3>1. PICK i \in 1..n : /\ files[i] = reg[a] /\ reg[a].name = a
                            /\ \A j \in 1..n : files[j].name = a => j <= i
      BY <1>1, <2>2 DEF IsRegistryOf
    <3>2. new[a] = reg[a]
      BY <1>1, <2>2
    <3>3. \A j \in 1..(n + 1) : files[j].name = a => j <= i
      BY <1>2, <2>2, <3>1
    <3>4. QED
      BY <3>1, <3>2, <3>3
  <2>3. QED
    BY <2>1, <2>2
<1>5. QED
  BY <1>3, <1>4 DEF IsRegistryOf, new

LoadInv ==
    /\ server = "loading" => IsRegistryOf(registry, disk, loaded)
    /\ AgentsOfOneDeployment

LEMMA LoadInvInductive ==
    ASSUME ChatTypeOK, LoadInv, [ChatNext]_chatAll PROVE LoadInv'
<1> USE DEF LoadInv, AgentsOfOneDeployment
<1>1. CASE Boot
  BY <1>1 DEF Boot, IsRegistryOf, NoAgents
<1>2. CASE LoadNext
  <2>1. loaded \in Nat
    BY FileType DEF ChatTypeOK
  <2>2. QED
    BY <1>2, <2>1, OneMoreFile DEF LoadNext
<1>3. CASE LoadRaises \/ Crash
  BY <1>3 DEF LoadRaises, Crash
<1>4. CASE Serve
  BY <1>4 DEF Serve, ChatTypeOK
<1>5. ASSUME NEW d \in Deployments, Deploy(d) PROVE LoadInv'
  BY <1>5 DEF Deploy
<1>6. CASE UNCHANGED fileVars
  BY <1>6 DEF fileVars
<1>7. \/ Boot \/ LoadNext \/ LoadRaises \/ Serve \/ Crash
      \/ \E d \in Deployments : Deploy(d)
      \/ UNCHANGED fileVars
  BY DEF ChatNext, BeginChat, ChatStep, Meter, Refuse, CompleteDirectly, RunSpecialist,
         RunCommander, UnknownAgent, Ask, ModelFails, AllFail, StoreLast, StoreRaises, chatAll
<1>8. QED
  BY <1>1, <1>2, <1>3, <1>4, <1>5, <1>6, <1>7

(* Whatever is deployed under a running process and whatever fails to parse,*)
(* those who are served have the agents of one whole deployment.            *)
THEOREM RegistriesAreWhole == ChatSpec => []AgentsOfOneDeployment
<1>1. ChatInit => LoadInv
  BY DEF ChatInit, LoadInv, AgentsOfOneDeployment
<1>2. ChatTypeOK /\ LoadInv /\ [ChatNext]_chatAll => LoadInv'
  BY LoadInvInductive
<1>3. LoadInv => AgentsOfOneDeployment
  BY DEF LoadInv
<1>4. QED
  BY <1>1, <1>2, <1>3, ChatTypeCorrect, PTL DEF ChatSpec

-----------------------------------------------------------------------------
InFlight(w) == at[w] # "idle"

(* Exchanges that are stored, were stored, or are remembered by a chat. *)
Known == superseded \cup {last[t] : t \in Tenants} \cup {before[w] : w \in Workers}

LastInv ==
    /\ LastNotSuperseded
    /\ \A e \in Known : e.number <= requests
    /\ \A w \in Workers : InFlight(w) =>
        /\ chat[w].number \in 1..requests
        /\ \A v \in Workers : InFlight(v) /\ v # w => chat[v].number # chat[w].number
        /\ \A e \in Known : e.number # chat[w].number
        /\ before[w] = NoExchange \/ before[w].tenant = chat[w].tenant

(* A chat ends without storing anything, or goes on as it is. *)
LEMMA LastInvKept ==
    ASSUME ChatTypeOK, LastInv, UNCHANGED <<requests, last, superseded>>,
           \A w \in Workers :
              \/ at'[w] = "idle" /\ before'[w] \in {NoExchange, before[w]}
              \/ InFlight(w) /\ chat'[w] = chat[w] /\ before'[w] = before[w]
    PROVE  LastInv'
<1>1. \A e \in Known' : e \in Known \/ e = NoExchange
  BY DEF Known
<1>2. NoExchange.number = 0 /\ requests \in Nat
  BY MeteringAssumption DEF NoExchange, ChatTypeOK, TypeOK
<1>3. \A e \in Known' : e.number <= requests'
  BY <1>1, <1>2 DEF LastInv
<1>4. LastNotSuperseded'
  BY DEF LastInv, LastNotSuperseded
<1>5. ASSUME NEW w \in Workers, InFlight(w)'
      PROVE  /\ chat'[w].number \in 1..requests'
             /\ \A v \in Workers : InFlight(v)' /\ v # w => chat'[v].number # chat'[w].number
             /\ \A e \in Known' : e.number # chat'[w].number
             /\ before'[w] = NoExchange \/ before'[w].tenant = chat'[w].tenant
  <2>1. InFlight(w) /\ chat'[w] = chat[w] /\ before'[w] = before[w]
    BY <1>5 DEF InFlight
  <2>2. chat[w].number \in 1..requests /\ \A e \in Known : e.number # chat[w].number
    BY <2>1 DEF LastInv
  <2>3. \A e \in Known' : e.number # chat'[w].number
    BY <1>1, <1>2, <2>1, <2>2
  <2>4. QED
    BY <1>5, <2>1, <2>2, <2>3 DEF LastInv, InFlight
<1>6. QED
  BY <1>3, <1>4, <1>5 DEF LastInv

(* A new chat takes the next number. *)
LEMMA LastInvBegins ==
    ASSUME ChatTypeOK, LastInv, NEW w \in Workers, NEW t \in Tenants,
           NEW a \in Agents \cup {None}, NEW i \in Intents \cup {None}, NEW m \in Messages,
           BeginChat(w, t, a, i, m)
    PROVE  LastInv'
<1>1. /\ requests \in Nat /\ requests' = requests + 1 /\ UNCHANGED <<last, superseded>>
      /\ before' = [before EXCEPT ![w] = last[t]] /\ at[w] = "idle"
      /\ chat'[w].number = requests' /\ chat'[w].tenant = t
      /\ \A v \in Workers : v # w => at'[v] = at[v] /\ chat'[v] = chat[v]
  BY DEF BeginChat, BeginCall, ChatTypeOK, TypeOK
<1>2. \A v \in Workers : before'[v] = IF v = w THEN last[t] ELSE before[v]
  BY <1>1 DEF ChatTypeOK
<1>3. \A e \in Known' : e \in Known
  BY <1>1, <1>2 DEF Known
<1>4. \A e \in Known : e.number <= requests /\ e.number \in Nat
  BY SMTT(30), <1>1, MeteringAssumption DEF LastInv, Known, ChatTypeOK, Exchanges
<1>5. LastNotSuperseded'
  BY <1>1 DEF LastInv, LastNotSuperseded
<1>6. ASSUME NEW v \in Workers, InFlight(v)'
      PROVE  /\ chat'[v].number \in 1..requests'
             /\ \A u \in Workers : InFlight(u)' /\ u # v => chat'[u].number # chat'[v].number
             /\ \A e \in Known' : e.number # chat'[v].number
             /\ before'[v] = NoExchange \/ before'[v].tenant = chat'[v].tenant
  <2>1. \A u \in Workers : u # w /\ InFlight(u)' => InFlight(u) /\ chat[u].number \in 1..requests
    BY <1>1 DEF InFlight, LastInv
  <2>2. CASE v = w
    <3>1. last[t] = NoExchange \/ last[t].tenant = t
      BY DEF LastInv, LastNotSuperseded
    <3>2. \A u \in Workers : InFlight(u)' /\ u # w => chat'[u].number # requests'
      BY <1>1, <2>1
    <3>3. \A e \in Known' : e.number # requests'
      BY <1>1, <1>3, <1>4
    <3>4. QED
      BY <1>1, <1>2, <2>2, <3>1, <3>2, <3>3
  <2>3. CASE v # w
    <3>1. chat'[v] = chat[v] /\ before'[v] = before[v] /\ InFlight(v)
      BY <1>1, <1>2, <1>6, <2>1, <2>3
    <3>2. /\ chat[v].number \in 1..requests
          /\ \A u \in Workers : InFlight(u) /\ u # v => chat[u].number # chat[v].number
          /\ \A e \in Known : e.number # chat[v].number
          /\ before[v] = NoExchange \/ before[v].tenant = chat[v].tenant
      BY <3>1 DEF LastInv
    <3>3. \A u \in Workers : InFlight(u)' /\ u # v => chat'[u].number # chat[v].number
      BY <1>1, <2>1, <3>2
    <3>4. QED
      BY <1>1, <1>3, <3>1, <3>2, <3>3
  <2>4. QED
    BY <2>2, <2>3
<1>7. QED
  BY <1>1, <1>3, <1>4, <1>5, <1>6 DEF LastInv

(* What is stored was neither stored nor superseded before, and supersedes  *)
(* nothing but an exchange of its own tenant.                               *)
LEMMA LastInvStores ==
    ASSUME ChatTypeOK, LastInv, NEW w \in Workers, StoreLast(w) PROVE LastInv'
<1> DEFINE c == chat[w]
           x == Exchange(c)
<1>1. /\ InFlight(w) /\ c.tenant \in Tenants /\ requests' = requests /\ requests \in Nat
      /\ last' = [last EXCEPT ![c.tenant] = x] /\ superseded' = superseded \cup {before[w]}
      /\ at'[w] = "idle" /\ before' = [before EXCEPT ![w] = NoExchange]
      /\ \A v \in Workers : v # w => at'[v] = at[v] /\ chat'[v] = chat[v]
  BY DEF StoreLast, Waiting, Free, InFlight, ChatTypeOK, TypeOK, vars
<1>2. x.tenant = c.tenant /\ x.number = c.number /\ NoExchange.number = 0
  BY DEF Exchange, NoExchange
<1> HIDE DEF c, x
<1>3. /\ c.number \in 1..requests
      /\ \A e \in Known : e.number # c.number
      /\ before[w] = NoExchange \/ before[w].tenant = c.tenant
      /\ \A v \in Workers : InFlight(v) /\ v # w => chat[v].number # c.number
  BY <1>1 DEF LastInv, c
<1>4. \A t \in Tenants : last'[t] = IF t = c.tenant THEN x ELSE last[t]
  BY <1>1 DEF ChatTypeOK
<1>5. \A v \in Workers : before'[v] = IF v = w THEN NoExchange ELSE before[v]
  BY <1>1 DEF ChatTypeOK
<1>6. \A e \in Known' : e \in Known \/ e = NoExchange \/ e = x
  BY <1>1, <1>4, <1>5 DEF Known
<1>7. x \notin superseded' /\ \A t \in Tenants : last[t] # x
  BY <1>1, <1>2, <1>3 DEF Known
<1>8. LastNotSuperseded'
  <2> SUFFICES ASSUME NEW t \in Tenants, last'[t] # NoExchange
               PROVE  last'[t].tenant = t /\ last'[t] \notin superseded'
    BY DEF LastNotSuperseded
  <2>1. CASE t = c.tenant
    BY <1>2, <1>4, <1>7, <2>1
  <2>2. CASE t # c.tenant
    <3>1. last'[t] = last[t] /\ last[t].tenant = t /\ last[t] \notin superseded
      BY <1>4, <2>2 DEF LastInv, LastNotSuperseded
    <3>2. QED
      BY <1>1, <1>3, <2>2, <3>1
  <2>3. QED
    BY <2>1, <2>2
<1>9. \A e \in Known' : e.number <= requests
  BY <1>1, <1>2, <1>3, <1>6 DEF LastInv
<1>10. ASSUME NEW v \in Workers, InFlight(v)'
       PROVE  /\ chat'[v].number \in 1..requests'
              /\ \A u \in Workers : InFlight(u)' /\ u # v => chat'[u].number # chat'[v].number
              /\ \A e \in Known' : e.number # chat'[v].number
              /\ before'[v] = NoExchange \/ before'[v].tenant = chat'[v].tenant
  <2>1. v # w /\ InFlight(v) /\ chat'[v] = chat[v] /\ before'[v] = before[v]
    BY <1>1, <1>5, <1>10 DEF InFlight
  <2>2. /\ chat[v].number \in 1..requests
        /\ \A u \in Workers : InFlight(u) /\ u # v => chat[u].number # chat[v].number
        /\ \A e \in Known : e.number # chat[v].number
        /\ before[v] = NoExchange \/ before[v].tenant = chat[v].tenant
    BY <2>1 DEF LastInv
  <2>3. chat[v].number # c.number
    BY <1>3, <2>1
  <2>4. \A e \in Known' : e.number # chat[v].number
    BY <1>1, <1>2, <1>6, <2>2, <2>3
  <2>5. \A u \in Workers : InFlight(u)' /\ u # v => chat'[u].number # chat[v].number
    BY <1>1, <2>2 DEF InFlight
  <2>6. QED
    BY <1>1, <2>1, <2>2, <2>4, <2>5
<1>11. QED
  BY <1>1, <1>8, <1>9, <1>10 DEF LastInv

LEMMA LastInvInductive ==
    ASSUME ChatTypeOK, LastInv, [ChatNext]_chatAll PROVE LastInv'
<1>1. ASSUME NEW w \in Workers, NEW t \in Tenants, NEW a \in Agents \cup {None},
             NEW i \in Intents \cup {None}, NEW m \in Messages, BeginChat(w, t, a, i, m)
      PROVE  LastInv'
  BY <1>1, LastInvBegins
<1>2. ASSUME NEW w \in Workers, StoreLast(w) PROVE LastInv'
  BY <1>2, LastInvStores
<1>3. CASE UNCHANGED <<requests, at, chat, last, before, superseded>>
  BY <1>3, LastInvKept DEF InFlight, ChatTypeOK
<1>4. CASE Crash
  BY <1>4, LastInvKept DEF Crash, Restart, vars
<1>5. ASSUME NEW w \in Workers,
             Refuse(w) \/ RunCommander(w) \/ UnknownAgent(w) \/ AllFail(w) \/ StoreRaises(w)
      PROVE  LastInv'
  <2>1. Free(w) /\ UNCHANGED <<requests, last, superseded>>
    BY <1>5 DEF Refuse, Deny, RunCommander, UnknownAgent, WriteUsage, AllFail, StoreRaises, vars
  <2>2. \A v \in Workers : IF v = w THEN at'[v] = "idle" /\ before'[v] = NoExchange
                           ELSE at'[v] = at[v] /\ chat'[v] = chat[v] /\ before'[v] = before[v]
    BY <2>1 DEF Free, ChatTypeOK
  <2>3. QED
    BY <2>1, <2>2, LastInvKept DEF InFlight
<1>6. ASSUME NEW w \in Workers, CompleteDirectly(w) \/ RunSpecialist(w) PROVE LastInv'
  <2>1. WriteUsage(w) /\ at' = [at EXCEPT ![w] = "asking"]
        /\ UNCHANGED <<chat, last, before, superseded>>
    BY <1>6 DEF CompleteDirectly, RunSpecialist, Ask
  <2>2. requests' = requests /\ InFlight(w)
    BY <2>1 DEF WriteUsage, ChatTypeOK, InFlight
  <2>3. \A v \in Workers : v # w => at'[v] = at[v]
    BY <2>1 DEF ChatTypeOK
  <2>4. QED
    BY <2>1, <2>2, <2>3, LastInvKept DEF InFlight
<1>7. ASSUME NEW w \in Workers, Meter(w) \/ ModelFails(w) PROVE LastInv'
  BY <1>3, <1>7 DEF Meter, ReadUsage, ModelFails, chatVars, vars
<1>8. CASE \/ Boot \/ LoadNext \/ LoadRaises \/ Serve \/ \E d \in Deployments : Deploy(d)
           \/ \E t \in Tenants, p \in Plans : SetPlan(t, p) /\ UNCHANGED <<fileVars, chatVars>>
           \/ Midnight /\ UNCHANGED <<fileVars, chatVars>>
           \/ UNCHANGED chatAll
  BY <1>3, <1>8 DEF Boot, LoadNext, LoadRaises, Serve, Deploy, SetPlan, Midnight,
                    chatVars, chatAll, vars
<1>9. QED
  BY <1>1, <1>2, <1>4, <1>5, <1>6, <1>7, <1>8 DEF ChatNext, ChatStep

(* What is stored as the last exchange of a tenant is its own, and is never *)
(* one that an exchange stored later had found in its place.                *)
THEOREM LastExchangesAdvance == ChatSpec => []LastNotSuperseded
<1>1. ChatInit => LastInv
  BY MeteringAssumption
     DEF ChatInit, Init, LastInv, LastNotSuperseded, Known, InFlight, NoExchange
<1>2. ChatTypeOK /\ LastInv /\ [ChatNext]_chatAll => LastInv'
  BY LastInvInductive
<1>3. LastInv => LastNotSuperseded
  BY DEF LastInv
<1>4. QED
  BY <1>1, <1>2, <1>3, ChatTypeCorrect, PTL DEF ChatSpec

-----------------------------------------------------------------------------
(* i is the intent the chat on w gives the inference kernel. *)
Gives(w, i) ==
    /\ i \in Resolved \cup {None}
    /\ IF chat[w].agent = None THEN i = chat[w].intent
       ELSE registry[chat[w].agent].preference = (IF i = None THEN "auto" ELSE i)

ChainInv ==
    \A w \in Workers :
        /\ at[w] = "asking" => \E i : Gives(w, i) /\ tried[w] \o left[w] = Chain(i)
        /\ at[w] # "asking" => tried[w] = <<>>

LEMMA FailOver ==
    ASSUME NEW S, NEW s \in Seq(S), NEW r \in Seq(S), r # <<>>
    PROVE  Append(s, Head(r)) \o Tail(r) = s \o r
  OBVIOUS

(* A worker that is free, or whose chat waits as it did, is as it should be.*)
LEMMA ChainInvKept ==
    ASSUME ChainInv, NEW w \in Workers,
           \/ at'[w] = "idle" /\ tried'[w] = <<>>
           \/ /\ at[w] = "asking" => registry' = registry
              /\ at'[w] = at[w] /\ tried'[w] = tried[w]
              /\ at[w] = "asking" => left'[w] = left[w] /\ chat'[w] = chat[w]
    PROVE  /\ at'[w] = "asking" => \E i : Gives(w, i)' /\ tried'[w] \o left'[w] = Chain(i)
           /\ at'[w] # "asking" => tried'[w] = <<>>
  BY DEF ChainInv, Gives

LEMMA ChainInvInductive ==
    ASSUME ChatTypeOK, ChainInv, [ChatNext]_chatAll PROVE ChainInv'
<1>1. CASE \/ Boot \/ LoadNext \/ LoadRaises \/ Serve \/ \E d \in Deployments : Deploy(d)
           \/ \E t \in Tenants, p \in Plans : SetPlan(t, p) /\ UNCHANGED <<fileVars, chatVars>>
           \/ Midnight /\ UNCHANGED <<fileVars, chatVars>>
           \/ UNCHANGED chatAll
  <2>1. UNCHANGED chatVars /\ (registry' = registry \/ server # "up")
    BY <1>1 DEF Boot, LoadNext, LoadRaises, Serve, Deploy, chatAll, fileVars
  <2>2. \A w \in Workers : at[w] = "asking" => registry' = registry
    BY <2>1 DEF ChatTypeOK
  <2>3. UNCHANGED <<at, chat, left, tried>>
    BY <2>1 DEF chatVars
  <2>4. QED
    BY <2>2, <2>3, ChainInvKept DEF ChainInv
<1>2. CASE Crash
  BY <1>2, ChainInvKept DEF Crash, ChainInv
<1>3. ASSUME NEW w \in Workers, NEW t \in Tenants, NEW a \in Agents \cup {None},
             NEW i \in Intents \cup {None}, NEW m \in Messages, BeginChat(w, t, a, i, m)
      PROVE  ChainInv'
  <2>1. /\ registry' = registry /\ at'[w] = "metering" /\ at[w] = "idle" /\ UNCHANGED <<left, tried>>
        /\ \A v \in Workers : v # w => at'[v] = at[v] /\ chat'[v] = chat[v]
    BY <1>3 DEF BeginChat, ChatTypeOK, fileVars
  <2>2. tried'[w] = <<>>
    BY <2>1 DEF ChainInv
  <2>3. QED
    BY <2>1, <2>2, ChainInvKept DEF ChainInv
<1>4. ASSUME NEW w \in Workers, Meter(w) PROVE ChainInv'
  BY <1>4, ChainInvKept DEF Meter, fileVars, chatVars, ChainInv
<1>5. ASSUME NEW w \in Workers, \/ Refuse(w) \/ RunCommander(w) \/ UnknownAgent(w)
                                \/ AllFail(w) \/ StoreLast(w) \/ StoreRaises(w)
      PROVE  ChainInv'
  <2>1. Free(w) /\ registry' = registry
    BY <1>5 DEF Refuse, RunCommander, UnknownAgent, AllFail, StoreLast, StoreRaises, fileVars
  <2>2. /\ at'[w] = "idle" /\ tried'[w] = <<>>
        /\ \A v \in Workers : v # w => at'[v] = at[v] /\ chat'[v] = chat[v]
                                   /\ left'[v] = left[v] /\ tried'[v] = tried[v]
    BY <2>1 DEF Free, ChatTypeOK
  <2>3. QED
    BY <2>1, <2>2, ChainInvKept DEF ChainInv
<1>6. ASSUME NEW w \in Workers, NEW i, WriteUsage(w), Ask(w, i), Gives(w, i) PROVE ChainInv'
  <2>1. /\ registry' = registry /\ UNCHANGED <<chat, tried>>
        /\ at'[w] = "asking" /\ left'[w] = Chain(i) /\ at[w] = "metering"
        /\ \A v \in Workers : v # w => at'[v] = at[v] /\ left'[v] = left[v]
    BY <1>6 DEF Ask, WriteUsage, ChatTypeOK, fileVars
  <2>2. tried'[w] \o left'[w] = Chain(i)
    <3>1. tried'[w] = <<>> /\ left'[w] \in Seq(Models)
      BY <2>1, ChainType DEF ChainInv
    <3>2. tried'[w] \o left'[w] = left'[w]
      BY <3>1
    <3>3. QED
      BY <2>1, <3>2
  <2>3. Gives(w, i)'
    BY <1>6, <2>1 DEF Gives
  <2>4. QED
    BY <2>1, <2>2, <2>3, ChainInvKept DEF ChainInv
<1>7. ASSUME NEW w \in Workers, CompleteDirectly(w) PROVE ChainInv'
  <2>1. Gives(w, chat[w].intent) /\ WriteUsage(w) /\ Ask(w, chat[w].intent)
    BY <1>7 DEF CompleteDirectly, Gives, ChatTypeOK
  <2>2. QED
    BY <2>1, <1>6
<1>8. ASSUME NEW w \in Workers, RunSpecialist(w) PROVE ChainInv'
  <2>1. WriteUsage(w) /\ Ask(w, Preference(w)) /\ chat[w].agent \in DOMAIN registry
    BY <1>8 DEF RunSpecialist
  <2>2. registry[chat[w].agent].preference \in Intents \cup {"auto"}
    BY <2>1 DEF ChatTypeOK, Blueprints
  <2>3. chat[w].agent # None
    BY <2>1, ChatAssumption DEF ChatTypeOK
  <2>4. Gives(w, Preference(w))
    BY <2>2, <2>3, ChatAssumption DEF Gives, Preference, Resolved
  <2>5. QED
    BY <2>1, <2>4, <1>6
<1>9. ASSUME NEW w \in Workers, ModelFails(w) PROVE ChainInv'
  <2>1. /\ at[w] = "asking" /\ left[w] # <<>> /\ UNCHANGED <<registry, at, chat>>
        /\ tried'[w] = Append(tried[w], Head(left[w])) /\ left'[w] = Tail(left[w])
        /\ \A v \in Workers : v # w => tried'[v] = tried[v] /\ left'[v] = left[v]
    BY <1>9 DEF ModelFails, Waiting, ChatTypeOK, fileVars
  <2>2. tried[w] \in Seq(Models) /\ left[w] \in Seq(Models)
    BY DEF ChatTypeOK
  <2>3. tried'[w] \o left'[w] = tried[w] \o left[w]
    BY <2>1, <2>2, FailOver
  <2>4. PICK i : Gives(w, i) /\ tried[w] \o left[w] = Chain(i)
    BY <2>1 DEF ChainInv
  <2>5. Gives(w, i)'
    BY <2>1, <2>4 DEF Gives
  <2>6. QED
    BY <2>1, <2>3, <2>4, <2>5, ChainInvKept DEF ChainInv
<1>10. QED
  BY <1>1, <1>2, <1>3, <1>4, <1>5, <1>7, <1>8, <1>9 DEF ChatNext, ChatStep

(* A chat ends with "all inference providers failed" only after each model  *)
(* of its chain has refused it, the preferred one first.                    *)
THEOREM FailoverIsComplete == ChatSpec => FailoverComplete
<1>1. ChatInit => ChainInv
  BY DEF ChatInit, ChainInv
<1>2. ChatTypeOK /\ ChainInv /\ [ChatNext]_chatAll => ChainInv'
  BY ChainInvInductive
<1>3. ChatTypeOK /\ ChainInv =>
        \A w \in Workers : AllFail(w) =>
          \E i \in Resolved \cup {None} :
            /\ IF chat[w].agent = None THEN i = chat[w].intent
               ELSE registry[chat[w].agent].preference = (IF i = None THEN "auto" ELSE i)
            /\ tried[w] = <<SelectModel(i)>> \o FALLBACK_CHAIN
  <2> SUFFICES ASSUME ChatTypeOK, ChainInv, NEW w \in Workers, AllFail(w)
               PROVE  \E i : Gives(w, i) /\ tried[w] = Chain(i)
    BY DEF Gives, Chain
  <2>1. at[w] = "asking" /\ left[w] = <<>> /\ tried[w] \in Seq(Models)
    BY DEF AllFail, ChatTypeOK
  <2>2. tried[w] \o left[w] = tried[w]
    BY <2>1
  <2>3. QED
    BY <2>1, <2>2 DEF ChainInv
<1>4. QED
  BY <1>1, <1>2, <1>3, ChatTypeCorrect, PTL DEF ChatSpec, FailoverComplete

=============================================================================
