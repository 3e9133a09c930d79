--------------------------- MODULE RolloutRouting ---------------------------
(***************************************************************************)
(* How the generations of verl's fully asynchronous training reach an LLM  *)
(* server, and how a generation lives through the weight updates and the   *)
(* trainer-side validation, which abort it wherever it runs.               *)
(*                                                                         *)
(* Three kinds of actors: the agent loops, each with one conversation, call *)
(* FullyAsyncLLMServerClient.generate; the GlobalRequestLoadBalancer picks *)
(* the server; the Trainer pauses, updates, adds, removes and resumes the  *)
(* servers, one remote call after the other (Script).  The calls of one    *)
(* asyncio.gather are steps of their own, in any order.                    *)
(*                                                                         *)
(* Standalone servers serve from the start to the end.  Hybrid ones share  *)
(* their GPUs with the Trainer: they sleep, except during a validation, or *)
(* are only out of the pool if free_cache_engine is off.                   *)
(*                                                                         *)
(* Token ids are counted, not named.  Left out: the handles the balancer   *)
(* keeps beside the counts, log probabilities and routed experts, and a    *)
(* limit in sampling_params, which no agent loop sets.                     *)
(***************************************************************************)
EXTENDS Integers, Sequences, FiniteSets

CONSTANTS
  Conversations,   \* request ids: one trajectory each, with one or more turns
  Standalone,      \* servers on GPUs of their own
  Hybrid,          \* servers on the GPUs of the Trainer
  None,            \* no server
  Prompt,          \* how many token ids the prompt of a conversation has
  PromptLength,    \* rollout.prompt_length
  ResponseLength,  \* rollout.response_length
  ToolLength,      \* how many token ids a tool's answer adds
  CacheSize,       \* max_cache_size of the balancer
  PartialRollout,  \* async_training.partial_rollout
  FreeCacheEngine, \* rollout.free_cache_engine: servers can sleep
  Unpaused,        \* servers that an abort may leave running: all before vLLM 0.12
  ValBeforeTrain,  \* trainer.val_before_train
  TestFreq,        \* trainer.test_freq; not positive: no validation
  MaxTurns,        \* how many turns the agent loop of a conversation has at most
  MaxVersion       \* bound: how often the weights are updated

Servers == Standalone \cup Hybrid

ASSUME RoutingAssumption ==
  /\ IsFiniteSet(Conversations) /\ IsFiniteSet(Servers)
  /\ Standalone # {} /\ Standalone \cap Hybrid = {} /\ None \notin Servers
  /\ {PromptLength, ResponseLength, CacheSize} \subseteq Nat \ {0} /\ TestFreq \in Int
  /\ Prompt \in [Conversations -> 1..PromptLength]
  /\ MaxTurns \in [Conversations -> Nat]
  /\ {ToolLength, MaxVersion} \subseteq Nat
  /\ Unpaused \subseteq Servers
  /\ {PartialRollout, FreeCacheEngine, ValBeforeTrain} \subseteq BOOLEAN

VARIABLES
  inflight,  \* balancer: _inflight_requests, a count for each server in the pool
  route,     \* balancer: _request_id_to_server
  pc,        \* conversation: where it stands
  turn,      \* conversation: how many calls of generate it has begun
  server,    \* conversation: the server it acquired and the balancer still counts
  leaving,   \* the conversations whose release_server is on its way
  length,    \* conversation: how many ids it has, the prompt's included
  got,       \* engine: how many ids it has produced in the present request
  first,     \* conversation: min_global_steps, or -1 before the first output
  paused,    \* the servers whose engine takes no new request
  loose,     \* history: the servers that were to be paused and are not
  asleep,    \* the servers whose memory is given away, or not yet all back
  weights,   \* server: the version of its weights, -1 if it has none
  label,     \* server: global_steps, the version it tells with its outputs
  version,   \* trainer: current_param_version
  step,      \* trainer: its place in Script, 0 while it trains
  done       \* trainer: how many calls of the present gather a server has had

balancer == <<inflight, route>>
clients  == <<pc, turn, server, leaving, length, got, first>>
engines  == <<paused, loose, asleep, weights, label>>
trainer  == <<version, step, done>>
vars == <<balancer, clients, engines, trainer>>

Pool == DOMAIN inflight

\* A gather: every server of a set has these calls, one after the other.
Each(servers, calls) == [on |-> servers, calls |-> calls]

\* checkpoint_manager.update_weights: release_kv_cache only drains a server, and
\* resume_kv_cache does nothing.
Sync ==
  << Each(Standalone, <<"abort">>),
     Each(Standalone, <<"drain">>),
     Each(Standalone, <<"load", "label">>),
     Each(Standalone, <<"resume">>) >>

\* hybrid_checkpoint_manager.update_weights, on the workers of the Trainer.
HybridUpdate ==
  IF FreeCacheEngine THEN <<"wake_weights", "load", "label", "wake_cache">>
                     ELSE <<"load", "label">>

HybridSleep == IF FreeCacheEngine THEN <<"drain", "sleep">> ELSE <<"drain">>

\* Mutant of Validate: the hybrid servers sleep before they leave the pool.
ValidateSleepFirst ==
  << Each(Hybrid, HybridUpdate),
     Each(Standalone, <<"abort">>),
     Each(Hybrid, <<"abort">>),
     Each({}, <<"add">>),
     Each(Standalone, <<"resume">>),
     Each(Hybrid, <<"resume">>),
     Each({}, <<"validate">>),
     Each(Standalone, <<"abort">>),
     Each(Hybrid, <<"abort">>),
     Each(Hybrid, HybridSleep),
     Each({}, <<"remove">>),
     Each(Standalone, <<"resume">>),
     Each(Hybrid, <<"resume">>) >>

\* _trainer_side_validate
Validate ==
  << Each(Hybrid, HybridUpdate),
     Each(Standalone, <<"abort">>),
     Each(Hybrid, <<"abort">>),
     Each({}, <<"add">>),
     Each(Standalone, <<"resume">>),
     Each(Hybrid, <<"resume">>),
     Each({}, <<"validate">>),
     Each(Standalone, <<"abort">>),
     Each(Hybrid, <<"abort">>),
     Each({}, <<"remove">>),
     Each(Hybrid, HybridSleep),
     Each(Standalone, <<"resume">>),
     Each(Hybrid, <<"resume">>) >>

\* What the Trainer does after a version is complete.
Script == Sync \o Validate

Validation == Len(Sync) + 1

\* Between acquire_server and the release_server of the finally clause.
Holding == {r \in Conversations : pc[r] \in {"routed", "running", "aborted"}} \cup leaving

Outstanding(s) == {r \in Holding : server[r] = s}

TypeOK ==
  /\ Standalone \subseteq Pool /\ Pool \subseteq Servers /\ inflight \in [Pool -> Nat]
  /\ route \in [Conversations -> Servers \cup {None}]
  /\ pc \in [Conversations -> {"idle", "routed", "running", "aborted", "waiting", "failed"}]
  /\ turn \in [Conversations -> Nat]
  /\ server \in [Conversations -> Servers \cup {None}]
  /\ leaving \subseteq Conversations
  /\ \A r \in Conversations : server[r] \in Servers <=> r \in Holding
  /\ \A r \in leaving : pc[r] \in {"idle", "waiting", "failed"}
  /\ length \in [Conversations -> Nat] /\ got \in [Conversations -> Nat]
  /\ first \in [Conversations -> Nat \cup {-1}]
  /\ paused \subseteq Servers /\ loose \subseteq Servers /\ asleep \subseteq Hybrid
  /\ weights \in [Servers -> Nat \cup {-1}] /\ label \in [Servers -> Nat \cup {-1}]
  /\ version \in Nat /\ step \in 0..Len(Script)
  /\ done \in [Servers -> Nat]

\* All servers are loaded at first, the hybrid ones with no weights of the Trainer,
\* and the standalone ones have had the first version.
Init ==
  /\ inflight = [s \in Standalone |-> 0]
  /\ route = [r \in Conversations |-> None]
  /\ pc = [r \in Conversations |-> "idle"]
  /\ turn = [r \in Conversations |-> 0]
  /\ server = [r \in Conversations |-> None] /\ leaving = {}
  /\ length = Prompt
  /\ got = [r \in Conversations |-> 0]
  /\ first = [r \in Conversations |-> -1]
  /\ paused = {} /\ loose = {}
  /\ asleep = IF FreeCacheEngine THEN Hybrid ELSE {}
  /\ weights = [s \in Servers |-> IF s \in Standalone THEN 0 ELSE -1]
  /\ label = weights
  /\ version = 0
  /\ step = IF ValBeforeTrain /\ Hybrid # {} THEN Validation ELSE 0
  /\ done = [s \in Servers |-> 0]

-----------------------------------------------------------------------------
(* The load balancer: an actor that serves one call at a time. *)

LeastLoaded == {s \in Pool : \A t \in Pool : inflight[s] <= inflight[t]}

\* Which conversation a full cache forgets is left open.
Remember(r, s) ==
  LET others == {o \in Conversations \ {r} : route[o] # None}
  IN  IF route[r] = s \/ Cardinality(others) < CacheSize
      THEN route' = [route EXCEPT ![r] = s]
      ELSE \E o \in others : route' = [route EXCEPT ![o] = None, ![r] = s]

\* acquire_server: the server of the conversation's last request while it is in
\* the pool, otherwise one with the fewest requests in flight.  The balancer
\* takes the calls of one caller in their order, the release before the acquire.
Acquire(r) ==
  r \notin leaving /\ \E s \in IF route[r] \in Pool THEN {route[r]} ELSE LeastLoaded :
    /\ inflight' = [inflight EXCEPT ![s] = @ + 1]
    /\ Remember(r, s)
    /\ server' = [server EXCEPT ![r] = s]
    /\ pc' = [pc EXCEPT ![r] = "routed"]

\* release_server
ReceiveRelease(r) ==
  /\ r \in leaving
  /\ leaving' = leaving \ {r}
  /\ server' = [server EXCEPT ![r] = None]
  /\ inflight' = IF server[r] \in Pool /\ inflight[server[r]] > 0
                 THEN [inflight EXCEPT ![server[r]] = @ - 1] ELSE inflight
  /\ UNCHANGED <<route, pc, turn, length, got, first, engines, trainer>>

-----------------------------------------------------------------------------
(* The conversations: the agent loop, FullyAsyncLLMServerClient.generate   *)
(* and the engine that serves the request.                                 *)

Response(r) == length[r] - Prompt[r]

Least(a, b) == IF a <= b THEN a ELSE b

\* Mutant of MaxTokens: what the conversation already has is not looked at.
MaxTokensFixed(n) == ResponseLength

\* The default max_tokens of a request that brings n ids.
MaxTokens(n) ==
  IF PromptLength + ResponseLength <= n THEN 1
  ELSE Least(ResponseLength, PromptLength + ResponseLength - n)

\* The next turn of the agent loop; a tool has answered before all but the first.
Begin(r) ==
  /\ pc[r] = "idle" /\ turn[r] < MaxTurns[r]
  /\ turn[r] > 0 => Response(r) + ToolLength < ResponseLength
  /\ turn' = [turn EXCEPT ![r] = @ + 1]
  /\ length' = [length EXCEPT ![r] = IF turn[r] = 0 THEN @ ELSE @ + ToolLength]
  /\ Acquire(r)
  /\ UNCHANGED <<leaving, got, first, engines, trainer>>

\* The loop of generate, one second after an aborted request.
Retry(r) ==
  /\ pc[r] = "waiting"
  /\ Acquire(r)
  /\ UNCHANGED <<turn, leaving, length, got, first, engines, trainer>>

\* The request reaches its server and starts as soon as the engine is not
\* paused, asleep or not.
Start(r) ==
  /\ pc[r] = "routed" /\ server[r] \notin paused
  /\ pc' = [pc EXCEPT ![r] = "running"]
  /\ UNCHANGED <<balancer, turn, server, leaving, length, got, first>>
  /\ UNCHANGED <<engines, trainer>>

Runs(r) == pc[r] = "running" /\ server[r] \notin asleep

\* An id that is not the last one of the request.
Generate(r) ==
  /\ Runs(r) /\ got[r] + 1 < MaxTokens(length[r])
  /\ got' = [got EXCEPT ![r] = @ + 1]
  /\ UNCHANGED <<balancer, pc, turn, server, leaving, length, first>>
  /\ UNCHANGED <<engines, trainer>>

\* The finally clause: the release is sent and not waited for.
SendRelease(r) == leaving' = leaving \cup {r}

\* Every output carries the global_steps of its server, unless it is empty.
LabelOutputs(rs) ==
  first' = [r \in Conversations |->
              IF r \in rs /\ first[r] = -1 THEN label[server[r]] ELSE first[r]]

\* The last id, and the answer reaches the agent loop.
Complete(r) ==
  /\ Runs(r)
  /\ pc' = [pc EXCEPT ![r] = "idle"]
  /\ length' = [length EXCEPT ![r] = @ + got[r] + 1]
  /\ got' = [got EXCEPT ![r] = 0]
  /\ LabelOutputs({r})
  /\ SendRelease(r)
  /\ UNCHANGED <<balancer, turn, server, engines, trainer>>

\* The output of an aborted request reaches the loop of generate.
TakeAborted(r) ==
  /\ pc[r] = "aborted"
  /\ pc' = [pc EXCEPT ![r] = IF PartialRollout THEN "waiting" ELSE "idle"]
  /\ length' = [length EXCEPT ![r] = @ + got[r]]
  /\ got' = [got EXCEPT ![r] = 0]
  /\ SendRelease(r)
  /\ UNCHANGED <<balancer, turn, server, first, engines, trainer>>

\* Mutant of Raise: the server is released after generate, not finally.
RaiseUnreleased(r) ==
  /\ pc[r] = "running"
  /\ pc' = [pc EXCEPT ![r] = "failed"]
  /\ UNCHANGED <<balancer, turn, server, leaving, length, got, first>>
  /\ UNCHANGED <<engines, trainer>>

\* The engine fails the request; the exception ends the agent loop.
Raise(r) ==
  /\ pc[r] = "running"
  /\ pc' = [pc EXCEPT ![r] = "failed"]
  /\ SendRelease(r)
  /\ UNCHANGED <<balancer, turn, server, length, got, first>>
  /\ UNCHANGED <<engines, trainer>>

-----------------------------------------------------------------------------
(* The trainer. *)

\* Mutant of NextStep: the last step, a resume of sleeping servers, is skipped.
NextStepShort ==
  IF step = Len(Sync) /\ (Hybrid = {} \/ TestFreq <= 0 \/ version % TestFreq # 0) THEN 0
  ELSE (step + 1) % Len(Script)

\* _fit_validate returns at once if no validation is due.
NextStep ==
  IF step = Len(Sync) /\ (Hybrid = {} \/ TestFreq <= 0 \/ version % TestFreq # 0) THEN 0
  ELSE (step + 1) % (Len(Script) + 1)

Advance == step' = NextStep /\ done' = [s \in Servers |-> 0]

\* The next call of the present gather to a server.
Tick(op, s) ==
  /\ step # 0 /\ s \in Script[step].on
  /\ LET calls == Script[step].calls
         now == [done EXCEPT ![s] = @ + 1]
     IN  /\ done[s] < Len(calls) /\ calls[done[s] + 1] = op
         /\ IF \A t \in Script[step].on : now[t] = Len(calls)
            THEN Advance
            ELSE done' = now /\ UNCHANGED step
  /\ UNCHANGED version

\* Enough updates for a new version; _fit_update_weights begins.
StartSync ==
  /\ step = 0 /\ version < MaxVersion
  /\ version' = version + 1
  /\ Advance
  /\ UNCHANGED <<balancer, clients, engines>>

Running(s) == {r \in Conversations : pc[r] = "running" /\ server[r] = s}

\* The requests of a server are aborted; those without an output get no label.
Abort(hit) ==
  /\ pc' = [r \in Conversations |-> IF r \in hit THEN "aborted" ELSE pc[r]]
  /\ LabelOutputs({r \in hit : got[r] > 0})

\* abort_all_requests: the engine is paused and what runs on it is aborted.  A
\* request that has not started yet stays and starts when the engine resumes.
\* Before vLLM 0.12 nothing is paused; and an exception, before or after the one or
\* the other, is logged and ends the call.
AbortReplica(s) ==
  /\ Tick("abort", s)
  /\ \/ paused' = paused \cup {s} /\ UNCHANGED loose /\ Abort(Running(s))
     \/ /\ s \in Unpaused
        /\ \/ paused' = paused \cup {s} /\ UNCHANGED loose
           \/ loose' = loose \cup {s} /\ UNCHANGED paused
        /\ \E hit \in {Running(s), {}} : Abort(hit)
  /\ UNCHANGED <<balancer, turn, server, leaving, length, got, asleep, weights, label>>

\* wait_for_requests_to_drain
DrainReplica(s) ==
  /\ Tick("drain", s)
  /\ Running(s) = {}
  /\ UNCHANGED <<balancer, clients, engines>>

\* Mutant of WakeWeights: all of the memory is taken back, as by default.
WakeAll(s) ==
  /\ Tick("wake_weights", s)
  /\ asleep' = asleep \ {s}
  /\ UNCHANGED <<balancer, clients, paused, loose, weights, label>>

\* There is memory for the weights again, with nothing in it.
WakeWeights(s) ==
  /\ Tick("wake_weights", s)
  /\ UNCHANGED <<balancer, clients, engines>>

\* Mutant of LoadWeights: a hybrid server is left with what it has.
LoadStandalone(s) ==
  /\ Tick("load", s)
  /\ weights' = IF s \in Hybrid THEN weights ELSE [weights EXCEPT ![s] = version]
  /\ UNCHANGED <<balancer, clients, paused, loose, asleep, label>>

\* update_weights of the server adapter: the weights, then set_global_steps.
LoadWeights(s) ==
  /\ Tick("load", s)
  /\ weights' = [weights EXCEPT ![s] = version]
  /\ UNCHANGED <<balancer, clients, paused, loose, asleep, label>>

SetGlobalSteps(s) ==
  /\ Tick("label", s)
  /\ label' = [label EXCEPT ![s] = version]
  /\ UNCHANGED <<balancer, clients, paused, loose, asleep, weights>>

\* A hybrid server is awake when it has memory for its cache, too.
WakeCache(s) ==
  /\ Tick("wake_cache", s)
  /\ asleep' = asleep \ {s}
  /\ UNCHANGED <<balancer, clients, paused, loose, weights, label>>

\* resume_generation
ResumeReplica(s) ==
  /\ Tick("resume", s)
  /\ paused' = paused \ {s} /\ loose' = loose \ {s}
  /\ UNCHANGED <<balancer, clients, asleep, weights, label>>

\* The weights are thrown away.
SleepReplica(s) ==
  /\ Tick("sleep", s)
  /\ asleep' = asleep \cup {s}
  /\ weights' = [weights EXCEPT ![s] = -1]
  /\ UNCHANGED <<balancer, clients, paused, loose, label>>

\* A call of the balancer or of do_validate.
Call(op) ==
  /\ step # 0 /\ Script[step].calls = <<op>>
  /\ Advance
  /\ UNCHANGED <<clients, engines, version>>

\* add_replicas: a server comes, or comes back, with a count of 0.
AddReplicas ==
  /\ Call("add")
  /\ inflight' = [s \in Pool \cup Hybrid |-> IF s \in Pool THEN inflight[s] ELSE 0]
  /\ UNCHANGED route

\* remove_replicas: the conversations that are routed to a server, or wait for
\* it, stay so.
RemoveReplicas ==
  /\ Call("remove")
  /\ inflight' = [s \in Pool \ Hybrid |-> inflight[s]]
  /\ UNCHANGED route

\* do_validate has returned; its generations are among the conversations.
EndValidation == Call("validate") /\ UNCHANGED balancer

Trainer ==
  \/ StartSync \/ AddReplicas \/ RemoveReplicas \/ EndValidation
  \/ \E s \in Servers :
       \/ AbortReplica(s) \/ DrainReplica(s) \/ ResumeReplica(s) \/ SleepReplica(s)
       \/ WakeWeights(s) \/ LoadWeights(s) \/ SetGlobalSteps(s) \/ WakeCache(s)

Conversation(r) ==
  \/ Begin(r) \/ Retry(r) \/ Start(r) \/ Complete(r) \/ TakeAborted(r)

\* The bound on the updates is reached.
Over == step = 0 /\ version = MaxVersion /\ UNCHANGED vars

Next ==
  \/ \E r \in Conversations : Conversation(r) \/ Generate(r) \/ Raise(r) \/ ReceiveRelease(r)
  \/ Trainer \/ Over

Spec == Init /\ [][Next]_vars

FairSpec ==
  /\ Spec
  /\ \A r \in Conversations : WF_vars(Conversation(r))
  /\ \A r \in Conversations : WF_vars(ReceiveRelease(r))
  /\ WF_vars(Trainer)

-----------------------------------------------------------------------------
(* Properties. *)

\* The balancer's count of a standalone server is exact: the conversations that
\* acquired it and whose release has not come.  A hybrid server, which may come
\* back while old releases are on their way, is never overcounted, and no late
\* release takes its count below zero: no interruption, exception or removal
\* leaks a count.
CountsTrue ==
  \A s \in Pool :
    LET real == Cardinality(Outstanding(s))
    IN  IF s \in Standalone THEN inflight[s] = real ELSE inflight[s] \in 0..real

\* The balancer never routes to a server whose weights are not in memory.
PoolIsAwake == Pool \cap asleep = {}

\* Of a server that takes part as it is meant to: it is not paused, was paused when
\* it had to be, and is awake, or in the pool if no server ever sleeps.
Settled(s) ==
  /\ s \notin paused /\ s \notin loose /\ s \notin asleep
  /\ FreeCacheEngine \/ s \in Pool

\* All servers that take part have the same weights and tell the version of them, in
\* every moment of an update, a validation and the one-by-one resume.  Only a server
\* that an abort left running, or a hybrid one that works off its last requests
\* because it cannot sleep, may differ.
OneVersionServes ==
  \A s \in Servers : Settled(s) =>
    /\ label[s] = weights[s]
    /\ \A t \in Servers : Settled(t) => weights[t] = weights[s]

\* A trajectory never goes on with older weights than it began with, however
\* often it is aborted and wherever it goes on, but on a server that an abort left
\* running: min_global_steps is the minimum.
NeverOlder ==
  \A r \in Conversations :
    Runs(r) /\ server[r] \notin loose => first[r] <= weights[server[r]]

\* However often a generation is interrupted, prompt and response fit into the
\* two configured lengths.
LengthBound ==
  \A r \in Conversations : length[r] + got[r] <= PromptLength + ResponseLength

\* Every call of generate ends, whatever interrupts it, unless its request came
\* to a server that had fallen asleep in the meantime.
CallEnds ==
  \A r \in Conversations :
    pc[r] # "idle" ~> \/ pc[r] \in {"idle", "failed"}
                      \/ pc[r] = "running" /\ server[r] \in asleep
=============================================================================
