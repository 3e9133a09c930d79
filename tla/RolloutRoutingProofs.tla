------------------------ MODULE RolloutRoutingProofs ------------------------
(***************************************************************************)
(* What the routing keeps for every number of conversations and servers,   *)
(* every length and every number of updates and validations.               *)
(***************************************************************************)
EXTENDS RolloutRouting, FiniteSetTheorems, TLAPS

States == {"idle", "routed", "running", "aborted", "waiting", "failed"}

LEMMA Sizes ==
  /\ PromptLength \in Nat /\ PromptLength > 0
  /\ ResponseLength \in Nat /\ ResponseLength > 0
  /\ CacheSize \in Nat /\ ToolLength \in Nat /\ MaxVersion \in Nat
  /\ FreeCacheEngine \in BOOLEAN
BY RoutingAssumption

LEMMA Sets ==
  /\ IsFiniteSet(Conversations)
  /\ Standalone \subseteq Servers /\ Hybrid \subseteq Servers
  /\ Servers = Standalone \cup Hybrid
  /\ Standalone \cap Hybrid = {} /\ None \notin Servers
  /\ MaxTurns \in [Conversations -> Nat]
  /\ Prompt \in [Conversations -> Nat]
  /\ \A r \in Conversations : Prompt[r] <= PromptLength
<1>1. Prompt \in [Conversations -> 1..PromptLength]
  BY RoutingAssumption
<1>2. \A r \in Conversations : Prompt[r] \in Nat /\ Prompt[r] <= PromptLength
  BY <1>1, Sizes
<1> QED BY <1>1, <1>2, RoutingAssumption DEF Servers

-----------------------------------------------------------------------------
(* The script of the Trainer. *)

LEMMA ScriptParts ==
  /\ Len(Script) = 17
  /\ Len(Sync) = 4
  /\ \A k \in 1..4 : Script[k] = Sync[k]
  /\ \A k \in 5..17 : Script[k] = Validate[k - 4]
<1>1. \A a, b, c, d : <<a, b, c, d>> \in Seq({a, b, c, d}) /\ Len(<<a, b, c, d>>) = 4
  OBVIOUS
<1>2. PICK S1 : Sync \in Seq(S1) /\ Len(Sync) = 4
  BY <1>1, Zenon DEF Sync
<1>3. \A a, b, c, d, e, f, g, h, i, j, k, l, m :
        LET s == <<a, b, c, d, e, f, g, h, i, j, k, l, m>>
        IN  s \in Seq({a, b, c, d, e, f, g, h, i, j, k, l, m}) /\ Len(s) = 13
  OBVIOUS
<1>4. PICK S2 : Validate \in Seq(S2) /\ Len(Validate) = 13
  BY <1>3, Zenon DEF Validate
<1> HIDE DEF Sync, Validate
<1>5. Sync \in Seq(S1 \cup S2) /\ Validate \in Seq(S1 \cup S2)
  BY <1>2, <1>4
<1>6. \A s \in Seq(S1 \cup S2), t \in Seq(S1 \cup S2) :
        /\ Len(s \o t) = Len(s) + Len(t)
        /\ \A k \in 1..Len(s) : (s \o t)[k] = s[k]
        /\ \A k \in (Len(s) + 1)..(Len(s) + Len(t)) : (s \o t)[k] = t[k - Len(s)]
  OBVIOUS
<1>7. /\ Len(Script) = Len(Sync) + Len(Validate)
      /\ \A k \in 1..Len(Sync) : Script[k] = Sync[k]
      /\ \A k \in (Len(Sync) + 1)..(Len(Sync) + Len(Validate)) :
           Script[k] = Validate[k - Len(Sync)]
  BY <1>5, <1>6, Zenon DEF Script
<1> QED BY <1>2, <1>4, <1>7

\* The servers of a step and the number of their calls.
On(k) ==
  IF k \in {1, 2, 3, 4, 6, 9, 12, 16} THEN Standalone
  ELSE IF k \in {5, 7, 10, 13, 15, 17} THEN Hybrid ELSE {}

LEMMA Entries ==
  /\ Sync[1] = Each(Standalone, <<"abort">>) /\ Sync[2] = Each(Standalone, <<"drain">>)
  /\ Sync[3] = Each(Standalone, <<"load", "label">>)
  /\ Sync[4] = Each(Standalone, <<"resume">>)
  /\ Validate[1] = Each(Hybrid, HybridUpdate)
  /\ \A k \in {2, 8} : Validate[k] = Each(Standalone, <<"abort">>)
  /\ \A k \in {3, 9} : Validate[k] = Each(Hybrid, <<"abort">>)
  /\ \A k \in {5, 12} : Validate[k] = Each(Standalone, <<"resume">>)
  /\ \A k \in {6, 13} : Validate[k] = Each(Hybrid, <<"resume">>)
  /\ Validate[4] = Each({}, <<"add">>) /\ Validate[7] = Each({}, <<"validate">>)
  /\ Validate[10] = Each({}, <<"remove">>)
  /\ Validate[11] = Each(Hybrid, HybridSleep)
BY DEF Sync, Validate

LEMMA ScriptSets == \A k \in 1..17 : Script[k].on = On(k)
<1> HIDE DEF Sync, Validate
<1>1. \A k \in 1..4 : Sync[k].on = Standalone
  BY Entries DEF Each
<1>2. \A k \in {2, 5, 8, 12} : Validate[k].on = Standalone
  BY Entries DEF Each
<1>3. \A k \in {1, 3, 6, 9, 11, 13} : Validate[k].on = Hybrid
  BY Entries DEF Each
<1>4. \A k \in {4, 7, 10} : Validate[k].on = {}
  BY Entries DEF Each
<1>5. \A k \in 1..4 : Script[k].on = On(k)
  BY <1>1, ScriptParts DEF On
<1>6. \A k \in 5..17 : Script[k].on = Validate[k - 4].on
  BY ScriptParts
<1>7. \A k \in {6, 9, 12, 16} : Script[k].on = On(k)
  BY <1>2, <1>6 DEF On
<1>8. \A k \in {5, 7, 10, 13, 15, 17} : Script[k].on = On(k)
  BY <1>3, <1>6 DEF On
<1>9. \A k \in {8, 11, 14} : Script[k].on = On(k)
  <2>1. On(8) = {} /\ On(11) = {} /\ On(14) = {}
    BY DEF On
  <2>2. Script[8].on = {} /\ Script[11].on = {} /\ Script[14].on = {}
    BY <1>4, <1>6
  <2> QED BY <2>1, <2>2, Zenon
<1>10. 1..17 = (1..4) \cup {6, 9, 12, 16} \cup {5, 7, 10, 13, 15, 17} \cup {8, 11, 14}
  OBVIOUS
<1> HIDE DEF On
<1> QED BY <1>5, <1>7, <1>8, <1>9, <1>10

LEMMA ScriptCalls ==
  \A k \in 1..17 :
    Script[k].calls =
      IF k \in {1, 6, 7, 12, 13} THEN <<"abort">>
      ELSE IF k \in {4, 9, 10, 16, 17} THEN <<"resume">>
      ELSE IF k = 2 THEN <<"drain">>
      ELSE IF k = 3 THEN <<"load", "label">>
      ELSE IF k = 5 THEN HybridUpdate
      ELSE IF k = 15 THEN HybridSleep
      ELSE IF k = 8 THEN <<"add">>
      ELSE IF k = 11 THEN <<"validate">> ELSE <<"remove">>
<1> HIDE DEF Sync, Validate
<1>1. /\ Sync[1].calls = <<"abort">> /\ Sync[2].calls = <<"drain">>
      /\ Sync[3].calls = <<"load", "label">> /\ Sync[4].calls = <<"resume">>
  BY Entries DEF Each
<1>2. /\ Validate[1].calls = HybridUpdate /\ Validate[11].calls = HybridSleep
      /\ Validate[4].calls = <<"add">> /\ Validate[7].calls = <<"validate">>
      /\ Validate[10].calls = <<"remove">>
      /\ \A k \in {2, 3, 8, 9} : Validate[k].calls = <<"abort">>
      /\ \A k \in {5, 6, 12, 13} : Validate[k].calls = <<"resume">>
  BY Entries DEF Each
<1>3. \A k \in 1..4 : Script[k].calls = Sync[k].calls
  BY ScriptParts
<1>4. \A k \in 5..17 : Script[k].calls = Validate[k - 4].calls
  BY ScriptParts
<1> SUFFICES ASSUME NEW k \in 1..17
             PROVE  Script[k].calls =
      IF k \in {1, 6, 7, 12, 13} THEN <<"abort">>
      ELSE IF k \in {4, 9, 10, 16, 17} THEN <<"resume">>
      ELSE IF k = 2 THEN <<"drain">>
      ELSE IF k = 3 THEN <<"load", "label">>
      ELSE IF k = 5 THEN HybridUpdate
      ELSE IF k = 15 THEN HybridSleep
      ELSE IF k = 8 THEN <<"add">>
      ELSE IF k = 11 THEN <<"validate">> ELSE <<"remove">>
  OBVIOUS
<1>5. CASE k \in 1..4
  BY <1>1, <1>3, <1>5
<1>6. CASE k \in {6, 7, 12, 13}
  BY <1>2, <1>4, <1>6
<1>8. CASE k \in {9, 10, 16, 17}
  BY <1>2, <1>4, <1>8
<1>7. CASE k \in {5, 15}
  BY <1>2, <1>4, <1>7
<1>9. CASE k \in {8, 11, 14}
  BY <1>2, <1>4, <1>9
<1> QED BY <1>5, <1>6, <1>7, <1>8, <1>9

Last(k) ==
  IF k = 3 THEN 2
  ELSE IF k = 5 THEN IF FreeCacheEngine THEN 4 ELSE 2
  ELSE IF k = 15 THEN IF FreeCacheEngine THEN 2 ELSE 1 ELSE 1

LEMMA Lens ==
  /\ \A a : Len(<<a>>) = 1 /\ <<a>>[1] = a
  /\ \A a, b : Len(<<a, b>>) = 2 /\ <<a, b>>[1] = a /\ <<a, b>>[2] = b
  /\ \A a, b, c, d :
       LET s == <<a, b, c, d>>
       IN  Len(s) = 4 /\ s[1] = a /\ s[2] = b /\ s[3] = c /\ s[4] = d
OBVIOUS

\* Where the script has which call: the step, and how many calls come before it.
Place(op, k, n) ==
  /\ op = "abort"        => k \in {1, 6, 7, 12, 13} /\ n = 0
  /\ op = "resume"       => k \in {4, 9, 10, 16, 17} /\ n = 0
  /\ op = "drain"        => k \in {2, 15} /\ n = 0
  /\ op = "load"         => \/ k = 3 /\ n = 0
                            \/ k = 5 /\ n = (IF FreeCacheEngine THEN 1 ELSE 0)
  /\ op = "label"        => \/ k = 3 /\ n = 1
                            \/ k = 5 /\ n = (IF FreeCacheEngine THEN 2 ELSE 1)
  /\ op = "wake_weights" => FreeCacheEngine /\ k = 5 /\ n = 0
  /\ op = "wake_cache"   => FreeCacheEngine /\ k = 5 /\ n = 3
  /\ op = "sleep"        => FreeCacheEngine /\ k = 15 /\ n = 1
  /\ op = "add"          => k = 8 /\ n = 0
  /\ op = "validate"     => k = 11 /\ n = 0
  /\ op = "remove"       => k = 14 /\ n = 0

LEMMA Places ==
  ASSUME NEW k \in 1..17
  PROVE  /\ Len(Script[k].calls) = Last(k)
         /\ \A n \in Nat : n < Last(k) => Place(Script[k].calls[n + 1], k, n)
<1> DEFINE calls == Script[k].calls
<1>0. calls =
      IF k \in {1, 6, 7, 12, 13} THEN <<"abort">>
      ELSE IF k \in {4, 9, 10, 16, 17} THEN <<"resume">>
      ELSE IF k = 2 THEN <<"drain">>
      ELSE IF k = 3 THEN <<"load", "label">>
      ELSE IF k = 5 THEN HybridUpdate
      ELSE IF k = 15 THEN HybridSleep
      ELSE IF k = 8 THEN <<"add">>
      ELSE IF k = 11 THEN <<"validate">> ELSE <<"remove">>
  BY ScriptCalls, Zenon
<1> HIDE DEF calls
<1>a. ASSUME NEW op, calls = <<op>>, Place(op, k, 0), Last(k) = 1
      PROVE  Len(calls) = Last(k) /\ \A n \in Nat : n < Last(k) => Place(calls[n + 1], k, n)
  <2>1. Len(calls) = 1 /\ calls[1] = op
    BY <1>a, Lens
  <2>2. \A n \in Nat : n < 1 => n = 0 /\ n + 1 = 1
    OBVIOUS
  <2> QED BY <1>a, <2>1, <2>2
<1>b. ASSUME NEW o1, NEW o2, calls = <<o1, o2>>, Place(o1, k, 0), Place(o2, k, 1), Last(k) = 2
      PROVE  Len(calls) = Last(k) /\ \A n \in Nat : n < Last(k) => Place(calls[n + 1], k, n)
  <2>1. Len(calls) = 2 /\ calls[1] = o1 /\ calls[2] = o2
    BY <1>b, Lens
  <2>2. \A n \in Nat : n < 2 => (n = 0 /\ n + 1 = 1) \/ (n = 1 /\ n + 1 = 2)
    OBVIOUS
  <2> QED BY <1>b, <2>1, <2>2
<1>1. CASE k \in {1, 6, 7, 12, 13}
  <2>1. calls = <<"abort">>
    BY <1>0, <1>1
  <2>2. Place("abort", k, 0) /\ Last(k) = 1
    BY <1>1 DEF Place, Last
  <2> QED BY <1>a, <2>1, <2>2 DEF calls
<1>2. CASE k \in {4, 9, 10, 16, 17}
  <2>1. calls = <<"resume">>
    BY <1>0, <1>2
  <2>2. Place("resume", k, 0) /\ Last(k) = 1
    BY <1>2 DEF Place, Last
  <2> QED BY <1>a, <2>1, <2>2 DEF calls
<1>3. CASE k \in {2, 8, 11, 14}
  <2>1. PICK op \in {"drain", "add", "validate", "remove"} :
          calls = <<op>> /\ Place(op, k, 0) /\ Last(k) = 1
    BY <1>0, <1>3 DEF Place, Last
  <2> QED BY <1>a, <2>1 DEF calls
<1>4. CASE k = 3
  <2>1. calls = <<"load", "label">>
    BY <1>0, <1>4
  <2>2. Place("load", k, 0) /\ Place("label", k, 1) /\ Last(k) = 2
    BY <1>4 DEF Place, Last
  <2> QED BY <1>b, <2>1, <2>2 DEF calls
<1>5. CASE k = 5 /\ FreeCacheEngine
  <2>1. calls = <<"wake_weights", "load", "label", "wake_cache">>
    <3>1. calls = HybridUpdate
      BY <1>0, <1>5
    <3> QED BY <1>5, <3>1, Zenon DEF HybridUpdate
  <2>2. /\ Place("wake_weights", k, 0) /\ Place("load", k, 1)
        /\ Place("label", k, 2) /\ Place("wake_cache", k, 3) /\ Last(k) = 4
    BY <1>5 DEF Place, Last
  <2>3. /\ Len(calls) = 4 /\ calls[1] = "wake_weights" /\ calls[2] = "load"
        /\ calls[3] = "label" /\ calls[4] = "wake_cache"
    BY <2>1, Lens
  <2>4. \A n \in Nat : n < 4 => \/ n = 0 /\ n + 1 = 1
                                \/ n = 1 /\ n + 1 = 2
                                \/ n = 2 /\ n + 1 = 3
                                \/ n = 3 /\ n + 1 = 4
    OBVIOUS
  <2> QED BY <2>2, <2>3, <2>4 DEF calls
<1>6. CASE k = 5 /\ ~FreeCacheEngine
  <2>1. calls = <<"load", "label">>
    BY <1>0, <1>6 DEF HybridUpdate
  <2>2. Place("load", k, 0) /\ Place("label", k, 1) /\ Last(k) = 2
    BY <1>6 DEF Place, Last
  <2> QED BY <1>b, <2>1, <2>2 DEF calls
<1>7. CASE k = 15 /\ FreeCacheEngine
  <2>1. calls = <<"drain", "sleep">>
    BY <1>0, <1>7 DEF HybridSleep
  <2>2. Place("drain", k, 0) /\ Place("sleep", k, 1) /\ Last(k) = 2
    BY <1>7 DEF Place, Last
  <2> QED BY <1>b, <2>1, <2>2 DEF calls
<1>8. CASE k = 15 /\ ~FreeCacheEngine
  <2>1. calls = <<"drain">>
    BY <1>0, <1>8 DEF HybridSleep
  <2>2. Place("drain", k, 0) /\ Last(k) = 1
    BY <1>8 DEF Place, Last
  <2> QED BY <1>a, <2>1, <2>2 DEF calls
<1> QED BY <1>1, <1>2, <1>3, <1>4, <1>5, <1>6, <1>7, <1>8

LEMMA NextSteps ==
  ASSUME step \in 0..17
  PROVE  /\ NextStep \in 0..17
         /\ step = 17 => NextStep = 0
         /\ step < 17 => NextStep = step + 1 \/ (step = 4 /\ NextStep = 0)
<1>1. (NextStep = 0 /\ step = 4) \/ NextStep = (step + 1) % 18
  BY ScriptParts DEF NextStep
<1>2. (step + 1) % 18 = IF step = 17 THEN 0 ELSE step + 1
  OBVIOUS
<1>3. (NextStep = 0 /\ step = 4) \/ NextStep = IF step = 17 THEN 0 ELSE step + 1
  BY <1>1, <1>2
<1> HIDE DEF NextStep
<1> QED BY <1>3

\* A gather is over and the next one begins.
Moves ==
  /\ step' \in 0..17
  /\ step = 17 => step' = 0
  /\ step < 17 => step' = step + 1 \/ (step = 4 /\ step' = 0)
  /\ done' = [s \in Servers |-> 0]

LEMMA AdvanceMoves ==
  ASSUME step \in 0..17, Advance
  PROVE  Moves
BY NextSteps DEF Advance, Moves

LEMMA TickEffect ==
  ASSUME TypeOK, NEW op, NEW s \in Servers, Tick(op, s)
  PROVE  /\ step \in 1..17 /\ s \in On(step) /\ done[s] \in Nat /\ done[s] < Last(step)
         /\ Place(op, step, done[s])
         /\ version' = version
         /\ done' \in [Servers -> Nat] /\ step' \in 0..17
         /\ \/ step' = step /\ done' = [done EXCEPT ![s] = done[s] + 1]
            \/ /\ Moves /\ done[s] + 1 = Last(step)
               /\ \A t \in On(step) \ {s} : done[t] = Last(step)
<1>1. /\ step \in 1..17 /\ done \in [Servers -> Nat]
  BY ScriptParts DEF TypeOK, Tick
<1>2. /\ Script[step].on = On(step) /\ Len(Script[step].calls) = Last(step)
  BY <1>1, ScriptSets, Places
<1>3. /\ s \in On(step) /\ done[s] < Last(step) /\ Script[step].calls[done[s] + 1] = op
      /\ version' = version
  BY <1>2, Zenon DEF Tick
<1>4. On(step) \subseteq Servers
  BY Sets DEF On
<1>5. Place(op, step, done[s])
  BY <1>1, <1>3, Places
<1> DEFINE now == [done EXCEPT ![s] = done[s] + 1]
<1>6. IF \A t \in On(step) : now[t] = Last(step) THEN Advance
      ELSE done' = now /\ UNCHANGED step
  BY <1>2, Zenon DEF Tick
<1>7. now \in [Servers -> Nat]
  BY <1>1
<1>8. CASE \A t \in On(step) : now[t] = Last(step)
  <2>1. Moves
    BY <1>1, <1>6, <1>8, AdvanceMoves
  <2>2. done[s] + 1 = Last(step) /\ \A t \in On(step) \ {s} : done[t] = Last(step)
    BY <1>1, <1>3, <1>4, <1>8
  <2> QED BY <1>1, <1>3, <1>5, <2>1, <2>2 DEF Moves
<1>9. CASE ~(\A t \in On(step) : now[t] = Last(step))
  <2>1. done' = now /\ step' = step
    BY <1>6, <1>9
  <2> QED BY <1>1, <1>3, <1>5, <1>7, <2>1
<1> QED BY <1>8, <1>9

LEMMA CallEffect ==
  ASSUME TypeOK, NEW op, Call(op)
  PROVE  /\ step \in 1..17 /\ Script[step].calls = <<op>> /\ Moves
         /\ version' = version /\ UNCHANGED <<clients, engines>>
<1>1. step \in 0..17
  BY ScriptParts DEF TypeOK
<1> QED BY <1>1, AdvanceMoves DEF Call

LEMMA CallPlaces ==
  ASSUME TypeOK, NEW op \in {"add", "remove", "validate"}, Call(op)
  PROVE  step = (IF op = "add" THEN 8 ELSE IF op = "validate" THEN 11 ELSE 14)
<1>1. step \in 1..17 /\ Script[step].calls = <<op>>
  BY CallEffect
<1>2. 0 < Last(step)
  BY Sizes DEF Last
<1>3. Place(Script[step].calls[0 + 1], step, 0)
  BY <1>1, <1>2, Places
<1>4. Script[step].calls[0 + 1] = op
  BY <1>1
<1> QED BY <1>3, <1>4 DEF Place

-----------------------------------------------------------------------------
(* Types. *)

LEMMA AcquireEffect ==
  ASSUME TypeOK, NEW r \in Conversations, Acquire(r), pc[r] \in {"idle", "waiting"}
  PROVE  \E s \in Pool :
           /\ s \in Servers /\ r \notin Holding /\ r \notin leaving
           /\ inflight' \in [Pool -> Nat] /\ Pool' = Pool
           /\ \A t \in Pool : inflight'[t] = IF t = s THEN inflight[t] + 1 ELSE inflight[t]
           /\ route' \in [Conversations -> Servers \cup {None}]
           /\ server' = [server EXCEPT ![r] = s]
           /\ pc' = [pc EXCEPT ![r] = "routed"]
<1>1. PICK s \in (IF route[r] \in Pool THEN {route[r]} ELSE LeastLoaded) :
        /\ inflight' = [inflight EXCEPT ![s] = @ + 1]
        /\ Remember(r, s)
        /\ server' = [server EXCEPT ![r] = s]
        /\ pc' = [pc EXCEPT ![r] = "routed"]
  BY DEF Acquire
<1>2. s \in Pool
  BY <1>1 DEF LeastLoaded
<1>3. s \in Servers /\ inflight \in [Pool -> Nat]
  BY <1>2 DEF TypeOK
<1>4. r \notin leaving /\ r \notin Holding
  BY DEF Acquire, Holding
<1>5. /\ inflight' \in [Pool -> Nat] /\ Pool' = Pool
      /\ \A t \in Pool : inflight'[t] = IF t = s THEN inflight[t] + 1 ELSE inflight[t]
  BY <1>1, <1>2, <1>3 DEF Pool
<1>6. route' \in [Conversations -> Servers \cup {None}]
  BY <1>1, <1>3 DEF Remember, TypeOK
<1> QED BY <1>1, <1>2, <1>3, <1>4, <1>5, <1>6

\* The label of an output is a version.
LEMMA LabelEffect ==
  ASSUME TypeOK, NEW rs \in SUBSET Holding, LabelOutputs(rs)
  PROVE  /\ first' \in [Conversations -> Nat \cup {-1}]
         /\ \A r \in Conversations :
              first'[r] = IF r \in rs /\ first[r] = -1 THEN label[server[r]] ELSE first[r]
<1>1. \A r \in rs : r \in Conversations /\ label[server[r]] \in Nat \cup {-1}
  BY DEF TypeOK, Holding
<1> QED BY <1>1 DEF LabelOutputs, TypeOK

LEMMA TypeInit == Init => TypeOK
<1> SUFFICES ASSUME Init PROVE TypeOK
  OBVIOUS
<1>1. length \in [Conversations -> Nat]
  BY Sets DEF Init
<1>2. /\ DOMAIN inflight = Standalone /\ inflight \in [Standalone -> Nat]
      /\ weights \in [Servers -> Nat \cup {-1}]
  BY DEF Init
<1>3. Holding = {}
  BY DEF Init, Holding
<1>4. step \in 0..Len(Script)
  BY ScriptParts DEF Init, Validation
<1> QED BY <1>1, <1>2, <1>3, <1>4, Sets DEF Init, TypeOK, Pool

\* The types of the conversations, when one of them moves.
Typed(p, tn, sv, lv, ln, g, f) ==
  /\ p \in [Conversations -> States]
  /\ tn \in [Conversations -> Nat]
  /\ sv \in [Conversations -> Servers \cup {None}]
  /\ lv \subseteq Conversations
  /\ \A r \in Conversations :
       sv[r] \in Servers <=> p[r] \in {"routed", "running", "aborted"} \/ r \in lv
  /\ \A r \in lv : p[r] \in {"idle", "waiting", "failed"}
  /\ ln \in [Conversations -> Nat] /\ g \in [Conversations -> Nat]
  /\ f \in [Conversations -> Nat \cup {-1}]

Clients == Typed(pc, turn, server, leaving, length, got, first)

Rest ==
  /\ Standalone \subseteq Pool /\ Pool \subseteq Servers /\ inflight \in [Pool -> Nat]
  /\ route \in [Conversations -> Servers \cup {None}]
  /\ paused \subseteq Servers /\ loose \subseteq Servers /\ asleep \subseteq Hybrid
  /\ weights \in [Servers -> Nat \cup {-1}] /\ label \in [Servers -> Nat \cup {-1}]
  /\ version \in Nat /\ step \in 0..17 /\ done \in [Servers -> Nat]

LEMMA TypeParts == TypeOK <=> Clients /\ Rest
BY ScriptParts DEF TypeOK, Clients, Typed, Rest, Holding, States

LEMMA BeginType ==
  ASSUME TypeOK, NEW r \in Conversations, Begin(r)
  PROVE  TypeOK'
<1>1. PICK s \in Pool :
        /\ s \in Servers /\ r \notin Holding /\ r \notin leaving
        /\ inflight' \in [Pool -> Nat] /\ Pool' = Pool
        /\ route' \in [Conversations -> Servers \cup {None}]
        /\ server' = [server EXCEPT ![r] = s]
        /\ pc' = [pc EXCEPT ![r] = "routed"]
  BY AcquireEffect DEF Begin
<1>2. Clients /\ Rest
  BY TypeParts
<1>3. turn' \in [Conversations -> Nat]
  BY <1>2 DEF Begin, Clients, Typed
<1>4. length' \in [Conversations -> Nat]
  <2>1. length[r] \in Nat /\ length[r] + ToolLength \in Nat
    BY <1>2, Sizes DEF Clients, Typed
  <2> QED BY <1>2, <2>1 DEF Begin, Clients, Typed
<1>5. UNCHANGED <<leaving, got, first, engines, trainer>>
  BY DEF Begin
<1>6. Rest'
  BY <1>1, <1>2, <1>5 DEF Rest, engines, trainer
<1>7. Clients'
  BY <1>1, <1>2, <1>3, <1>4, <1>5 DEF Clients, Typed, States
<1> QED BY <1>6, <1>7, TypeParts, PTL

LEMMA RetryType ==
  ASSUME TypeOK, NEW r \in Conversations, Retry(r)
  PROVE  TypeOK'
<1>1. PICK s \in Pool :
        /\ s \in Servers /\ r \notin Holding /\ r \notin leaving
        /\ inflight' \in [Pool -> Nat] /\ Pool' = Pool
        /\ route' \in [Conversations -> Servers \cup {None}]
        /\ server' = [server EXCEPT ![r] = s]
        /\ pc' = [pc EXCEPT ![r] = "routed"]
  BY AcquireEffect DEF Retry
<1>2. Clients /\ Rest
  BY TypeParts
<1>3. UNCHANGED <<turn, leaving, length, got, first, engines, trainer>>
  BY DEF Retry
<1>4. Rest'
  BY <1>1, <1>2, <1>3 DEF Rest, engines, trainer
<1>5. Clients'
  BY <1>1, <1>2, <1>3 DEF Clients, Typed, States
<1> QED BY <1>4, <1>5, TypeParts, PTL

LEMMA ReleaseEffect ==
  ASSUME TypeOK, NEW r \in Conversations, ReceiveRelease(r)
  PROVE  /\ server[r] \in Servers /\ r \in leaving
         /\ inflight' \in [Pool -> Nat] /\ Pool' = Pool
         /\ \A t \in Pool :
              inflight'[t] = IF t = server[r] /\ inflight[t] > 0 THEN inflight[t] - 1
                             ELSE inflight[t]
<1>1. r \in leaving /\ server[r] \in Servers /\ inflight \in [Pool -> Nat]
  BY TypeParts DEF ReceiveRelease, Clients, Typed, Rest
<1>2. CASE server[r] \in Pool /\ inflight[server[r]] > 0
  <2>1. inflight' = [inflight EXCEPT ![server[r]] = @ - 1]
    BY <1>2 DEF ReceiveRelease
  <2>2. inflight[server[r]] - 1 \in Nat
    BY <1>1, <1>2
  <2> QED BY <1>1, <1>2, <2>1, <2>2 DEF Pool
<1>3. CASE ~(server[r] \in Pool /\ inflight[server[r]] > 0)
  BY <1>1, <1>3 DEF ReceiveRelease, Pool
<1> QED BY <1>2, <1>3

LEMMA ReleaseType ==
  ASSUME TypeOK, NEW r \in Conversations, ReceiveRelease(r)
  PROVE  TypeOK'
<1>1. Clients /\ Rest
  BY TypeParts
<1>2. inflight' \in [Pool -> Nat] /\ Pool' = Pool
  BY ReleaseEffect
<1>3. Rest'
  BY <1>1, <1>2 DEF ReceiveRelease, Rest, engines, trainer
<1>4. Clients'
  BY <1>1, Sets DEF ReceiveRelease, Clients, Typed
<1> QED BY <1>3, <1>4, TypeParts, PTL

\* A step of a conversation that is neither an acquire nor the end of a release.
LEMMA ServeType ==
  ASSUME TypeOK, NEW r \in Conversations,
         Start(r) \/ Generate(r) \/ Complete(r) \/ TakeAborted(r) \/ Raise(r)
  PROVE  TypeOK' /\ UNCHANGED <<balancer, engines, trainer>>
<1>1. Clients /\ Rest
  BY TypeParts
<1>2. UNCHANGED <<balancer, engines, trainer>>
  BY DEF Start, Generate, Complete, TakeAborted, Raise
<1>3. Rest'
  BY <1>1, <1>2 DEF Rest, Pool, balancer, engines, trainer
<1>4. /\ got[r] \in Nat /\ length[r] \in Nat
      /\ got[r] + 1 \in Nat /\ length[r] + got[r] \in Nat
      /\ length[r] + got[r] + 1 \in Nat
  BY <1>1 DEF Clients, Typed
<1>5. Clients'
  <2>1. CASE Start(r)
    BY <1>1, <2>1 DEF Start, Clients, Typed, States
  <2>2. CASE Generate(r)
    BY <1>1, <1>4, <2>2 DEF Generate, Clients, Typed
  <2>3. CASE Complete(r)
    <3>1. r \in Holding /\ LabelOutputs({r})
      BY <2>3 DEF Complete, Runs, Holding
    <3>2. first' \in [Conversations -> Nat \cup {-1}]
      BY <3>1, LabelEffect
    <3>3. length' = [length EXCEPT ![r] = length[r] + got[r] + 1]
      BY <2>3 DEF Complete
    <3>4. /\ pc' = [pc EXCEPT ![r] = "idle"] /\ got' = [got EXCEPT ![r] = 0]
          /\ leaving' = leaving \cup {r} /\ pc[r] = "running" /\ UNCHANGED <<turn, server>>
      BY <2>3 DEF Complete, Runs, SendRelease
    <3> QED BY <1>1, <1>4, <3>2, <3>3, <3>4 DEF Clients, Typed, States
  <2>4. CASE TakeAborted(r)
    <3>1. length' = [length EXCEPT ![r] = length[r] + got[r]]
      BY <2>4 DEF TakeAborted
    <3> QED BY <1>1, <1>4, <2>4, <3>1 DEF TakeAborted, SendRelease, Clients, Typed, States
  <2>5. CASE Raise(r)
    BY <1>1, <2>5 DEF Raise, SendRelease, Clients, Typed, States
  <2> QED BY <2>1, <2>2, <2>3, <2>4, <2>5
<1> QED BY <1>2, <1>3, <1>5, TypeParts, PTL

LEMMA AbortEffect ==
  ASSUME TypeOK, NEW s \in Servers, AbortReplica(s)
  PROVE  /\ pc' \in [Conversations -> States]
         /\ \A r \in Conversations :
              pc'[r] = pc[r] \/ (pc[r] = "running" /\ server[r] = s /\ pc'[r] = "aborted")
         /\ first' \in [Conversations -> Nat \cup {-1}]
         /\ \A r \in Conversations :
              \/ first'[r] = first[r]
              \/ server[r] \in Servers /\ pc'[r] = "aborted" /\ first'[r] = label[server[r]]
<1>1. PICK hit \in SUBSET Running(s) : Abort(hit)
  BY DEF AbortReplica
<1>2. /\ pc' = [r \in Conversations |-> IF r \in hit THEN "aborted" ELSE pc[r]]
      /\ LabelOutputs({r \in hit : got[r] > 0})
  BY <1>1 DEF Abort
<1>3. {r \in hit : got[r] > 0} \in SUBSET Holding
  BY <1>1 DEF Holding, Running
<1>4. Clients
  BY TypeParts
<1>5. /\ first' \in [Conversations -> Nat \cup {-1}]
      /\ \A r \in Conversations :
           first'[r] = IF r \in {c \in hit : got[c] > 0} /\ first[r] = -1
                       THEN label[server[r]] ELSE first[r]
  BY <1>2, <1>3, LabelEffect
<1>6. \A r \in hit : r \in Conversations /\ pc[r] = "running" /\ server[r] = s
  BY <1>1 DEF Running
<1> QED BY <1>2, <1>4, <1>5, <1>6 DEF Clients, Typed, States

LEMMA AbortType ==
  ASSUME TypeOK, NEW s \in Servers, AbortReplica(s)
  PROVE  TypeOK'
<1>1. Clients /\ Rest
  BY TypeParts
<1>2. UNCHANGED <<balancer, turn, server, leaving, length, got, asleep, weights, label>>
  BY DEF AbortReplica
<1>3. Tick("abort", s) /\ paused' \subseteq Servers /\ loose' \subseteq Servers
  BY <1>1 DEF AbortReplica, Rest
<1>4. step' \in 0..17 /\ done' \in [Servers -> Nat] /\ version' = version
  BY <1>3, TickEffect
<1>5. Rest'
  BY <1>1, <1>2, <1>3, <1>4 DEF Rest, Pool, balancer
<1>6. Clients'
  BY <1>1, <1>2, AbortEffect DEF Clients, Typed, States
<1> QED BY <1>5, <1>6, TypeParts, PTL

\* The calls that concern nothing but the server itself.
Replica(s) ==
  \/ DrainReplica(s) \/ ResumeReplica(s) \/ SleepReplica(s)
  \/ WakeWeights(s) \/ LoadWeights(s) \/ SetGlobalSteps(s) \/ WakeCache(s)

LEMMA ReplicaType ==
  ASSUME TypeOK, NEW s \in Servers, Replica(s)
  PROVE  TypeOK' /\ UNCHANGED <<balancer, clients>>
<1>1. Clients /\ Rest
  BY TypeParts
<1>2. UNCHANGED <<balancer, clients>>
  BY DEF Replica, DrainReplica, ResumeReplica, SleepReplica, WakeWeights, LoadWeights,
         SetGlobalSteps, WakeCache
<1>3. PICK op : Tick(op, s)
  BY DEF Replica, DrainReplica, ResumeReplica, SleepReplica, WakeWeights, LoadWeights,
         SetGlobalSteps, WakeCache
<1>4. step' \in 0..17 /\ done' \in [Servers -> Nat] /\ version' = version
  BY <1>3, TickEffect
<1>5. /\ paused' \subseteq Servers /\ loose' \subseteq Servers
      /\ weights' \in [Servers -> Nat \cup {-1}] /\ label' \in [Servers -> Nat \cup {-1}]
  BY <1>1
     DEF Replica, DrainReplica, ResumeReplica, SleepReplica, WakeWeights, LoadWeights,
         SetGlobalSteps, WakeCache, Rest, engines
<1>6. asleep' \subseteq Hybrid
  <2>1. CASE SleepReplica(s)
    <3>1. step = 15 /\ s \in On(step) /\ asleep' = asleep \cup {s}
      BY <2>1, TickEffect DEF SleepReplica, Place
    <3> QED BY <1>1, <3>1 DEF On, Rest
  <2>2. CASE ~SleepReplica(s)
    BY <1>1, <2>2
       DEF Replica, DrainReplica, ResumeReplica, WakeWeights, LoadWeights,
           SetGlobalSteps, WakeCache, Rest, engines
  <2> QED BY <2>1, <2>2
<1>7. Rest'
  BY <1>1, <1>2, <1>4, <1>5, <1>6 DEF Rest, Pool, balancer
<1>8. Clients'
  BY <1>1, <1>2 DEF Clients, clients
<1> QED BY <1>2, <1>7, <1>8, TypeParts, PTL

LEMMA PoolType ==
  ASSUME TypeOK, StartSync \/ AddReplicas \/ RemoveReplicas \/ EndValidation
  PROVE  TypeOK'
<1>1. Clients /\ Rest
  BY TypeParts
<1>2. UNCHANGED <<clients, engines, route>>
  BY DEF StartSync, AddReplicas, RemoveReplicas, EndValidation, Call, balancer
<1>3. Clients'
  BY <1>1, <1>2 DEF Clients, clients
<1>4. step' \in 0..17 /\ done' \in [Servers -> Nat] /\ version' \in Nat
  <2>1. CASE StartSync
    <3>1. version \in Nat /\ version' = version + 1 /\ Advance
      BY <1>1, <2>1 DEF StartSync, Rest
    <3>2. Moves
      BY <1>1, <3>1, AdvanceMoves DEF Rest
    <3> QED BY <3>1, <3>2 DEF Moves
  <2>2. CASE ~StartSync
    <3>1. PICK op \in {"add", "remove", "validate"} : Call(op)
      BY <2>2 DEF AddReplicas, RemoveReplicas, EndValidation
    <3> QED BY <1>1, <3>1, CallEffect DEF Rest, Moves
  <2> QED BY <2>1, <2>2
<1>5. /\ Standalone \subseteq Pool' /\ Pool' \subseteq Servers
      /\ inflight' \in [Pool' -> Nat]
  <2>1. CASE AddReplicas
    <3>1. Pool' = Pool \cup Hybrid
      BY <2>1 DEF AddReplicas, Pool
    <3> QED BY <1>1, <2>1, <3>1, Sets DEF AddReplicas, Rest
  <2>2. CASE RemoveReplicas
    <3>1. Pool' = Pool \ Hybrid
      BY <2>2 DEF RemoveReplicas, Pool
    <3> QED BY <1>1, <2>2, <3>1, Sets DEF RemoveReplicas, Rest
  <2>3. CASE StartSync \/ EndValidation
    BY <1>1, <2>3 DEF StartSync, EndValidation, Rest, Pool, balancer
  <2> QED BY <2>1, <2>2, <2>3
<1>6. Rest'
  BY <1>1, <1>2, <1>4, <1>5 DEF Rest, engines
<1> QED BY <1>3, <1>6, TypeParts, PTL

LEMMA TypeStep == TypeOK /\ [Next]_vars => TypeOK'
<1> SUFFICES ASSUME TypeOK, [Next]_vars PROVE TypeOK'
  OBVIOUS
<1>1. CASE UNCHANGED vars
  BY <1>1, TypeParts
     DEF vars, balancer, clients, engines, trainer, TypeOK, Holding, Pool
<1>2. ASSUME NEW r \in Conversations,
             Conversation(r) \/ Generate(r) \/ Raise(r) \/ ReceiveRelease(r)
      PROVE  TypeOK'
  BY <1>2, BeginType, RetryType, ServeType, ReleaseType DEF Conversation
<1>3. CASE Trainer
  BY <1>3, AbortType, ReplicaType, PoolType DEF Trainer, Replica
<1>4. CASE Over
  BY <1>1, <1>4 DEF Over
<1> QED BY <1>1, <1>2, <1>3, <1>4 DEF Next

\* Every variable keeps its type.
THEOREM TypeCorrect == Spec => []TypeOK
BY TypeInit, TypeStep, PTL DEF Spec

-----------------------------------------------------------------------------
-----------------------------------------------------------------------------
(* Who sleeps, who is paused and who has which weights at each place of the *)
(* script.                                                                  *)

\* The version that the serving engines have, or are about to have.
Cur == IF step \in {1, 2} THEN version - 1 ELSE version

Sleepers ==
  /\ step \notin 9..14 => Pool \cap Hybrid = {}
  /\ ~FreeCacheEngine => asleep = {}
  /\ FreeCacheEngine /\ step \in {0, 1, 2, 3, 4, 16, 17} => Hybrid \subseteq asleep
  /\ step \in 6..14 => asleep = {}
  /\ \A h \in Hybrid :
       /\ FreeCacheEngine /\ step = 5 => (h \in asleep <=> done[h] < 4)
       /\ FreeCacheEngine /\ step = 15 => (h \in asleep <=> done[h] >= 2)

\* The standalone servers are out of service while they are updated.
Stopped(s) ==
  \/ step = 1 /\ done[s] >= 1
  \/ step \in {2, 3}
  \/ step = 4 /\ done[s] = 0

Updates ==
  /\ step \in {1, 2, 3} => version >= 1
  /\ \A s \in Standalone :
       /\ step # 3 => weights[s] = Cur /\ label[s] = Cur
       /\ step = 3 => weights[s] = IF done[s] >= 1 THEN version ELSE version - 1
       /\ step = 3 => label[s] = IF done[s] >= 2 THEN version ELSE version - 1
       /\ Stopped(s) => s \in paused \/ s \in loose

\* The first call of a hybrid update that sets the weights, not counting it.
Loading == IF FreeCacheEngine THEN 1 ELSE 0

HybridUpdates ==
  \A h \in Hybrid :
    /\ weights[h] <= Cur /\ label[h] <= Cur
    /\ FreeCacheEngine /\ h \notin asleep => weights[h] = version /\ label[h] = version
    /\ step = 5 /\ done[h] > Loading => weights[h] = version
    /\ step = 5 /\ done[h] > Loading + 1 => label[h] = version
    /\ step \in 6..14 => weights[h] = version /\ label[h] = version

ScriptInv == TypeOK /\ Sleepers /\ Updates /\ HybridUpdates

LEMMA ScriptInvInit == Init => ScriptInv
<1> SUFFICES ASSUME Init PROVE ScriptInv
  OBVIOUS
<1>1. TypeOK
  BY TypeInit
<1>2. step \in {0, 5} /\ version = 0 /\ \A s \in Servers : done[s] = 0
  BY ScriptParts DEF Init, Validation
<1>3. /\ asleep = (IF FreeCacheEngine THEN Hybrid ELSE {}) /\ Pool = Standalone
      /\ \A s \in Standalone : weights[s] = 0 /\ label[s] = 0
      /\ \A h \in Hybrid : weights[h] = -1 /\ label[h] = -1
  BY Sets DEF Init, Pool
<1>4. Sleepers
  BY <1>2, <1>3, Sets DEF Sleepers
<1>5. Updates
  BY <1>2, <1>3, Sets DEF Updates, Cur, Stopped
<1>6. HybridUpdates
  BY <1>2, <1>3, Sets DEF HybridUpdates, Cur, Loading
<1> QED BY <1>1, <1>4, <1>5, <1>6 DEF ScriptInv

\* The numbers in the invariant.
LEMMA ScriptTypes ==
  ASSUME ScriptInv
  PROVE  /\ TypeOK /\ Rest /\ Sleepers /\ Updates /\ HybridUpdates
         /\ version \in Nat /\ step \in 0..17 /\ asleep \subseteq Hybrid
         /\ Servers = Standalone \cup Hybrid /\ Standalone \cap Hybrid = {}
         /\ \A s \in Servers : weights[s] \in Int /\ label[s] \in Int /\ done[s] \in Nat
<1>1. TypeOK /\ Rest /\ Sleepers /\ Updates /\ HybridUpdates
  BY TypeParts DEF ScriptInv
<1> QED BY <1>1, Sets DEF Rest

LEMMA SyncScript ==
  ASSUME ScriptInv, StartSync
  PROVE  Sleepers' /\ Updates' /\ HybridUpdates'
<1>1. /\ Sleepers /\ Updates /\ HybridUpdates /\ version \in Nat
      /\ Servers = Standalone \cup Hybrid
      /\ \A s \in Servers : weights[s] \in Int /\ label[s] \in Int
  BY ScriptTypes
<1>2. /\ step = 0 /\ version' = version + 1 /\ UNCHANGED <<balancer, clients, engines>>
      /\ Advance
  BY DEF StartSync
<1>3. step' = 1 /\ \A s \in Servers : done'[s] = 0
  BY <1>2, AdvanceMoves DEF Moves
<1>4. UNCHANGED <<weights, label, asleep>> /\ Pool' = Pool
  BY <1>2 DEF engines, balancer, Pool
<1>5. Sleepers'
  BY <1>1, <1>2, <1>3, <1>4 DEF Sleepers
<1>6. Updates'
  BY <1>1, <1>2, <1>3, <1>4 DEF Updates, Cur, Stopped
<1>7. HybridUpdates'
  <2>1. \A h \in Hybrid : h \in asleep' \/ ~FreeCacheEngine
    BY <1>1, <1>2, <1>4 DEF Sleepers
  <2>2. \A h \in Hybrid : weights[h] <= version /\ label[h] <= version
    BY <1>1, <1>2 DEF HybridUpdates, Cur
  <2> QED BY <1>1, <1>2, <1>3, <1>4, <2>1, <2>2 DEF HybridUpdates, Cur
<1> QED BY <1>5, <1>6, <1>7

LEMMA CallScript ==
  ASSUME ScriptInv, AddReplicas \/ RemoveReplicas \/ EndValidation
  PROVE  Sleepers' /\ Updates' /\ HybridUpdates'
<1>1. /\ TypeOK /\ Sleepers /\ Updates /\ HybridUpdates /\ version \in Nat
  BY ScriptTypes
<1>2. PICK op \in {"add", "remove", "validate"} :
        /\ Call(op)
        /\ op = "add" => AddReplicas
        /\ op = "remove" => RemoveReplicas
        /\ op = "validate" => UNCHANGED balancer
  BY DEF AddReplicas, RemoveReplicas, EndValidation
<1>3. Moves /\ version' = version /\ UNCHANGED <<clients, engines>>
  BY <1>1, <1>2, CallEffect
<1>4. /\ op = "add" => step = 8 /\ step' = 9
      /\ op = "validate" => step = 11 /\ step' = 12
      /\ op = "remove" => step = 14 /\ step' = 15
  BY <1>1, <1>2, <1>3, CallPlaces DEF Moves
<1>5. /\ \/ step \in {8, 11} /\ step' \in {9, 12}
         \/ step = 14 /\ step' = 15 /\ RemoveReplicas
      /\ \A s \in Servers : done'[s] = 0
  BY <1>2, <1>3, <1>4 DEF Moves
<1>6. RemoveReplicas => Pool' \cap Hybrid = {}
  BY DEF RemoveReplicas, Pool
<1>7. UNCHANGED <<paused, loose, asleep, weights, label, version>>
  BY <1>3 DEF engines
<1>8. Sleepers'
  BY <1>1, <1>5, <1>6, <1>7, Sets DEF Sleepers
<1>9. Updates'
  BY <1>1, <1>5, <1>7 DEF Updates, Cur, Stopped
<1>10. HybridUpdates'
  BY <1>1, <1>5, <1>7 DEF HybridUpdates, Cur
<1> QED BY <1>8, <1>9, <1>10

\* What a call of the Trainer to a server does to its place in the script: the
\* gather goes on, or the next one begins.
Stay(s) ==
  /\ step' = step
  /\ \A t \in Servers : done'[t] = IF t = s THEN done[t] + 1 ELSE done[t]

Move(s) ==
  /\ step = 17 => step' = 0
  /\ step < 17 => step' = step + 1 \/ (step = 4 /\ step' = 0)
  /\ \A t \in Servers : done'[t] = 0
  /\ done[s] + 1 = Last(step)
  /\ \A t \in On(step) : t = s \/ done[t] = Last(step)

LEMMA TickMoves ==
  ASSUME ScriptInv, NEW op, NEW s \in Servers, Tick(op, s)
  PROVE  /\ Place(op, step, done[s]) /\ s \in On(step) /\ done[s] < Last(step)
         /\ version' = version /\ (Stay(s) \/ Move(s))
<1>1. TypeOK /\ done \in [Servers -> Nat]
  BY ScriptTypes DEF TypeOK
<1> QED BY <1>1, TickEffect DEF Moves, Stay, Move

LEMMA Lasts ==
  /\ FreeCacheEngine => Last(5) = 4 /\ Last(15) = 2
  /\ ~FreeCacheEngine => Last(5) = 2 /\ Last(15) = 1
  /\ Last(3) = 2
  /\ \A k \in {1, 2, 4, 6, 7, 9, 10, 12, 13, 16, 17} : Last(k) = 1
BY DEF Last

\* The calls that leave weights and memory as they are.
LEMMA QuietScript ==
  ASSUME ScriptInv, NEW s \in Servers,
         AbortReplica(s) \/ DrainReplica(s) \/ ResumeReplica(s) \/ WakeWeights(s)
  PROVE  Sleepers' /\ Updates' /\ HybridUpdates'
<1>1. /\ TypeOK /\ Sleepers /\ Updates /\ HybridUpdates /\ version \in Nat
      /\ Servers = Standalone \cup Hybrid /\ Standalone \cap Hybrid = {}
      /\ asleep \subseteq Hybrid /\ step \in 0..17
      /\ \A t \in Servers : weights[t] \in Int /\ label[t] \in Int /\ done[t] \in Nat
  BY ScriptTypes
<1>2. UNCHANGED <<asleep, weights, label>> /\ Pool' = Pool
  BY DEF AbortReplica, DrainReplica, ResumeReplica, WakeWeights, Pool, balancer, engines
<1>3. PICK op \in {"abort", "drain", "resume", "wake_weights"} :
        /\ Tick(op, s)
        /\ op = "abort" => AbortReplica(s)
        /\ op = "resume" => ResumeReplica(s)
        /\ op \notin {"abort", "resume"} => UNCHANGED <<paused, loose>>
  BY DEF AbortReplica, DrainReplica, ResumeReplica, WakeWeights, engines
<1>4. /\ Place(op, step, done[s]) /\ s \in On(step)
      /\ version' = version /\ (Stay(s) \/ Move(s))
  BY <1>3, TickMoves
<1>5. /\ done[s] = 0
      /\ \/ step \in {1, 2, 4, 6, 7, 9, 10, 12, 13, 16, 17}
         \/ step = 15
         \/ step = 5 /\ FreeCacheEngine
  BY <1>3, <1>4 DEF Place
<1>6. /\ step = 5 => Stay(s)
      /\ step = 15 /\ FreeCacheEngine => Stay(s)
  BY <1>4, <1>5, Lasts DEF Move
<1>8. Sleepers'
  <2>1. CASE Stay(s)
    <3>1. step' = step /\ step \in 0..17
      BY <1>1, <2>1 DEF Stay
    <3>2. CASE step \in {5, 15}
      <4>1. \A h \in Hybrid : done'[h] = IF h = s THEN 1 ELSE done[h]
        BY <1>1, <1>5, <2>1 DEF Stay
      <4> QED BY <1>1, <1>2, <1>5, <3>1, <3>2, <4>1 DEF Sleepers
    <3>3. CASE step \notin {5, 15}
      BY <1>1, <1>2, <3>1, <3>3 DEF Sleepers
    <3> QED BY <3>2, <3>3
  <2>2. CASE Move(s)
    <3>1. /\ step' = (IF step = 17 THEN 0 ELSE step + 1) \/ (step = 4 /\ step' = 0)
          /\ \A h \in Hybrid : done'[h] = 0
          /\ step \in {1, 2, 4, 6, 7, 9, 10, 12, 13, 16, 17} \/ (step = 15 /\ ~FreeCacheEngine)
      BY <1>1, <1>5, <2>2, Lasts DEF Move
    <3> QED BY <1>1, <1>2, <3>1 DEF Sleepers
  <2> QED BY <1>4, <2>1, <2>2
<1>9. HybridUpdates'
  <2>1. CASE Stay(s)
    <3>1. step' = step /\ Cur' = Cur
      BY <1>4, <2>1 DEF Stay, Cur
    <3>2. step = 5 => \A h \in Hybrid : done'[h] > Loading => done'[h] = done[h]
      BY <1>1, <1>5, <2>1 DEF Stay, Loading
    <3>3. Loading \in Nat /\ \A h \in Hybrid : done'[h] \in Nat
      BY <1>1, <2>1 DEF Stay, Loading
    <3>4. /\ step = 5 => \A h \in Hybrid : done'[h] > Loading + 1 => done[h] > Loading + 1
          /\ step = 5 => \A h \in Hybrid : done'[h] > Loading => done[h] > Loading
      BY <1>1, <3>2, <3>3
    <3> QED BY <1>1, <1>2, <1>4, <3>1, <3>4 DEF HybridUpdates
  <2>2. CASE Move(s)
    <3>1. /\ step' = 5 => \A h \in Hybrid : done'[h] = 0
          /\ step' \in 6..14 => step \in 6..14
          /\ step \notin {1, 2} => Cur' = Cur
          /\ step \in {1, 2} => Cur <= Cur'
      BY <1>1, <1>4, <1>5, <2>2, Lasts DEF Move, Cur
    <3>2. Cur \in Int /\ Cur' \in Int /\ Cur <= Cur'
      BY <1>1, <1>4, <3>1 DEF Cur
    <3> QED BY <1>1, <1>2, <1>4, <3>1, <3>2 DEF HybridUpdates, Loading
  <2> QED BY <1>4, <2>1, <2>2
<1>10. \A t \in Servers \ {s} :
         (t \in paused \/ t \in loose) => (t \in paused' \/ t \in loose')
  BY <1>3 DEF AbortReplica, ResumeReplica
<1>11. Updates'
  <2>1. CASE op = "abort"
    <3>1. /\ step \in {1, 6, 7, 12, 13} /\ Last(step) = 1
          /\ s \in paused' \/ s \in loose'
          /\ step = 1 => On(step) = Standalone
      BY <1>3, <1>4, <2>1 DEF Place, Last, AbortReplica, On
    <3>2. \A t \in Servers : (t \in paused \/ t \in loose) => (t \in paused' \/ t \in loose')
      BY <1>10, <3>1
    <3>3. CASE Stay(s)
      BY <1>1, <1>2, <1>4, <3>1, <3>2, <3>3 DEF Updates, Cur, Stopped, Stay
    <3>4. CASE Move(s)
      BY <1>1, <1>2, <1>4, <1>5, <3>1, <3>2, <3>4 DEF Updates, Cur, Stopped, Move
    <3> QED BY <1>4, <3>3, <3>4
  <2>2. CASE op = "resume"
    <3>1. step \in {4, 9, 10, 16, 17} /\ Last(step) = 1
      BY <1>4, <2>2 DEF Place, Last
    <3>2. CASE Stay(s)
      BY <1>1, <1>2, <1>4, <1>5, <1>10, <3>1, <3>2 DEF Updates, Cur, Stopped, Stay
    <3>3. CASE Move(s)
      BY <1>1, <1>2, <1>4, <3>1, <3>3 DEF Updates, Cur, Stopped, Move
    <3> QED BY <1>4, <3>2, <3>3
  <2>3. CASE op \in {"drain", "wake_weights"}
    <3>1. step \in {2, 5, 15} /\ UNCHANGED <<paused, loose>>
      BY <1>3, <1>4, <2>3 DEF Place
    <3>2. CASE Stay(s)
      BY <1>1, <1>2, <1>4, <3>1, <3>2 DEF Updates, Cur, Stopped, Stay
    <3>3. CASE Move(s)
      BY <1>1, <1>2, <1>4, <1>6, <3>1, <3>3 DEF Updates, Cur, Stopped, Move
    <3> QED BY <1>4, <3>2, <3>3
  <2> QED BY <1>3, <2>1, <2>2, <2>3
<1> QED BY <1>8, <1>9, <1>11

LEMMA LoadScript ==
  ASSUME ScriptInv, NEW s \in Servers, LoadWeights(s) \/ SetGlobalSteps(s)
  PROVE  Sleepers' /\ Updates' /\ HybridUpdates'
<1>1. /\ TypeOK /\ Rest /\ Sleepers /\ Updates /\ HybridUpdates /\ version \in Nat
      /\ Servers = Standalone \cup Hybrid /\ Standalone \cap Hybrid = {}
      /\ asleep \subseteq Hybrid /\ step \in 0..17
      /\ \A t \in Servers : weights[t] \in Int /\ label[t] \in Int /\ done[t] \in Nat
  BY ScriptTypes
<1>2. UNCHANGED <<paused, loose, asleep>> /\ Pool' = Pool
  BY DEF LoadWeights, SetGlobalSteps, Pool, balancer
<1>3. PICK op \in {"load", "label"} :
        /\ Tick(op, s)
        /\ op = "load" => LoadWeights(s)
        /\ op = "label" => SetGlobalSteps(s)
  BY DEF LoadWeights, SetGlobalSteps
<1>4. /\ Place(op, step, done[s]) /\ s \in On(step)
      /\ version' = version /\ (Stay(s) \/ Move(s))
  BY <1>3, TickMoves
<1>5. /\ op = "load"  => (step = 3 /\ done[s] = 0) \/ (step = 5 /\ done[s] = Loading)
      /\ op = "label" => (step = 3 /\ done[s] = 1) \/ (step = 5 /\ done[s] = Loading + 1)
  <2>1. CASE FreeCacheEngine
    BY <1>4, <2>1 DEF Place, Loading
  <2>2. CASE ~FreeCacheEngine
    BY <1>4, <2>2 DEF Place, Loading
  <2> QED BY <2>1, <2>2
<1>6. /\ \A t \in Servers :
           weights'[t] = IF op = "load" /\ t = s THEN version ELSE weights[t]
      /\ \A t \in Servers :
           label'[t] = IF op = "label" /\ t = s THEN version ELSE label[t]
  BY <1>1, <1>3 DEF LoadWeights, SetGlobalSteps, Rest
<1>7. CASE step = 3
  <2>1. s \in Standalone
    BY <1>4, <1>7 DEF On
  <2>2. op = "load" => Stay(s)
    BY <1>4, <1>5, <1>7, Lasts DEF Move
  <2>3. CASE Stay(s)
    <3>1. step' = 3 /\ \A t \in Servers : done'[t] = IF t = s THEN done[t] + 1 ELSE done[t]
      BY <1>7, <2>3 DEF Stay
    <3>2. Sleepers'
      BY <1>1, <1>2, <1>7, <3>1 DEF Sleepers
    <3>3. Updates'
      BY <1>1, <1>2, <1>3, <1>4, <1>5, <1>6, <1>7, <2>1, <3>1 DEF Updates, Stopped
    <3>4. HybridUpdates'
      BY <1>1, <1>2, <1>4, <1>6, <1>7, <2>1, <3>1 DEF HybridUpdates, Cur
    <3> QED BY <3>2, <3>3, <3>4
  <2>4. CASE Move(s)
    <3>1. /\ step' = 4 /\ \A t \in Servers : done'[t] = 0
          /\ op = "label" /\ done[s] = 1
          /\ \A t \in Standalone : t = s \/ done[t] = 2
      BY <1>3, <1>5, <1>7, <2>4, Lasts DEF Move, On
    <3>2. Sleepers'
      BY <1>1, <1>2, <1>7, <3>1 DEF Sleepers
    <3>3. \A t \in Standalone : weights'[t] = version /\ label'[t] = version
      BY <1>1, <1>6, <1>7, <3>1 DEF Updates
    <3>4. Updates'
      BY <1>1, <1>2, <1>4, <1>7, <3>1, <3>3 DEF Updates, Cur, Stopped
    <3>5. HybridUpdates'
      BY <1>1, <1>2, <1>4, <1>6, <1>7, <2>1, <3>1 DEF HybridUpdates, Cur
    <3> QED BY <3>2, <3>4, <3>5
  <2> QED BY <1>4, <2>3, <2>4
<1>8. CASE step = 5
  <2>1. s \in Hybrid
    BY <1>4, <1>8 DEF On
  <2>2. FreeCacheEngine \/ op = "load" => Stay(s)
    BY <1>3, <1>4, <1>5, <1>8, Lasts, Sizes DEF Move, Loading
  <2>3. \A t \in Standalone : weights'[t] = weights[t] /\ label'[t] = label[t]
    BY <1>1, <1>6, <2>1
  <2>4. Loading = IF FreeCacheEngine THEN 1 ELSE 0
    BY DEF Loading
  <2>5. FreeCacheEngine => s \in asleep
    BY <1>1, <1>3, <1>5, <1>8, <2>1, <2>4 DEF Sleepers
  <2>6. CASE Stay(s)
    <3>1. step' = 5 /\ \A t \in Servers : done'[t] = IF t = s THEN done[t] + 1 ELSE done[t]
      BY <1>8, <2>6 DEF Stay
    <3>2. Sleepers'
      <4>1. FreeCacheEngine => (done[s] < 4 /\ done'[s] < 4)
        BY <1>1, <1>3, <1>5, <1>8, <2>4, <3>1
      <4> QED BY <1>1, <1>2, <1>8, <2>5, <3>1, <4>1 DEF Sleepers
    <3>3. Updates'
      BY <1>1, <1>2, <1>4, <1>8, <2>3, <3>1 DEF Updates, Cur, Stopped
    <3>4. HybridUpdates'
      BY <1>1, <1>2, <1>3, <1>4, <1>5, <1>6, <1>8, <2>1, <2>4, <2>5, <3>1
         DEF HybridUpdates, Cur
    <3> QED BY <3>2, <3>3, <3>4
  <2>7. CASE Move(s)
    <3>1. /\ ~FreeCacheEngine \/ Stay(s)
          /\ step' = 6 /\ \A t \in Servers : done'[t] = 0
      BY <1>3, <1>8, <2>2, <2>7 DEF Move
    <3>2. CASE ~Stay(s)
      <4>1. ~FreeCacheEngine /\ op = "label" /\ Loading = 0
        BY <1>3, <2>2, <2>4, <3>1, <3>2
      <4>2. \A t \in Hybrid : t = s \/ done[t] = 2
        BY <1>8, <2>7, <4>1, Lasts DEF Move, On
      <4>3. done[s] = 1
        BY <1>5, <1>8, <4>1
      <4>4. \A t \in Hybrid : weights'[t] = version /\ label'[t] = version
        BY <1>1, <1>6, <1>8, <4>1, <4>2, <4>3 DEF HybridUpdates
      <4>5. Sleepers'
        BY <1>1, <1>2, <1>8, <3>1, <4>1 DEF Sleepers
      <4>6. Updates'
        BY <1>1, <1>2, <1>4, <1>8, <2>3, <3>1 DEF Updates, Cur, Stopped
      <4>7. HybridUpdates'
        BY <1>1, <1>4, <3>1, <4>4 DEF HybridUpdates, Cur
      <4> QED BY <4>5, <4>6, <4>7
    <3> QED BY <2>6, <3>2
  <2> QED BY <1>4, <2>6, <2>7
<1> QED BY <1>3, <1>5, <1>7, <1>8

LEMMA MemoryScript ==
  ASSUME ScriptInv, NEW s \in Servers, WakeCache(s) \/ SleepReplica(s)
  PROVE  Sleepers' /\ Updates' /\ HybridUpdates'
<1>1. /\ TypeOK /\ Rest /\ Sleepers /\ Updates /\ HybridUpdates /\ version \in Nat
      /\ Servers = Standalone \cup Hybrid /\ Standalone \cap Hybrid = {}
      /\ asleep \subseteq Hybrid /\ step \in 0..17
      /\ \A t \in Servers : weights[t] \in Int /\ label[t] \in Int /\ done[t] \in Nat
  BY ScriptTypes
<1>2. UNCHANGED <<paused, loose, label>> /\ Pool' = Pool
  BY DEF WakeCache, SleepReplica, Pool, balancer
<1>3. CASE WakeCache(s)
  <2>1. Tick("wake_cache", s) /\ asleep' = asleep \ {s} /\ weights' = weights
    BY <1>3 DEF WakeCache
  <2>2. /\ FreeCacheEngine /\ step = 5 /\ done[s] = 3 /\ s \in On(step)
        /\ version' = version /\ (Stay(s) \/ Move(s))
    BY <2>1, TickMoves DEF Place
  <2>3. s \in Hybrid /\ Loading = 1
    BY <2>2 DEF On, Loading
  <2>4. weights[s] = version /\ label[s] = version
    BY <1>1, <2>2, <2>3 DEF HybridUpdates
  <2>5. CASE Stay(s)
    <3>1. step' = 5 /\ \A t \in Servers : done'[t] = IF t = s THEN 4 ELSE done[t]
      BY <2>2, <2>5 DEF Stay
    <3>2. Sleepers'
      BY <1>1, <1>2, <2>1, <2>2, <2>3, <3>1 DEF Sleepers
    <3>3. Updates'
      BY <1>1, <1>2, <2>1, <2>2, <3>1 DEF Updates, Cur, Stopped
    <3>4. HybridUpdates'
      BY <1>1, <1>2, <2>1, <2>2, <2>3, <2>4, <3>1 DEF HybridUpdates, Cur
    <3> QED BY <3>2, <3>3, <3>4
  <2>6. CASE Move(s)
    <3>1. /\ step' = 6 /\ \A t \in Servers : done'[t] = 0
          /\ \A t \in Hybrid : t = s \/ done[t] = 4
      BY <2>2, <2>6, Lasts DEF Move, On
    <3>2. asleep' = {}
      BY <1>1, <2>1, <2>2, <3>1 DEF Sleepers
    <3>3. \A t \in Hybrid : weights'[t] = version /\ label'[t] = version
      BY <1>1, <1>2, <2>1, <2>2, <2>3, <2>4, <3>1 DEF HybridUpdates
    <3>4. Sleepers'
      BY <1>1, <1>2, <2>2, <3>1, <3>2 DEF Sleepers
    <3>5. Updates'
      BY <1>1, <1>2, <2>1, <2>2, <3>1 DEF Updates, Cur, Stopped
    <3>6. HybridUpdates'
      BY <1>1, <2>2, <3>1, <3>3 DEF HybridUpdates, Cur
    <3> QED BY <3>4, <3>5, <3>6
  <2> QED BY <2>2, <2>5, <2>6
<1>4. CASE SleepReplica(s)
  <2>1. /\ Tick("sleep", s) /\ asleep' = asleep \cup {s}
        /\ \A t \in Servers : weights'[t] = IF t = s THEN -1 ELSE weights[t]
    BY <1>1, <1>4 DEF SleepReplica, Rest
  <2>2. /\ FreeCacheEngine /\ step = 15 /\ done[s] = 1 /\ s \in On(step)
        /\ version' = version /\ (Stay(s) \/ Move(s))
    BY <2>1, TickMoves DEF Place
  <2>3. s \in Hybrid /\ \A t \in Standalone : weights'[t] = weights[t]
    BY <1>1, <2>1, <2>2 DEF On
  <2>4. CASE Stay(s)
    <3>1. step' = 15 /\ \A t \in Servers : done'[t] = IF t = s THEN 2 ELSE done[t]
      BY <2>2, <2>4 DEF Stay
    <3>2. Sleepers'
      BY <1>1, <1>2, <2>1, <2>2, <2>3, <3>1 DEF Sleepers
    <3>3. Updates'
      BY <1>1, <1>2, <2>2, <2>3, <3>1 DEF Updates, Cur, Stopped
    <3>4. HybridUpdates'
      BY <1>1, <1>2, <2>1, <2>2, <2>3, <3>1 DEF HybridUpdates, Cur
    <3> QED BY <3>2, <3>3, <3>4
  <2>5. CASE Move(s)
    <3>1. /\ step' = 16 /\ \A t \in Servers : done'[t] = 0
          /\ \A t \in Hybrid : t = s \/ done[t] = 2
      BY <2>2, <2>5, Lasts DEF Move, On
    <3>2. Hybrid \subseteq asleep'
      BY <1>1, <2>1, <2>2, <3>1 DEF Sleepers
    <3>3. Sleepers'
      BY <1>1, <1>2, <2>2, <3>1, <3>2 DEF Sleepers
    <3>4. Updates'
      BY <1>1, <1>2, <2>2, <2>3, <3>1 DEF Updates, Cur, Stopped
    <3>5. HybridUpdates'
      BY <1>1, <1>2, <2>1, <2>2, <2>3, <3>1, <3>2 DEF HybridUpdates, Cur
    <3> QED BY <3>3, <3>4, <3>5
  <2> QED BY <2>2, <2>4, <2>5
<1> QED BY <1>3, <1>4

LEMMA ScriptInvStep == ScriptInv /\ [Next]_vars => ScriptInv'
<1> SUFFICES ASSUME ScriptInv, [Next]_vars PROVE ScriptInv'
  OBVIOUS
<1>1. TypeOK /\ TypeOK' /\ Sleepers /\ Updates /\ HybridUpdates
  BY TypeStep DEF ScriptInv
<1>2. CASE Trainer
  BY <1>1, <1>2, SyncScript, CallScript, QuietScript, LoadScript, MemoryScript
     DEF Trainer, ScriptInv
<1>3. ASSUME UNCHANGED <<engines, trainer>>, Pool' = Pool
      PROVE  ScriptInv'
  BY <1>1, <1>3
     DEF ScriptInv, Sleepers, Updates, HybridUpdates, Stopped, Cur, engines, trainer
<1>4. CASE UNCHANGED vars
  BY <1>3, <1>4 DEF vars, balancer, Pool
<1>5. CASE Over
  BY <1>4, <1>5 DEF Over
<1>6. ASSUME NEW r \in Conversations,
             Conversation(r) \/ Generate(r) \/ Raise(r) \/ ReceiveRelease(r)
      PROVE  ScriptInv'
  <2>1. CASE Begin(r)
    BY <1>1, <1>3, <2>1, AcquireEffect DEF Begin
  <2>2. CASE Retry(r)
    BY <1>1, <1>3, <2>2, AcquireEffect DEF Retry
  <2>3. CASE ReceiveRelease(r)
    BY <1>1, <1>3, <2>3, ReleaseEffect DEF ReceiveRelease
  <2>4. CASE Start(r) \/ Generate(r) \/ Complete(r) \/ TakeAborted(r) \/ Raise(r)
    BY <1>1, <1>3, <2>4, ServeType DEF balancer, Pool
  <2> QED BY <1>6, <2>1, <2>2, <2>3, <2>4 DEF Conversation
<1> QED BY <1>2, <1>4, <1>5, <1>6 DEF Next

LEMMA ScriptInvariant == Spec => []ScriptInv
BY ScriptInvInit, ScriptInvStep, PTL DEF Spec

\* The balancer never routes to a server whose weights are not in memory: the
\* hybrid servers enter the pool after they woke up and leave it before they
\* fall asleep, whatever the agent loops do in between.
THEOREM PoolServesAwake == Spec => []PoolIsAwake
<1>1. ScriptInv => PoolIsAwake
  <2> SUFFICES ASSUME ScriptInv PROVE PoolIsAwake
    OBVIOUS
  <2>1. step \in 0..17 /\ Sleepers /\ asleep \subseteq Hybrid
    BY ScriptTypes
  <2> QED BY <2>1 DEF Sleepers, PoolIsAwake
<1> QED BY <1>1, ScriptInvariant, PTL

\* The servers that take part have the same weights and tell the version of them,
\* through the gathers of an update, which reach the servers in any order, and
\* through a validation, whether or not the hybrid servers can sleep.
THEOREM ServersAgree == Spec => []OneVersionServes
<1>1. ScriptInv => OneVersionServes
  <2> SUFFICES ASSUME ScriptInv, NEW s \in Servers, Settled(s)
               PROVE  weights[s] = Cur /\ label[s] = Cur
    BY DEF OneVersionServes
  <2>1. /\ Sleepers /\ Updates /\ HybridUpdates /\ Servers = Standalone \cup Hybrid
        /\ step \in 0..17 /\ asleep \subseteq Hybrid
    BY ScriptTypes
  <2>2. CASE s \in Standalone
    BY <2>1, <2>2 DEF Settled, Updates, Stopped
  <2>3. CASE s \in Hybrid /\ FreeCacheEngine
    <3>1. weights[s] = version /\ label[s] = version /\ step \notin {1, 2}
      BY <2>1, <2>3 DEF Settled, HybridUpdates, Sleepers
    <3> QED BY <3>1 DEF Cur
  <2>4. CASE s \in Hybrid /\ ~FreeCacheEngine
    <3>1. step \in 9..14
      BY <2>1, <2>4 DEF Settled, Sleepers
    <3> QED BY <2>1, <2>4, <3>1 DEF HybridUpdates, Cur
  <2> QED BY <2>1, <2>2, <2>3, <2>4
<1> QED BY <1>1, ScriptInvariant, PTL

-----------------------------------------------------------------------------
(* The versions a trajectory was generated with. *)

Drained(s) ==
  \/ step = 2 /\ done[s] >= 1
  \/ step = 3
  \/ step = 4 /\ done[s] = 0

\* No label is above the version that the serving engines have.
LabelsBounded == \A r \in Conversations : first[r] <= Cur

\* Nothing runs on a drained server that is paused.
DrainedIdle ==
  \A s \in Standalone : Drained(s) /\ s \notin loose =>
    \A r \in Conversations : pc[r] = "running" => server[r] # s

\* What a hybrid server that never sleeps still has to do began with no newer
\* weights.
HybridOld ==
  ~FreeCacheEngine =>
    \A r \in Conversations :
      pc[r] \in {"routed", "running"} /\ server[r] \in Hybrid =>
        first[r] <= weights[server[r]]

LabelInv == ScriptInv /\ LabelsBounded /\ DrainedIdle /\ HybridOld

LEMMA CurGrows ==
  ASSUME ScriptInv, [Next]_vars
  PROVE  Cur \in Int /\ Cur' \in Int /\ Cur <= Cur'
<1>1. version \in Nat /\ step \in 0..17 /\ TypeOK
  BY ScriptTypes
<1>2. CASE StartSync
  <2>1. step = 0 /\ version' = version + 1 /\ Advance
    BY <1>2 DEF StartSync
  <2>2. step' = 1
    BY <1>1, <2>1, AdvanceMoves DEF Moves
  <2> QED BY <1>1, <2>1, <2>2 DEF Cur
<1>3. ASSUME version' = version,
             step' = step \/ (step = 17 /\ step' = 0) \/ step' = step + 1
               \/ (step = 4 /\ step' = 0),
             step # 0 \/ step' = step
      PROVE  Cur \in Int /\ Cur' \in Int /\ Cur <= Cur'
  BY <1>1, <1>3 DEF Cur
<1>4. CASE AddReplicas \/ RemoveReplicas \/ EndValidation
  <2>1. PICK op \in {"add", "remove", "validate"} : Call(op)
    BY <1>4 DEF AddReplicas, RemoveReplicas, EndValidation
  <2>2. version' = version /\ Moves /\ step \in 1..17
    BY <1>1, <2>1, CallEffect
  <2> QED BY <1>1, <1>3, <2>2 DEF Moves
<1>5. ASSUME NEW s \in Servers, AbortReplica(s) \/ Replica(s)
      PROVE  Cur \in Int /\ Cur' \in Int /\ Cur <= Cur'
  <2>1. PICK op : Tick(op, s)
    BY <1>5 DEF AbortReplica, Replica, DrainReplica, ResumeReplica, SleepReplica,
                WakeWeights, LoadWeights, SetGlobalSteps, WakeCache
  <2>2. /\ version' = version /\ step \in 1..17
        /\ step' = step \/ Moves
    BY <1>1, <2>1, TickEffect
  <2> QED BY <1>1, <1>3, <2>2 DEF Moves
<1>6. CASE Trainer
  BY <1>2, <1>4, <1>5, <1>6 DEF Trainer, Replica
<1>7. CASE UNCHANGED trainer
  BY <1>1, <1>7 DEF Cur, trainer
<1>8. Trainer \/ UNCHANGED trainer
  BY DEF Next, Over, vars, Conversation, Begin, Retry, Start, Generate, Complete,
         TakeAborted, Raise, ReceiveRelease, trainer
<1> QED BY <1>6, <1>7, <1>8

LEMMA LabelInit == Init => LabelInv
<1> SUFFICES ASSUME Init PROVE LabelInv
  OBVIOUS
<1>1. ScriptInv
  BY ScriptInvInit
<1>2. \A r \in Conversations : first[r] = -1 /\ pc[r] = "idle"
  BY DEF Init
<1>3. Cur = 0
  BY ScriptParts DEF Init, Cur, Validation
<1> QED BY <1>1, <1>2, <1>3 DEF LabelInv, LabelsBounded, DrainedIdle, HybridOld

\* No server tells a version that is still to come.
LEMMA Labels ==
  ASSUME ScriptInv
  PROVE  \A s \in Servers : label[s] \in Int /\ label[s] <= Cur
<1>1. /\ Updates /\ HybridUpdates /\ version \in Nat /\ Servers = Standalone \cup Hybrid
      /\ \A s \in Servers : label[s] \in Int
  BY ScriptTypes
<1>2. \A s \in Standalone : label[s] <= Cur
  BY <1>1 DEF Updates, Cur
<1> QED BY <1>1, <1>2 DEF HybridUpdates

LEMMA BoundedStep ==
  ASSUME LabelInv, [Next]_vars,
         \A r \in Conversations :
           \/ first'[r] = first[r]
           \/ server[r] \in Servers /\ first'[r] = label[server[r]]
  PROVE  LabelsBounded'
<1>1. Cur \in Int /\ Cur' \in Int /\ Cur <= Cur'
  BY CurGrows DEF LabelInv
<1>2. \A r \in Conversations : first[r] \in Int /\ first[r] <= Cur
  BY TypeParts DEF LabelInv, ScriptInv, LabelsBounded, Clients, Typed
<1>3. \A s \in Servers : label[s] \in Int /\ label[s] <= Cur
  BY Labels DEF LabelInv
<1> QED BY <1>1, <1>2, <1>3 DEF LabelsBounded

\* The calls of the Trainer to a server, but for an abort.
LEMMA LabelReplica ==
  ASSUME LabelInv, [Next]_vars, NEW s \in Servers, Replica(s)
  PROVE  LabelsBounded' /\ DrainedIdle' /\ HybridOld'
<1>1. /\ ScriptInv /\ TypeOK /\ version \in Nat /\ step \in 0..17
      /\ Servers = Standalone \cup Hybrid
      /\ \A t \in Servers : weights[t] \in Int /\ done[t] \in Nat
  BY ScriptTypes DEF LabelInv
<1>2. UNCHANGED clients
  BY <1>1, ReplicaType
<1>3. LabelsBounded'
  BY <1>2, BoundedStep DEF clients
<1>4. PICK op \in {"drain", "resume", "sleep", "wake_weights", "load", "label", "wake_cache"} :
        /\ Tick(op, s)
        /\ op = "drain" => DrainReplica(s)
        /\ op = "resume" => ResumeReplica(s)
        /\ op = "load" => LoadWeights(s)
        /\ op # "resume" => loose' = loose
        /\ op \notin {"load", "sleep"} => weights' = weights
  BY DEF Replica, DrainReplica, ResumeReplica, SleepReplica, WakeWeights, LoadWeights,
         SetGlobalSteps, WakeCache, engines
<1>5. /\ Place(op, step, done[s]) /\ s \in On(step)
      /\ version' = version /\ (Stay(s) \/ Move(s))
  BY <1>1, <1>4, TickMoves
<1>6. DrainedIdle'
  <2> SUFFICES ASSUME NEW t \in Standalone, Drained(t)', t \notin loose',
                      NEW r \in Conversations, pc[r] = "running"
               PROVE  server[r] # t
    BY <1>2 DEF DrainedIdle, clients
  <2>1. CASE Drained(t) /\ t \notin loose
    BY <2>1 DEF LabelInv, DrainedIdle
  <2>2. CASE op = "resume"
    <3>1. step \in {4, 9, 10, 16, 17} /\ loose' = loose \ {s}
      BY <1>4, <1>5, <2>2 DEF Place, ResumeReplica
    <3>2. ~Move(s)
      BY <3>1 DEF Move, Drained
    <3>3. step = 4 /\ t # s /\ done[t] = 0
      BY <1>1, <1>5, <3>1, <3>2 DEF Stay, Drained
    <3> QED BY <2>1, <3>1, <3>3 DEF Drained
  <2>3. CASE op = "drain" /\ step = 2
    <3>1. Running(s) = {} /\ loose' = loose
      BY <1>4, <2>3 DEF DrainReplica
    <3>2. CASE t = s
      BY <3>1, <3>2 DEF Running
    <3>3. CASE t # s
      <4>1. done[t] >= 1
        <5>1. CASE Stay(s)
          BY <1>1, <2>3, <3>3, <5>1 DEF Stay, Drained
        <5>2. CASE Move(s)
          BY <2>3, <3>3, <5>2, Lasts DEF Move, On
        <5> QED BY <1>5, <5>1, <5>2
      <4> QED BY <2>1, <2>3, <3>1, <4>1 DEF Drained
    <3> QED BY <3>2, <3>3
  <2>4. CASE op # "resume" /\ ~(op = "drain" /\ step = 2)
    <3>1. step \in {3, 5, 15} /\ loose' = loose
      BY <1>4, <1>5, <2>4 DEF Place
    <3>2. step = 3
      BY <1>5, <3>1 DEF Stay, Move, Drained
    <3> QED BY <2>1, <3>1, <3>2 DEF Drained
  <2> QED BY <2>2, <2>3, <2>4
<1>7. HybridOld'
  <2> SUFFICES ASSUME ~FreeCacheEngine, NEW r \in Conversations,
                      pc[r] \in {"routed", "running"}, server[r] \in Hybrid
               PROVE  first[r] <= weights'[server[r]]
    BY <1>2 DEF HybridOld, clients
  <2>1. first[r] <= weights[server[r]]
    BY DEF LabelInv, HybridOld
  <2>2. CASE op = "load"
    <3>1. /\ first[r] \in Int /\ first[r] <= Cur /\ Cur \in Int /\ Cur <= version
          /\ server[r] \in Servers
      BY <1>1, TypeParts DEF LabelInv, LabelsBounded, Clients, Typed, Cur
    <3>2. weights'[server[r]] = IF server[r] = s THEN version ELSE weights[server[r]]
      BY <1>1, <1>4, <2>2, <3>1, TypeParts DEF LoadWeights, Rest
    <3> QED BY <1>1, <2>1, <3>1, <3>2
  <2>3. op # "sleep"
    BY <1>5 DEF Place
  <2> QED BY <1>4, <2>1, <2>2, <2>3
<1> QED BY <1>3, <1>6, <1>7

LEMMA LabelAbort ==
  ASSUME LabelInv, [Next]_vars, NEW s \in Servers, AbortReplica(s)
  PROVE  LabelsBounded' /\ DrainedIdle' /\ HybridOld'
<1>1. ScriptInv /\ TypeOK /\ step \in 0..17
  BY ScriptTypes DEF LabelInv
<1>2. /\ \A r \in Conversations :
           pc'[r] = pc[r] \/ (pc[r] = "running" /\ server[r] = s /\ pc'[r] = "aborted")
      /\ \A r \in Conversations :
           \/ first'[r] = first[r]
           \/ server[r] \in Servers /\ pc'[r] = "aborted" /\ first'[r] = label[server[r]]
      /\ UNCHANGED <<server, weights>>
  BY <1>1, AbortEffect DEF AbortReplica
<1>3. LabelsBounded'
  BY <1>2, BoundedStep
<1>4. /\ step \in {1, 6, 7, 12, 13} /\ (Stay(s) \/ Move(s))
  BY <1>1, TickMoves DEF AbortReplica, Place
<1>5. DrainedIdle'
  <2>1. \A t \in Standalone : ~Drained(t)'
    BY <1>4, Sets DEF Stay, Move, Drained
  <2> QED BY <2>1 DEF DrainedIdle
<1>6. HybridOld'
  BY <1>2 DEF LabelInv, HybridOld
<1> QED BY <1>3, <1>5, <1>6

LEMMA LabelCall ==
  ASSUME LabelInv, [Next]_vars, StartSync \/ AddReplicas \/ RemoveReplicas \/ EndValidation
  PROVE  LabelsBounded' /\ DrainedIdle' /\ HybridOld'
<1>1. ScriptInv /\ TypeOK /\ step \in 0..17
  BY ScriptTypes DEF LabelInv
<1>2. UNCHANGED <<clients, engines>>
  BY DEF StartSync, AddReplicas, RemoveReplicas, EndValidation, Call
<1>3. LabelsBounded'
  BY <1>2, BoundedStep DEF clients
<1>4. step' \in {1, 9, 12, 15}
  <2>1. CASE StartSync
    <3>1. step = 0 /\ Moves
      BY <1>1, <2>1, AdvanceMoves DEF StartSync
    <3> QED BY <3>1 DEF Moves
  <2>2. CASE ~StartSync
    <3>1. PICK op \in {"add", "remove", "validate"} : Call(op)
      BY <2>2 DEF AddReplicas, RemoveReplicas, EndValidation
    <3>2. step \in {8, 11, 14} /\ Moves
      BY <1>1, <3>1, CallEffect, CallPlaces
    <3> QED BY <3>2 DEF Moves
  <2> QED BY <2>1, <2>2
<1>5. DrainedIdle'
  BY <1>4 DEF DrainedIdle, Drained
<1>6. HybridOld'
  BY <1>2 DEF LabelInv, HybridOld, clients, engines
<1> QED BY <1>3, <1>5, <1>6

LEMMA LabelConversation ==
  ASSUME LabelInv, [Next]_vars, NEW r \in Conversations,
         Conversation(r) \/ Generate(r) \/ Raise(r) \/ ReceiveRelease(r)
  PROVE  LabelsBounded' /\ DrainedIdle' /\ HybridOld'
<1>1. /\ ScriptInv /\ TypeOK /\ Clients /\ version \in Nat /\ step \in 0..17
      /\ Sleepers /\ Updates /\ HybridUpdates
  BY ScriptTypes, TypeParts DEF LabelInv
<1>2. UNCHANGED <<engines, trainer>>
  BY DEF Conversation, Begin, Retry, Start, Generate, Complete, TakeAborted, Raise,
         ReceiveRelease
\* The others are left alone.
<1>3. \A c \in Conversations :
        c # r => pc'[c] = pc[c] /\ server'[c] = server[c] /\ first'[c] = first[c]
  <2>1. CASE Begin(r) \/ Retry(r)
    BY <1>1, <2>1, AcquireEffect DEF Begin, Retry, Clients, Typed
  <2>2. CASE Complete(r)
    <3>1. r \in Holding /\ LabelOutputs({r})
      BY <2>2 DEF Complete, Runs, Holding
    <3>2. \A c \in Conversations : c # r => first'[c] = first[c]
      BY <1>1, <3>1, LabelEffect
    <3> QED BY <1>1, <2>2, <3>2 DEF Complete, Clients, Typed
  <2>3. CASE Start(r) \/ Generate(r) \/ TakeAborted(r) \/ Raise(r) \/ ReceiveRelease(r)
    BY <1>1, <2>3
       DEF Start, Generate, TakeAborted, Raise, ReceiveRelease, Clients, Typed
  <2> QED BY <2>1, <2>2, <2>3 DEF Conversation
\* The one that moves.
<1>4. /\ first'[r] = first[r] \/ (server[r] \in Servers /\ first'[r] = label[server[r]])
      /\ pc'[r] \in {"routed", "running"} => first'[r] = first[r]
      /\ pc'[r] = "running" =>
           \/ pc[r] = "running" /\ server'[r] = server[r]
           \/ server'[r] \notin paused
      /\ pc'[r] \in {"routed", "running"} =>
           \/ pc[r] \in {"routed", "running"} /\ server'[r] = server[r]
           \/ server'[r] \in Pool
  <2>1. CASE Begin(r) \/ Retry(r)
    <3>1. /\ first' = first /\ Acquire(r) /\ pc[r] \in {"idle", "waiting"}
      BY <2>1 DEF Begin, Retry
    <3>2. pc'[r] = "routed" /\ server'[r] \in Pool
      BY <1>1, <3>1, AcquireEffect DEF Clients, Typed
    <3> QED BY <3>1, <3>2
  <2>2. CASE Complete(r)
    <3>1. r \in Holding /\ LabelOutputs({r}) /\ server[r] \in Servers /\ pc'[r] = "idle"
      BY <1>1, <2>2 DEF Complete, Runs, Holding, Clients, Typed
    <3>2. first'[r] = first[r] \/ first'[r] = label[server[r]]
      BY <1>1, <3>1, LabelEffect
    <3> QED BY <3>1, <3>2
  <2>3. CASE Start(r)
    BY <1>1, <2>3 DEF Start, Clients, Typed
  <2>4. CASE Generate(r) \/ TakeAborted(r) \/ Raise(r)
    BY <1>1, <2>4 DEF Generate, Runs, TakeAborted, Raise, Clients, Typed
  <2>5. CASE ReceiveRelease(r)
    BY <1>1, <2>5 DEF ReceiveRelease, Clients, Typed
  <2> QED BY <2>1, <2>2, <2>3, <2>4, <2>5 DEF Conversation
<1>5. LabelsBounded'
  BY <1>3, <1>4, BoundedStep
<1>6. DrainedIdle'
  <2> SUFFICES ASSUME NEW t \in Standalone, Drained(t), t \notin loose,
                      NEW c \in Conversations, pc'[c] = "running"
               PROVE  server'[c] # t
    BY <1>2 DEF DrainedIdle, Drained, engines, trainer
  <2>1. t \in paused
    BY <1>1 DEF Updates, Stopped, Drained
  <2>2. CASE pc[c] = "running" /\ server'[c] = server[c]
    BY <2>2 DEF LabelInv, DrainedIdle
  <2> QED BY <1>3, <1>4, <2>1, <2>2
<1>7. HybridOld'
  <2> SUFFICES ASSUME ~FreeCacheEngine, NEW c \in Conversations,
                      pc'[c] \in {"routed", "running"}, server'[c] \in Hybrid
               PROVE  first'[c] <= weights[server'[c]]
    BY <1>2 DEF HybridOld, engines
  <2>1. first'[c] = first[c]
    BY <1>3, <1>4
  <2>2. CASE pc[c] \in {"routed", "running"} /\ server'[c] = server[c]
    BY <2>1, <2>2 DEF LabelInv, HybridOld
  <2>3. CASE server'[c] \in Pool
    <3>1. step \in 9..14
      BY <1>1, <2>3 DEF Sleepers
    <3>2. weights[server'[c]] = version /\ Cur = version
      BY <1>1, <3>1 DEF HybridUpdates, Cur
    <3> QED BY <2>1, <3>2 DEF LabelInv, LabelsBounded
  <2> QED BY <1>3, <1>4, <2>2, <2>3
<1> QED BY <1>5, <1>6, <1>7

LEMMA LabelStep == LabelInv /\ [Next]_vars => LabelInv'
<1> SUFFICES ASSUME LabelInv, [Next]_vars PROVE LabelsBounded' /\ DrainedIdle' /\ HybridOld'
  BY ScriptInvStep DEF LabelInv
<1>1. CASE UNCHANGED vars \/ Over
  <2>1. UNCHANGED <<clients, engines, trainer>>
    BY <1>1 DEF vars, Over
  <2> QED BY <2>1
          DEF LabelInv, LabelsBounded, DrainedIdle, Drained, HybridOld, Cur,
              clients, engines, trainer
<1>2. CASE Trainer
  BY <1>2, LabelReplica, LabelAbort, LabelCall DEF Trainer, Replica
<1> QED BY <1>1, <1>2, LabelConversation DEF Next

\* A trajectory never goes on with older weights than it began with, however
\* often it is aborted and wherever it goes on, but on a server that an abort
\* left running.
THEOREM TrajectoryNeverOlder == Spec => []NeverOlder
<1>1. LabelInv => NeverOlder
  <2> SUFFICES ASSUME LabelInv, NEW r \in Conversations, Runs(r), server[r] \notin loose
               PROVE  first[r] <= weights[server[r]]
    BY DEF NeverOlder
  <2>1. /\ ScriptInv /\ Clients /\ Updates /\ HybridUpdates
        /\ Servers = Standalone \cup Hybrid /\ version \in Nat
    BY ScriptTypes, TypeParts DEF LabelInv
  <2>2. /\ pc[r] = "running" /\ server[r] \notin asleep /\ server[r] \in Servers
        /\ first[r] <= Cur /\ first[r] \in Int
    BY <2>1 DEF Runs, LabelInv, LabelsBounded, Clients, Typed
  <2>3. CASE server[r] \in Standalone
    <3>1. step # 3
      BY <2>2, <2>3 DEF LabelInv, DrainedIdle, Drained
    <3> QED BY <2>1, <2>2, <2>3, <3>1 DEF Updates
  <2>4. CASE server[r] \in Hybrid /\ FreeCacheEngine
    <3>1. weights[server[r]] = version
      BY <2>1, <2>2, <2>4 DEF HybridUpdates
    <3> QED BY <2>1, <2>2, <3>1 DEF Cur
  <2>5. CASE server[r] \in Hybrid /\ ~FreeCacheEngine
    BY <2>2, <2>5 DEF LabelInv, HybridOld
  <2> QED BY <2>1, <2>2, <2>3, <2>4, <2>5
<1> QED BY <1>1, LabelInit, LabelStep, PTL DEF Spec

-----------------------------------------------------------------------------
(* The token ids of a conversation. *)

Limit == PromptLength + ResponseLength

\* A request is only sent, or sent again, while there is room for an id.
Room(p, tn, ln, g) ==
  \A r \in Conversations :
    /\ ln[r] + g[r] <= Limit
    /\ p[r] \in {"routed", "running", "aborted", "waiting"} => ln[r] + g[r] < Limit
    /\ p[r] \in {"idle", "routed", "waiting"} => g[r] = 0
    /\ tn[r] = 0 => p[r] = "idle" /\ ln[r] = Prompt[r]

RoomInv == TypeOK /\ Room(pc, turn, length, got)

LEMMA Budget ==
  ASSUME NEW n \in Nat, n < Limit
  PROVE  MaxTokens(n) \in Nat /\ MaxTokens(n) <= Limit - n
BY Sizes DEF MaxTokens, Least, Limit

LEMMA RoomInit == Init => RoomInv
<1> SUFFICES ASSUME Init PROVE RoomInv
  OBVIOUS
<1>1. \A r \in Conversations :
        /\ pc[r] = "idle" /\ turn[r] = 0 /\ got[r] = 0 /\ length[r] = Prompt[r]
        /\ Prompt[r] \in Nat /\ Prompt[r] <= PromptLength
  BY Sets DEF Init
<1> QED BY <1>1, TypeInit, Sizes DEF RoomInv, Room, Limit

LEMMA RoomStep == RoomInv /\ [Next]_vars => RoomInv'
<1> SUFFICES ASSUME RoomInv, [Next]_vars PROVE Room(pc, turn, length, got)'
  BY TypeStep DEF RoomInv
<1>1. /\ TypeOK /\ Room(pc, turn, length, got)
      /\ pc \in [Conversations -> States] /\ turn \in [Conversations -> Nat]
      /\ length \in [Conversations -> Nat] /\ got \in [Conversations -> Nat]
  BY TypeParts DEF RoomInv, Clients, Typed
<1>2. Limit \in Nat /\ PromptLength \in Nat /\ ResponseLength \in Nat /\ ToolLength \in Nat
  BY Sizes DEF Limit
<1>3. CASE UNCHANGED <<pc, turn, length, got>>
  BY <1>1, <1>3 DEF Room
<1>4. CASE \/ UNCHANGED vars \/ Over \/ StartSync \/ AddReplicas \/ RemoveReplicas \/ EndValidation
           \/ \E s \in Servers : Replica(s)
  BY <1>1, <1>3, <1>4, ReplicaType
     DEF vars, clients, Over, StartSync, AddReplicas, RemoveReplicas, EndValidation, Call
<1>5. ASSUME NEW s \in Servers, AbortReplica(s)
      PROVE  Room(pc, turn, length, got)'
  <2>1. \A r \in Conversations :
          pc'[r] = pc[r] \/ (pc[r] = "running" /\ pc'[r] = "aborted")
    BY <1>1, <1>5, AbortEffect
  <2>2. UNCHANGED <<turn, length, got>>
    BY <1>5 DEF AbortReplica
  <2> QED BY <1>1, <2>1, <2>2 DEF Room
<1>6. ASSUME NEW r \in Conversations,
             Conversation(r) \/ Generate(r) \/ Raise(r) \/ ReceiveRelease(r)
      PROVE  Room(pc, turn, length, got)'
  <2>1. CASE Begin(r)
    <3>1. /\ pc[r] = "idle" /\ pc' = [pc EXCEPT ![r] = "routed"]
          /\ turn' = [turn EXCEPT ![r] = turn[r] + 1] /\ got' = got
      BY <2>1 DEF Begin, Acquire
    <3>2. CASE turn[r] = 0
      <4>1. length' = length /\ length[r] = Prompt[r] /\ Prompt[r] <= PromptLength
        BY <1>1, <2>1, <3>2, Sets DEF Begin, Room
      <4>2. length[r] + got[r] < Limit
        BY <1>1, <1>2, <3>1, <4>1, Sizes DEF Room, Limit
      <4> QED BY <1>1, <3>1, <3>2, <4>1, <4>2 DEF Room
    <3>3. CASE turn[r] # 0
      <4>1. /\ length' = [length EXCEPT ![r] = length[r] + ToolLength]
            /\ length[r] - Prompt[r] + ToolLength < ResponseLength
            /\ Prompt[r] \in Nat /\ Prompt[r] <= PromptLength
        <5>1. turn[r] \in Nat /\ turn[r] > 0
          BY <1>1, <3>3
        <5>2. length[r] - Prompt[r] + ToolLength < ResponseLength
          BY <2>1, <5>1 DEF Begin, Response
        <5>3. length' = [length EXCEPT ![r] = length[r] + ToolLength]
          BY <2>1, <3>3 DEF Begin
        <5> QED BY <5>2, <5>3, Sets
      <4>2. length[r] + ToolLength + got[r] < Limit /\ got[r] = 0
        BY <1>1, <1>2, <3>1, <4>1 DEF Room, Limit
      <4> QED BY <1>1, <1>2, <3>1, <3>3, <4>1, <4>2 DEF Room
    <3> QED BY <3>2, <3>3
  <2>2. CASE Retry(r)
    BY <1>1, <2>2 DEF Retry, Acquire, Room
  <2>3. CASE Start(r)
    BY <1>1, <2>3 DEF Start, Room
  <2>4. CASE Generate(r)
    <3>1. pc[r] = "running" /\ length[r] + got[r] < Limit /\ length[r] < Limit
      BY <1>1, <1>2, <2>4 DEF Generate, Runs, Room
    <3>2. length[r] + got[r] + 1 < Limit
      <4>1. got[r] + 1 < MaxTokens(length[r])
        BY <2>4 DEF Generate
      <4>2. MaxTokens(length[r]) \in Nat /\ MaxTokens(length[r]) <= Limit - length[r]
        BY <1>1, <3>1, Budget
      <4> QED BY <1>1, <1>2, <4>1, <4>2
    <3>3. got' = [got EXCEPT ![r] = got[r] + 1] /\ UNCHANGED <<pc, turn, length>>
      BY <2>4 DEF Generate
    <3> QED BY <1>1, <1>2, <3>1, <3>2, <3>3 DEF Room
  <2>5. CASE Complete(r)
    <3>1. /\ pc[r] = "running" /\ length[r] + got[r] < Limit
          /\ pc' = [pc EXCEPT ![r] = "idle"]
          /\ length' = [length EXCEPT ![r] = length[r] + got[r] + 1]
          /\ got' = [got EXCEPT ![r] = 0] /\ turn' = turn
      BY <1>1, <2>5 DEF Complete, Runs, Room
    <3> QED BY <1>1, <1>2, <3>1 DEF Room
  <2>6. CASE TakeAborted(r)
    <3>1. /\ pc[r] = "aborted" /\ length[r] + got[r] < Limit
          /\ \/ pc' = [pc EXCEPT ![r] = "waiting"]
             \/ pc' = [pc EXCEPT ![r] = "idle"]
          /\ length' = [length EXCEPT ![r] = length[r] + got[r]]
          /\ got' = [got EXCEPT ![r] = 0] /\ turn' = turn
      BY <1>1, <2>6 DEF TakeAborted, Room
    <3> QED BY <1>1, <1>2, <3>1 DEF Room
  <2>7. CASE Raise(r)
    BY <1>1, <2>7 DEF Raise, Room
  <2>8. CASE ReceiveRelease(r)
    BY <1>3, <2>8 DEF ReceiveRelease
  <2> QED BY <1>6, <2>1, <2>2, <2>3, <2>4, <2>5, <2>6, <2>7, <2>8 DEF Conversation
<1> QED BY <1>4, <1>5, <1>6 DEF Next, Trainer, Replica

\* Prompt and response fit into the two configured lengths, however often a
\* generation is interrupted and sent again with what it already has.
THEOREM LengthBounded == Spec => []LengthBound
<1>1. RoomInv => LengthBound
  BY DEF RoomInv, Room, LengthBound, Limit
<1> QED BY <1>1, RoomInit, RoomStep, PTL DEF Spec

-----------------------------------------------------------------------------
(* The counts of the balancer. *)

\* CountsTrue without its lower bound, which is a matter of types.
CountsMatch ==
  \A s \in Pool :
    LET real == Cardinality(Outstanding(s))
    IN  IF s \in Standalone THEN inflight[s] = real ELSE inflight[s] <= real

CountInv == TypeOK /\ CountsMatch

LEMMA OutstandingFinite ==
  ASSUME TypeOK, NEW s
  PROVE  IsFiniteSet(Outstanding(s)) /\ Cardinality(Outstanding(s)) \in Nat
<1>1. Outstanding(s) \in SUBSET Conversations
  BY DEF TypeOK, Outstanding, Holding
<1>2. IsFiniteSet(Outstanding(s))
  BY <1>1, Sets, FS_Subset
<1> QED BY <1>2, FS_CardinalityType

\* An acquire adds one conversation to those of one server.
LEMMA AcquireOutstanding ==
  ASSUME TypeOK, NEW r \in Conversations, NEW s \in Servers, r \notin Holding,
         server' = [server EXCEPT ![r] = s], pc' = [pc EXCEPT ![r] = "routed"],
         leaving' = leaving
  PROVE  /\ r \notin Outstanding(s)
         /\ Outstanding(s)' = Outstanding(s) \cup {r}
         /\ \A t \in Servers \ {s} : Outstanding(t)' = Outstanding(t)
<1>1. Clients
  BY TypeParts
<1> QED BY <1>1 DEF Clients, Typed, Outstanding, Holding

\* A release takes it away.
LEMMA ReleaseOutstanding ==
  ASSUME TypeOK, NEW r \in Conversations, ReceiveRelease(r)
  PROVE  /\ r \in Outstanding(server[r])
         /\ \A t \in Servers :
              Outstanding(t)' = IF t = server[r] THEN Outstanding(t) \ {r} ELSE Outstanding(t)
<1>1. Clients /\ None \notin Servers
  BY TypeParts, Sets
<1>2. /\ r \in leaving /\ leaving' = leaving \ {r} /\ pc' = pc
      /\ server' = [server EXCEPT ![r] = None]
  BY DEF ReceiveRelease
<1> QED BY <1>1, <1>2 DEF Clients, Typed, Outstanding, Holding

LEMMA CountStep == CountInv /\ [Next]_vars => CountInv'
<1> SUFFICES ASSUME CountInv, [Next]_vars PROVE CountsMatch'
  BY TypeStep DEF CountInv
<1>1. /\ TypeOK /\ CountsMatch /\ Pool \subseteq Servers /\ inflight \in [Pool -> Nat]
      /\ \A s \in Servers : Cardinality(Outstanding(s)) \in Nat
      /\ \A s \in Servers : IsFiniteSet(Outstanding(s))
  BY OutstandingFinite, TypeParts DEF CountInv, Rest
<1>2. ASSUME UNCHANGED inflight, \A s \in Servers : Outstanding(s)' = Outstanding(s)
      PROVE  CountsMatch'
  <2>1. Pool' = Pool
    BY <1>2 DEF Pool
  <2> QED BY <1>1, <1>2, <2>1 DEF CountsMatch
<1>3. UNCHANGED <<pc, server, leaving>> => \A s \in Servers : Outstanding(s)' = Outstanding(s)
  BY DEF Outstanding, Holding
<1>4. CASE UNCHANGED vars \/ Over \/ StartSync \/ EndValidation
  BY <1>2, <1>3, <1>4 DEF vars, balancer, clients, Over, StartSync, EndValidation, Call
<1>5. CASE \E s \in Servers : Replica(s)
  BY <1>1, <1>2, <1>3, <1>5, ReplicaType DEF balancer, clients
<1>6. ASSUME NEW s \in Servers, AbortReplica(s)
      PROVE  CountsMatch'
  <2>1. \A r \in Conversations :
          pc'[r] = pc[r] \/ (pc[r] = "running" /\ pc'[r] = "aborted")
    BY <1>1, <1>6, AbortEffect
  <2>2. UNCHANGED <<inflight, server, leaving>>
    BY <1>6 DEF AbortReplica, balancer
  <2>3. \A t \in Servers : Outstanding(t)' = Outstanding(t)
    BY <2>1, <2>2 DEF Outstanding, Holding
  <2> QED BY <1>2, <2>2, <2>3
<1>7. CASE AddReplicas \/ RemoveReplicas
  <2>1. \A s \in Servers : Outstanding(s)' = Outstanding(s)
    BY <1>3, <1>7 DEF AddReplicas, RemoveReplicas, Call, clients
  <2>2. CASE AddReplicas
    <3>1. /\ Pool' = Pool \cup Hybrid
          /\ \A s \in Pool' : inflight'[s] = IF s \in Pool THEN inflight[s] ELSE 0
      BY <2>2 DEF AddReplicas, Pool
    <3>2. \A s \in Pool' : s \in Standalone => s \in Pool
      BY <1>1 DEF TypeOK
    <3>3. Pool' \subseteq Servers
      BY <1>1, <3>1, Sets
    <3> QED BY <1>1, <2>1, <3>1, <3>2, <3>3 DEF CountsMatch
  <2>3. CASE RemoveReplicas
    <3>1. Pool' = Pool \ Hybrid /\ \A s \in Pool' : inflight'[s] = inflight[s]
      BY <2>3 DEF RemoveReplicas, Pool
    <3> QED BY <1>1, <2>1, <3>1 DEF CountsMatch
  <2> QED BY <1>7, <2>2, <2>3
<1>8. ASSUME NEW r \in Conversations, Begin(r) \/ Retry(r)
      PROVE  CountsMatch'
  <2>1. PICK s \in Pool :
          /\ s \in Servers /\ r \notin Holding /\ Pool' = Pool
          /\ \A t \in Pool : inflight'[t] = IF t = s THEN inflight[t] + 1 ELSE inflight[t]
          /\ server' = [server EXCEPT ![r] = s]
          /\ pc' = [pc EXCEPT ![r] = "routed"]
    <3>1. Acquire(r) /\ pc[r] \in {"idle", "waiting"}
      BY <1>8 DEF Begin, Retry
    <3> QED BY <1>1, <3>1, AcquireEffect
  <2>2. /\ r \notin Outstanding(s)
        /\ Outstanding(s)' = Outstanding(s) \cup {r}
        /\ \A t \in Servers \ {s} : Outstanding(t)' = Outstanding(t)
    <3>1. leaving' = leaving
      BY <1>8 DEF Begin, Retry
    <3> QED BY <1>1, <2>1, <3>1, AcquireOutstanding
  <2>3. Cardinality(Outstanding(s)') = Cardinality(Outstanding(s)) + 1
    BY <1>1, <2>1, <2>2, FS_AddElement
  <2> QED BY <1>1, <2>1, <2>2, <2>3 DEF CountsMatch
<1>9. ASSUME NEW r \in Conversations, ReceiveRelease(r)
      PROVE  CountsMatch'
  <2>1. PICK s \in Servers :
          /\ s = server[r] /\ Pool' = Pool
          /\ \A t \in Pool :
               inflight'[t] = IF t = s /\ inflight[t] > 0 THEN inflight[t] - 1
                              ELSE inflight[t]
    BY <1>1, <1>9, ReleaseEffect
  <2>2. /\ r \in Outstanding(s)
        /\ Outstanding(s)' = Outstanding(s) \ {r}
        /\ \A t \in Servers \ {s} : Outstanding(t)' = Outstanding(t)
    BY <1>1, <1>9, <2>1, ReleaseOutstanding
  <2>3. /\ Cardinality(Outstanding(s)') = Cardinality(Outstanding(s)) - 1
        /\ Cardinality(Outstanding(s)) >= 1
    <3>1. Cardinality(Outstanding(s) \ {r}) = Cardinality(Outstanding(s)) - 1
      BY <1>1, <2>1, <2>2, FS_RemoveElement
    <3>2. Cardinality(Outstanding(s)) # 0 /\ Cardinality(Outstanding(s)) \in Nat
      BY <1>1, <2>1, <2>2, FS_EmptySet
    <3>3. Cardinality(Outstanding(s)) >= 1
      BY <3>2
    <3> QED BY <2>2, <3>1, <3>3
  <2>4. \A t \in Pool \ {s} : inflight'[t] = inflight[t]
    BY <2>1
  <2>5. s \in Pool =>
          /\ s \in Standalone => inflight'[s] = Cardinality(Outstanding(s)')
          /\ inflight'[s] <= Cardinality(Outstanding(s)')
    <3>1. CASE s \in Standalone /\ s \in Pool
      <4>1. inflight[s] = Cardinality(Outstanding(s)) /\ inflight[s] \in Nat
        BY <1>1, <3>1 DEF CountsMatch
      <4> QED BY <2>1, <2>3, <3>1, <4>1
    <3>2. CASE s \notin Standalone /\ s \in Pool
      <4>1. /\ inflight[s] <= Cardinality(Outstanding(s)) /\ inflight[s] \in Nat
            /\ Cardinality(Outstanding(s)) \in Nat
        BY <1>1, <3>2 DEF CountsMatch
      <4> QED BY <2>1, <2>3, <3>2, <4>1
    <3> QED BY <3>1, <3>2
  <2> QED BY <1>1, <2>1, <2>2, <2>4, <2>5 DEF CountsMatch
<1>10. ASSUME NEW r \in Conversations,
              Start(r) \/ Generate(r) \/ Complete(r) \/ TakeAborted(r) \/ Raise(r)
       PROVE  CountsMatch'
  <2>1. Clients
    BY <1>1, TypeParts
  <2>2. UNCHANGED inflight /\ server' = server
    BY <1>10 DEF Start, Generate, Complete, TakeAborted, Raise, balancer
  <2>3. Holding' = Holding
    BY <1>10, <2>1
       DEF Start, Generate, Complete, TakeAborted, Raise, Runs, SendRelease, Holding,
           Clients, Typed
  <2>4. \A t \in Servers : Outstanding(t)' = Outstanding(t)
    BY <2>2, <2>3 DEF Outstanding
  <2> QED BY <1>2, <2>2, <2>4
<1> QED BY <1>4, <1>5, <1>6, <1>7, <1>8, <1>9, <1>10 DEF Next, Trainer, Replica, Conversation

\* The balancer's counts of the standalone servers are exact, and no other count
\* is too high or below zero: no interruption, exception or removal leaks one.
THEOREM CountsCorrect == Spec => []CountsTrue
<1>1. Init => CountInv
  <2> SUFFICES ASSUME Init PROVE CountInv
    OBVIOUS
  <2>1. Pool = Standalone /\ \A s \in Pool : inflight[s] = 0 /\ Outstanding(s) = {}
    BY DEF Init, Pool, Outstanding, Holding
  <2> QED BY <2>1, TypeInit, FS_EmptySet DEF CountInv, CountsMatch
<1>2. CountInv => CountsTrue
  <2> SUFFICES ASSUME CountInv, NEW s \in Pool
               PROVE  /\ s \in Standalone => inflight[s] = Cardinality(Outstanding(s))
                      /\ s \notin Standalone => inflight[s] \in 0..Cardinality(Outstanding(s))
    BY DEF CountsTrue
  <2>1. inflight[s] \in Nat /\ Cardinality(Outstanding(s)) \in Nat
    BY OutstandingFinite DEF CountInv, TypeOK, Pool
  <2> QED BY <2>1 DEF CountInv, CountsMatch
<1> QED BY <1>1, <1>2, CountStep, PTL DEF Spec
=============================================================================
