--------------------------- MODULE StartupProofs ---------------------------
(***************************************************************************)
(* What Startup promises for any number of messages: StartupInv is         *)
(* inductive, the singletons are what main() relies on, and the messages   *)
(* are executed in the order of their arrival.                             *)
(***************************************************************************)
EXTENDS Startup, TLAPS

\* main() starts with neither singleton, and without a second thread.
LEMMA SingletonInit == Init => SingletonInv
BY MaxMsgsAssumption DEF Init, SingletonInv, TypeOK, ReturnsToCaller, ConfigInv,
   EngineInv, ReadyInv, CountInv, Held, Threads, Files, ConfigGetters, EngineGetters,
   MainLabels, ServerLabels, Engine

\* A thread goes through GameConfig::get_instance(): nothing but pc, cfg and
\* configs changes, and only main can find no object.
LEMMA ConfigGetterStep ==
    ASSUME SingletonInv, NEW t \in Threads, CheckConfig(t) \/ CreateConfig(t)
    PROVE  SingletonInv'
<1> USE MaxMsgsAssumption DEF Threads
<1>1. CASE CheckConfig(t)
  <2> USE <1>1 DEF CheckConfig, Goto
  <2>1. TypeOK'
    BY DEF SingletonInv, TypeOK, ReturnsToCaller, Files, ConfigGetters, EngineGetters,
       MainLabels, ServerLabels
  <2>2. ReturnsToCaller'
    BY DEF SingletonInv, TypeOK, ReturnsToCaller, Files, ConfigGetters, EngineGetters
  <2>3. ConfigInv'
    BY DEF SingletonInv, TypeOK, ReturnsToCaller, ConfigInv, Files, ConfigGetters,
       EngineGetters
  <2>4. EngineInv' /\ ReadyInv' /\ CountInv'
    BY DEF SingletonInv, TypeOK, ReturnsToCaller, EngineInv, ReadyInv, CountInv, Held,
       Files, ConfigGetters, EngineGetters
  <2> QED BY <2>1, <2>2, <2>3, <2>4 DEF SingletonInv
<1>2. CASE CreateConfig(t)
  <2> USE <1>2 DEF CreateConfig, Goto
  <2>0. t = "main" /\ cfg = 0
    BY DEF SingletonInv, ConfigInv, TypeOK
  <2>1. TypeOK'
    BY <2>0 DEF SingletonInv, TypeOK, ReturnsToCaller, Files, ConfigGetters,
       EngineGetters, MainLabels, ServerLabels
  <2>2. ReturnsToCaller'
    BY <2>0 DEF SingletonInv, TypeOK, ReturnsToCaller, Files, ConfigGetters,
       EngineGetters
  <2>3. ConfigInv'
    BY <2>0 DEF SingletonInv, TypeOK, ReturnsToCaller, ConfigInv, Files, ConfigGetters,
       EngineGetters
  <2>4. EngineInv' /\ ReadyInv' /\ CountInv'
    BY <2>0 DEF SingletonInv, TypeOK, ReturnsToCaller, EngineInv, ReadyInv, CountInv,
       Held, Files, ConfigGetters, EngineGetters
  <2> QED BY <2>1, <2>2, <2>3, <2>4 DEF SingletonInv
<1> QED BY <1>1, <1>2

\* What the functions of an engine write into it.
LEMMA EngineFields ==
    ASSUME NEW x \in Engine
    PROVE  /\ x.counted \in 0 .. MaxMsgs /\ x.counted \in Nat
           /\ x.state \in {"garbage", "ready"}
           /\ x.queue \in Seq(Nat)
BY MaxMsgsAssumption DEF Engine

LEMMA ResetFields ==
    ASSUME NEW x \in Engine
    PROVE  LET y == [x EXCEPT !.counted = 0, !.reset = TRUE]
           IN  y \in Engine /\ y.state = x.state /\ y.counted = 0
<1>1. 0 \in 0 .. MaxMsgs
  BY MaxMsgsAssumption
<1> QED BY <1>1, Zenon DEF Engine

LEMMA InitFields ==
    ASSUME NEW x \in Engine
    PROVE  LET y == [x EXCEPT !.state = "ready"]
           IN  y \in Engine /\ y.state = "ready" /\ y.counted = x.counted
BY DEF Engine

LEMMA RegisterFields ==
    ASSUME NEW x \in Engine
    PROVE  LET y == [x EXCEPT !.send_data = TRUE]
           IN  y \in Engine /\ y.state = x.state /\ y.counted = x.counted
BY DEF Engine

LEMMA LoopFields ==
    ASSUME NEW x \in Engine
    PROVE  LET y == [x EXCEPT !.queue = <<>>]
           IN  y \in Engine /\ y.state = x.state /\ y.counted = x.counted
<1>1. <<>> \in Seq(Nat)
  OBVIOUS
<1> QED BY <1>1 DEF Engine

LEMMA ExecFields ==
    ASSUME NEW x \in Engine, NEW n \in Nat, x.counted + 1 <= MaxMsgs
    PROVE  LET y == [x EXCEPT !.queue = Append(@, n), !.counted = @ + 1]
           IN  y \in Engine /\ y.state = x.state /\ y.counted = x.counted + 1
<1>1. x.counted + 1 \in 0 .. MaxMsgs /\ Append(x.queue, n) \in Seq(Nat)
  BY EngineFields, MaxMsgsAssumption
<1> QED BY <1>1 DEF Engine

\* One engine changes, and the others stay.
LEMMA EngineUpdate ==
    ASSUME NEW s \in Seq(Engine), NEW k \in 1 .. Len(s), NEW item \in Engine
    PROVE  LET u == [s EXCEPT ![k] = item]
           IN  /\ u \in Seq(Engine)
               /\ Len(u) = Len(s)
               /\ \A e \in 1 .. Len(s) : u[e] = IF e = k THEN item ELSE s[e]
OBVIOUS

\* A thread goes through ScriptEngine::get_instance(): the engines that exist
\* stay what they are, but for the counters of the one that is pointed to.
LEMMA EngineGetterStep ==
    ASSUME SingletonInv, NEW t \in Threads,
           CheckEngine(t) \/ CreateEngine(t) \/ ResetCounts(t) \/ ReturnEngine(t)
    PROVE  SingletonInv'
<1> USE MaxMsgsAssumption DEF Threads
<1>1. CASE CheckEngine(t)
  <2> USE <1>1 DEF CheckEngine, Goto
  <2>1. TypeOK'
    BY DEF SingletonInv, TypeOK, ReturnsToCaller, ConfigInv, Files, ConfigGetters,
       EngineGetters, MainLabels, ServerLabels
  <2>2. ReturnsToCaller'
    BY DEF SingletonInv, TypeOK, ReturnsToCaller, Files, ConfigGetters, EngineGetters
  <2>3. ConfigInv'
    BY DEF SingletonInv, TypeOK, ReturnsToCaller, ConfigInv, Files, ConfigGetters,
       EngineGetters
  <2>4. EngineInv'
    BY DEF SingletonInv, TypeOK, ReturnsToCaller, EngineInv, Files, ConfigGetters,
       EngineGetters
  <2>5. ReadyInv'
    BY DEF SingletonInv, TypeOK, ReturnsToCaller, EngineInv, ReadyInv, Files,
       ConfigGetters, EngineGetters
  <2>6. CountInv'
    <3>1. \A e \in 1 .. Len(engines) : engines[e].counted \in Nat
      BY EngineFields DEF SingletonInv, TypeOK
    <3>2. UNCHANGED engines /\ received \in Nat /\ received' \in {received, received + 1}
      BY DEF SingletonInv, TypeOK
    <3>3. Held' + received <= Held + received' /\ {Held, Held'} \subseteq {0, 1}
      BY DEF SingletonInv, TypeOK, ReturnsToCaller, Files, ConfigGetters, EngineGetters,
         Held
    <3>4. Held' = Held \/ Held' = 0 \/ (Held = 0 /\ received' = received + 1)
      BY <3>2, <3>3
    <3> QED BY <3>1, <3>2, <3>3, <3>4 DEF SingletonInv, CountInv
  <2> QED BY <2>1, <2>2, <2>3, <2>4, <2>5, <2>6 DEF SingletonInv
<1>2. CASE CreateEngine(t)
  <2> USE <1>2 DEF CreateEngine, Goto
  <2>1. /\ engines' \in Seq(Engine) /\ Len(engines') = Len(engines) + 1
        /\ \A e \in 1 .. Len(engines) : engines'[e] = engines[e]
        /\ engines'[Len(engines) + 1] = NewEngine
    BY DEF SingletonInv, TypeOK, Engine, NewEngine
  <2>2. TypeOK'
    BY <2>1 DEF SingletonInv, TypeOK, ReturnsToCaller, Files, ConfigGetters,
       EngineGetters, MainLabels, ServerLabels
  <2>3. ReturnsToCaller'
    BY DEF SingletonInv, TypeOK, ReturnsToCaller, Files, ConfigGetters, EngineGetters
  <2>4. ConfigInv'
    BY DEF SingletonInv, TypeOK, ReturnsToCaller, ConfigInv, Files, ConfigGetters,
       EngineGetters
  <2>5. EngineInv'
    BY <2>1 DEF SingletonInv, TypeOK, ReturnsToCaller, EngineInv, Files, ConfigGetters,
       EngineGetters
  <2>6. ReadyInv'
    BY <2>1 DEF SingletonInv, TypeOK, ReturnsToCaller, EngineInv, ReadyInv, Files,
       ConfigGetters, EngineGetters
  <2>7. CountInv'
    <3>1. Held' = Held /\ Held \in {0, 1} /\ received' = received /\ received \in Nat
      BY DEF SingletonInv, TypeOK, ReturnsToCaller, Files, ConfigGetters, EngineGetters,
         Held
    <3>2. NewEngine.counted = 0
      BY DEF NewEngine
    <3> QED BY <2>1, <3>1, <3>2 DEF SingletonInv, TypeOK, CountInv
  <2> QED BY <2>2, <2>3, <2>4, <2>5, <2>6, <2>7 DEF SingletonInv
<1>3. CASE ResetCounts(t)
  <2> DEFINE k == script_eng
             item == [engines[script_eng] EXCEPT !.counted = 0, !.reset = TRUE]
  <2>1. k \in 1 .. Len(engines) /\ engines[k] \in Engine /\ received \in Nat
    BY <1>3 DEF ResetCounts, Goto, SingletonInv, TypeOK, ReturnsToCaller, EngineInv,
       Files, ConfigGetters, EngineGetters
  <2>2. item \in Engine
    BY <2>1, ResetFields
  <2>3. engines' = [engines EXCEPT ![k] = item]
    BY <1>3, <2>1 DEF ResetCounts, Goto, Engine
  <2> HIDE DEF k, item
  <2>4. /\ engines' \in Seq(Engine) /\ Len(engines') = Len(engines)
        /\ \A e \in 1 .. Len(engines) : engines'[e] = IF e = k THEN item ELSE engines[e]
    BY <2>1, <2>2, <2>3, EngineUpdate DEF SingletonInv, TypeOK
  <2>5. TypeOK'
    BY <1>3, <2>4 DEF ResetCounts, Goto, SingletonInv, TypeOK, ReturnsToCaller, Files,
       ConfigGetters, EngineGetters, MainLabels, ServerLabels
  <2>6. ReturnsToCaller'
    BY <1>3 DEF ResetCounts, Goto, SingletonInv, TypeOK, ReturnsToCaller, Files,
       ConfigGetters, EngineGetters
  <2>7. ConfigInv'
    BY <1>3 DEF ResetCounts, Goto, SingletonInv, TypeOK, ReturnsToCaller, ConfigInv,
       Files, ConfigGetters, EngineGetters
  <2>8. EngineInv'
    BY <1>3, <2>4 DEF ResetCounts, Goto, SingletonInv, TypeOK, ReturnsToCaller,
       EngineInv, Files, ConfigGetters, EngineGetters
  <2>9. ReadyInv'
    <3>1. item.state = engines[k].state
      BY <2>1, ResetFields DEF item, k
    <3> QED
      BY <1>3, <2>1, <2>4, <3>1 DEF ResetCounts, Goto, SingletonInv, TypeOK,
         ReturnsToCaller, ReadyInv, Files, ConfigGetters, EngineGetters
  <2>10. CountInv'
    <3>1. item.counted = 0
      BY <2>1, ResetFields DEF item, k
    <3>1a. Held' = Held /\ Held \in {0, 1}
      BY <1>3 DEF ResetCounts, Goto, SingletonInv, TypeOK, ReturnsToCaller, Files,
         ConfigGetters, EngineGetters, Held
    <3>2. received' = received /\ \A e \in 1 .. Len(engines) : engines[e].counted \in Nat
      BY <1>3, EngineFields DEF ResetCounts, Goto, SingletonInv, TypeOK
    <3> QED BY <2>1, <2>4, <3>1, <3>1a, <3>2 DEF SingletonInv, CountInv
  <2> QED BY <2>5, <2>6, <2>7, <2>8, <2>9, <2>10 DEF SingletonInv
<1>4. CASE ReturnEngine(t)
  <2> USE <1>4 DEF ReturnEngine, Goto
  <2>1. TypeOK'
    BY DEF SingletonInv, TypeOK, ReturnsToCaller, ConfigInv, Files, ConfigGetters,
       EngineGetters, MainLabels, ServerLabels
  <2>2. ReturnsToCaller'
    BY DEF SingletonInv, TypeOK, ReturnsToCaller, Files, ConfigGetters, EngineGetters
  <2>3. ConfigInv'
    BY DEF SingletonInv, TypeOK, ReturnsToCaller, ConfigInv, Files, ConfigGetters,
       EngineGetters
  <2>4. EngineInv'
    BY DEF SingletonInv, TypeOK, ReturnsToCaller, EngineInv, Files, ConfigGetters,
       EngineGetters
  <2>5. ReadyInv'
    BY DEF SingletonInv, TypeOK, ReturnsToCaller, EngineInv, ReadyInv, Files,
       ConfigGetters, EngineGetters
  <2>6. CountInv'
    <3>1. \A e \in 1 .. Len(engines) : engines[e].counted \in Nat
      BY EngineFields DEF SingletonInv, TypeOK
    <3>2. UNCHANGED engines /\ received \in Nat /\ received' \in {received, received + 1}
      BY DEF SingletonInv, TypeOK
    <3>3. Held' + received <= Held + received' /\ {Held, Held'} \subseteq {0, 1}
      BY DEF SingletonInv, TypeOK, ReturnsToCaller, Files, ConfigGetters, EngineGetters,
         Held
    <3>4. Held' = Held \/ Held' = 0 \/ (Held = 0 /\ received' = received + 1)
      BY <3>2, <3>3
    <3> QED BY <3>1, <3>2, <3>3, <3>4 DEF SingletonInv, CountInv
  <2> QED BY <2>1, <2>2, <2>3, <2>4, <2>5, <2>6 DEF SingletonInv
<1> QED BY <1>1, <1>2, <1>3, <1>4

\* The main thread's own statements.
LEMMA MainStep ==
    ASSUME SingletonInv, exit = "running",
           \/ \E props \in Files \cup NoFiles : LoadConfig(props)
           \/ StoreConfig \/ ReadConfig
           \/ SpawnServer \/ InitEngine \/ RegisterSendData
           \/ WakeUp \/ LoopExecute
    PROVE  SingletonInv'
<1> USE MaxMsgsAssumption DEF Threads
<1>1. CASE \E props \in Files \cup NoFiles : LoadConfig(props)
  <2> USE <1>1 DEF LoadConfig, Goto, Call
  <2>1. TypeOK'
    BY DEF SingletonInv, TypeOK, ReturnsToCaller, ConfigInv, Files, ConfigGetters,
       EngineGetters, MainLabels, ServerLabels
  <2>2. ReturnsToCaller'
    BY DEF SingletonInv, TypeOK, ReturnsToCaller, Files, ConfigGetters, EngineGetters
  <2>3. ConfigInv'
    BY DEF SingletonInv, TypeOK, ReturnsToCaller, ConfigInv, Files, ConfigGetters,
       EngineGetters
  <2>4. EngineInv'
    BY DEF SingletonInv, TypeOK, ReturnsToCaller, EngineInv, Files, ConfigGetters,
       EngineGetters
  <2>5. ReadyInv'
    BY DEF SingletonInv, TypeOK, ReturnsToCaller, EngineInv, ReadyInv, Files,
       ConfigGetters, EngineGetters
  <2>6. CountInv'
    <3>1. \A e \in 1 .. Len(engines) : engines[e].counted \in Nat
      BY EngineFields DEF SingletonInv, TypeOK
    <3>2. UNCHANGED engines /\ received \in Nat /\ received' \in {received, received + 1}
      BY DEF SingletonInv, TypeOK
    <3>3. Held' + received <= Held + received' /\ {Held, Held'} \subseteq {0, 1}
      BY DEF SingletonInv, TypeOK, ReturnsToCaller, Files, ConfigGetters, EngineGetters,
         Held
    <3>4. Held' = Held \/ Held' = 0 \/ (Held = 0 /\ received' = received + 1)
      BY <3>2, <3>3
    <3> QED BY <3>1, <3>2, <3>3, <3>4 DEF SingletonInv, CountInv
  <2> QED BY <2>1, <2>2, <2>3, <2>4, <2>5, <2>6 DEF SingletonInv
<1>2. CASE StoreConfig
  <2> USE <1>2 DEF StoreConfig, Goto, Call
  <2>1. TypeOK'
    BY DEF SingletonInv, TypeOK, ReturnsToCaller, ConfigInv, Files, ConfigGetters,
       EngineGetters, MainLabels, ServerLabels
  <2>2. ReturnsToCaller'
    BY DEF SingletonInv, TypeOK, ReturnsToCaller, Files, ConfigGetters, EngineGetters
  <2>3. ConfigInv'
    BY DEF SingletonInv, TypeOK, ReturnsToCaller, ConfigInv, Files, ConfigGetters,
       EngineGetters
  <2>4. EngineInv'
    BY DEF SingletonInv, TypeOK, ReturnsToCaller, EngineInv, Files, ConfigGetters,
       EngineGetters
  <2>5. ReadyInv'
    BY DEF SingletonInv, TypeOK, ReturnsToCaller, EngineInv, ReadyInv, Files,
       ConfigGetters, EngineGetters
  <2>6. CountInv'
    <3>1. \A e \in 1 .. Len(engines) : engines[e].counted \in Nat
      BY EngineFields DEF SingletonInv, TypeOK
    <3>2. UNCHANGED engines /\ received \in Nat /\ received' \in {received, received + 1}
      BY DEF SingletonInv, TypeOK
    <3>3. Held' + received <= Held + received' /\ {Held, Held'} \subseteq {0, 1}
      BY DEF SingletonInv, TypeOK, ReturnsToCaller, Files, ConfigGetters, EngineGetters,
         Held
    <3>4. Held' = Held \/ Held' = 0 \/ (Held = 0 /\ received' = received + 1)
      BY <3>2, <3>3
    <3> QED BY <3>1, <3>2, <3>3, <3>4 DEF SingletonInv, CountInv
  <2> QED BY <2>1, <2>2, <2>3, <2>4, <2>5, <2>6 DEF SingletonInv
<1>3. CASE ReadConfig
  <2> USE <1>3 DEF ReadConfig, Goto
  <2>1. TypeOK'
    <3>1. CASE exit' = exit /\ pc' = [pc EXCEPT !["main"] = "spawn"]
      BY <3>1 DEF SingletonInv, TypeOK, ConfigGetters, EngineGetters, MainLabels,
         ServerLabels
    <3>2. CASE exit' = "exception" /\ pc' = pc
      BY <3>2 DEF SingletonInv, TypeOK
    <3> QED BY <3>1, <3>2
  <2>2. ReturnsToCaller'
    BY DEF SingletonInv, TypeOK, ReturnsToCaller, Files, ConfigGetters, EngineGetters
  <2>3. ConfigInv'
    BY DEF SingletonInv, TypeOK, ReturnsToCaller, ConfigInv, Files, ConfigGetters,
       EngineGetters
  <2>4. EngineInv'
    BY DEF SingletonInv, TypeOK, ReturnsToCaller, EngineInv, Files, ConfigGetters,
       EngineGetters
  <2>5. ReadyInv'
    BY DEF SingletonInv, TypeOK, ReturnsToCaller, EngineInv, ReadyInv, Files,
       ConfigGetters, EngineGetters
  <2>6. CountInv'
    <3>1. \A e \in 1 .. Len(engines) : engines[e].counted \in Nat
      BY EngineFields DEF SingletonInv, TypeOK
    <3>2. UNCHANGED engines /\ received \in Nat /\ received' \in {received, received + 1}
      BY DEF SingletonInv, TypeOK
    <3>3. Held' + received <= Held + received' /\ {Held, Held'} \subseteq {0, 1}
      BY DEF SingletonInv, TypeOK, ReturnsToCaller, Files, ConfigGetters, EngineGetters,
         Held
    <3>4. Held' = Held \/ Held' = 0 \/ (Held = 0 /\ received' = received + 1)
      BY <3>2, <3>3
    <3> QED BY <3>1, <3>2, <3>3, <3>4 DEF SingletonInv, CountInv
  <2> QED BY <2>1, <2>2, <2>3, <2>4, <2>5, <2>6 DEF SingletonInv
<1>4. CASE SpawnServer
  <2> USE <1>4 DEF SpawnServer
  <2>1. TypeOK'
    BY DEF SingletonInv, TypeOK, ReturnsToCaller, ConfigInv, Files, ConfigGetters,
       EngineGetters, MainLabels, ServerLabels
  <2>2. ReturnsToCaller'
    BY DEF SingletonInv, TypeOK, ReturnsToCaller, Files, ConfigGetters, EngineGetters
  <2>3. ConfigInv'
    BY DEF SingletonInv, TypeOK, ReturnsToCaller, ConfigInv, Files, ConfigGetters,
       EngineGetters
  <2>4. EngineInv'
    BY DEF SingletonInv, TypeOK, ReturnsToCaller, EngineInv, Files, ConfigGetters,
       EngineGetters
  <2>5. ReadyInv'
    BY DEF SingletonInv, TypeOK, ReturnsToCaller, EngineInv, ReadyInv, Files,
       ConfigGetters, EngineGetters
  <2>6. CountInv'
    <3>1. \A e \in 1 .. Len(engines) : engines[e].counted \in Nat
      BY EngineFields DEF SingletonInv, TypeOK
    <3>2. UNCHANGED engines /\ received \in Nat /\ received' \in {received, received + 1}
      BY DEF SingletonInv, TypeOK
    <3>3. Held' + received <= Held + received' /\ {Held, Held'} \subseteq {0, 1}
      BY DEF SingletonInv, TypeOK, ReturnsToCaller, Files, ConfigGetters, EngineGetters,
         Held
    <3>4. Held' = Held \/ Held' = 0 \/ (Held = 0 /\ received' = received + 1)
      BY <3>2, <3>3
    <3> QED BY <3>1, <3>2, <3>3, <3>4 DEF SingletonInv, CountInv
  <2> QED BY <2>1, <2>2, <2>3, <2>4, <2>5, <2>6 DEF SingletonInv
<1>5. CASE InitEngine
  <2> DEFINE k == self["main"]
             item == [engines[self["main"]] EXCEPT !.state = "ready"]
  <2>1. k \in 1 .. Len(engines) /\ engines[k] \in Engine /\ received \in Nat
    BY <1>5 DEF InitEngine, Goto, Call, SingletonInv, TypeOK, ReturnsToCaller,
       EngineInv, Files, ConfigGetters, EngineGetters
  <2>2. item \in Engine
    BY <2>1, InitFields
  <2>3. engines' = [engines EXCEPT ![k] = item]
    BY <1>5, <2>1 DEF InitEngine, Goto, Call, Engine
  <2> HIDE DEF k, item
  <2>4. /\ engines' \in Seq(Engine) /\ Len(engines') = Len(engines)
        /\ \A e \in 1 .. Len(engines) : engines'[e] = IF e = k THEN item ELSE engines[e]
    BY <2>1, <2>2, <2>3, EngineUpdate DEF SingletonInv, TypeOK
  <2>5. TypeOK'
    BY <1>5, <2>4 DEF InitEngine, Goto, Call, SingletonInv, TypeOK, ReturnsToCaller,
       Files, ConfigGetters, EngineGetters, MainLabels, ServerLabels
  <2>6. ReturnsToCaller'
    BY <1>5 DEF InitEngine, Goto, Call, SingletonInv, TypeOK, ReturnsToCaller, Files,
       ConfigGetters, EngineGetters
  <2>7. ConfigInv'
    BY <1>5 DEF InitEngine, Goto, Call, SingletonInv, TypeOK, ReturnsToCaller,
       ConfigInv, Files, ConfigGetters, EngineGetters
  <2>8. EngineInv'
    BY <1>5, <2>4 DEF InitEngine, Goto, Call, SingletonInv, TypeOK, ReturnsToCaller,
       EngineInv, Files, ConfigGetters, EngineGetters
  <2>9. ReadyInv'
    <3>1. item.state = "ready"
      BY <2>1, InitFields DEF item, k
    <3> QED
      BY <1>5, <2>1, <2>4, <3>1 DEF InitEngine, Goto, Call, SingletonInv, TypeOK,
         ReturnsToCaller, ReadyInv, Files, ConfigGetters, EngineGetters
  <2>10. CountInv'
    <3>1. item.counted = engines[k].counted
      BY <2>1, InitFields DEF item, k
    <3>1a. Held' = Held /\ Held \in {0, 1}
      BY <1>5 DEF InitEngine, Goto, Call, SingletonInv, TypeOK, ReturnsToCaller, Files,
         ConfigGetters, EngineGetters, Held
    <3>2. received' = received /\ \A e \in 1 .. Len(engines) : engines[e].counted \in Nat
      BY <1>5, EngineFields DEF InitEngine, Goto, Call, SingletonInv, TypeOK
    <3> QED BY <2>1, <2>4, <3>1, <3>1a, <3>2 DEF SingletonInv, CountInv
  <2> QED BY <2>5, <2>6, <2>7, <2>8, <2>9, <2>10 DEF SingletonInv
<1>6. CASE WakeUp
  <2> USE <1>6 DEF WakeUp, Goto, Call
  <2>1. TypeOK'
    BY DEF SingletonInv, TypeOK, ReturnsToCaller, ConfigInv, Files, ConfigGetters,
       EngineGetters, MainLabels, ServerLabels
  <2>2. ReturnsToCaller'
    BY DEF SingletonInv, TypeOK, ReturnsToCaller, Files, ConfigGetters, EngineGetters
  <2>3. ConfigInv'
    BY DEF SingletonInv, TypeOK, ReturnsToCaller, ConfigInv, Files, ConfigGetters,
       EngineGetters
  <2>4. EngineInv'
    BY DEF SingletonInv, TypeOK, ReturnsToCaller, EngineInv, Files, ConfigGetters,
       EngineGetters
  <2>5. ReadyInv'
    BY DEF SingletonInv, TypeOK, ReturnsToCaller, EngineInv, ReadyInv, Files,
       ConfigGetters, EngineGetters
  <2>6. CountInv'
    <3>1. \A e \in 1 .. Len(engines) : engines[e].counted \in Nat
      BY EngineFields DEF SingletonInv, TypeOK
    <3>2. UNCHANGED engines /\ received \in Nat /\ received' \in {received, received + 1}
      BY DEF SingletonInv, TypeOK
    <3>3. Held' + received <= Held + received' /\ {Held, Held'} \subseteq {0, 1}
      BY DEF SingletonInv, TypeOK, ReturnsToCaller, Files, ConfigGetters, EngineGetters,
         Held
    <3>4. Held' = Held \/ Held' = 0 \/ (Held = 0 /\ received' = received + 1)
      BY <3>2, <3>3
    <3> QED BY <3>1, <3>2, <3>3, <3>4 DEF SingletonInv, CountInv
  <2> QED BY <2>1, <2>2, <2>3, <2>4, <2>5, <2>6 DEF SingletonInv
<1>7. CASE RegisterSendData
  <2>1. CASE RegisterSendData /\ exit' = exit
    <3> DEFINE k == self["main"]
               item == [engines[self["main"]] EXCEPT !.send_data = TRUE]
    <3>1. k \in 1 .. Len(engines) /\ engines[k] \in Engine /\ received \in Nat
      BY <2>1 DEF RegisterSendData, Goto, SingletonInv, TypeOK, ReturnsToCaller,
         EngineInv, Files, ConfigGetters, EngineGetters
    <3>2. item \in Engine
      BY <3>1, RegisterFields
    <3>3. engines' = [engines EXCEPT ![k] = item]
      BY <2>1, <3>1 DEF RegisterSendData, Goto, Engine
    <3> HIDE DEF k, item
    <3>4. /\ engines' \in Seq(Engine) /\ Len(engines') = Len(engines)
          /\ \A e \in 1 .. Len(engines) : engines'[e] = IF e = k THEN item ELSE engines[e]
      BY <3>1, <3>2, <3>3, EngineUpdate DEF SingletonInv, TypeOK
    <3>5. TypeOK'
      BY <2>1, <3>4 DEF RegisterSendData, Goto, SingletonInv, TypeOK, ReturnsToCaller,
         Files, ConfigGetters, EngineGetters, MainLabels, ServerLabels
    <3>6. ReturnsToCaller'
      BY <2>1 DEF RegisterSendData, Goto, SingletonInv, TypeOK, ReturnsToCaller, Files,
         ConfigGetters, EngineGetters
    <3>7. ConfigInv'
      BY <2>1 DEF RegisterSendData, Goto, SingletonInv, TypeOK, ReturnsToCaller,
         ConfigInv, Files, ConfigGetters, EngineGetters
    <3>8. EngineInv'
      BY <2>1, <3>4 DEF RegisterSendData, Goto, SingletonInv, TypeOK, ReturnsToCaller,
         EngineInv, Files, ConfigGetters, EngineGetters
    <3>9. ReadyInv'
      <4>1. item.state = engines[k].state
        BY <3>1, RegisterFields DEF item, k
      <4> QED
        BY <2>1, <3>1, <3>4, <4>1, SMTT(30) DEF RegisterSendData, Goto, SingletonInv,
           TypeOK, ReturnsToCaller, ReadyInv, Files, ConfigGetters, EngineGetters
    <3>10. CountInv'
      <4>1. item.counted = engines[k].counted
        BY <3>1, RegisterFields DEF item, k
      <4>1a. Held' = Held /\ Held \in {0, 1}
        BY <2>1 DEF RegisterSendData, Goto, SingletonInv, TypeOK, ReturnsToCaller,
           Files, ConfigGetters, EngineGetters, Held
      <4>2. received' = received /\ \A e \in 1 .. Len(engines) : engines[e].counted \in Nat
        BY <2>1, EngineFields DEF RegisterSendData, Goto, SingletonInv, TypeOK
      <4> QED BY <3>1, <3>4, <4>1, <4>1a, <4>2 DEF SingletonInv, CountInv
    <3> QED BY <3>5, <3>6, <3>7, <3>8, <3>9, <3>10 DEF SingletonInv
  <2>2. CASE exit' = "crash"
    <3>1. /\ exit' = "crash"
          /\ UNCHANGED <<pc, ret, self, cfg, configs, script_eng, engines, received, executed>>
      BY <1>7, <2>2 DEF RegisterSendData, Goto, SingletonInv, TypeOK
    <3>2. Len(engines) > 1
      BY <1>7, <2>2, <3>1 DEF RegisterSendData, Goto, SingletonInv, TypeOK, EngineInv,
         ReadyInv
    <3> QED
      BY <3>1, <3>2 DEF SingletonInv, TypeOK, ReturnsToCaller, ConfigInv, EngineInv,
         ReadyInv, CountInv, Held
  <2> QED BY <1>7, <2>1, <2>2 DEF RegisterSendData, Goto
<1>8. CASE LoopExecute
  <2>1. CASE LoopExecute /\ exit' = exit
    <3> DEFINE k == self["main"]
               item == [engines[self["main"]] EXCEPT !.queue = <<>>]
    <3>1. k \in 1 .. Len(engines) /\ engines[k] \in Engine /\ received \in Nat
      BY <2>1 DEF LoopExecute, Goto, SingletonInv, TypeOK, ReturnsToCaller, EngineInv,
         Files, ConfigGetters, EngineGetters
    <3>2. item \in Engine
      BY <3>1, LoopFields
    <3>3. engines' = [engines EXCEPT ![k] = item]
      BY <2>1, <3>1 DEF LoopExecute, Goto, Engine
    <3> HIDE DEF k, item
    <3>4. /\ engines' \in Seq(Engine) /\ Len(engines') = Len(engines)
          /\ \A e \in 1 .. Len(engines) : engines'[e] = IF e = k THEN item ELSE engines[e]
      BY <3>1, <3>2, <3>3, EngineUpdate DEF SingletonInv, TypeOK
    <3>4a. executed' \in Seq(Nat)
      <4>1. executed' = executed \o engines[k].queue
        BY <2>1 DEF LoopExecute, k, SingletonInv, TypeOK
      <4> QED BY <3>1, <4>1, EngineFields DEF SingletonInv, TypeOK
    <3>5. TypeOK'
      BY <2>1, <3>4, <3>4a, SMTT(30) DEF LoopExecute, Goto, SingletonInv, TypeOK,
         ReturnsToCaller, Files, ConfigGetters, EngineGetters, MainLabels, ServerLabels
    <3>6. ReturnsToCaller'
      BY <2>1 DEF LoopExecute, Goto, SingletonInv, TypeOK, ReturnsToCaller, Files,
         ConfigGetters, EngineGetters
    <3>7. ConfigInv'
      BY <2>1 DEF LoopExecute, Goto, SingletonInv, TypeOK, ReturnsToCaller, ConfigInv,
         Files, ConfigGetters, EngineGetters
    <3>8. EngineInv'
      BY <2>1, <3>4 DEF LoopExecute, Goto, SingletonInv, TypeOK, ReturnsToCaller,
         EngineInv, Files, ConfigGetters, EngineGetters
    <3>9. ReadyInv'
      <4>1. item.state = engines[k].state
        BY <3>1, LoopFields DEF item, k
      <4>2. PICK e \in 1 .. Len(engines) : engines[e].state = "ready"
        BY <2>1 DEF LoopExecute, SingletonInv, ReadyInv
      <4>3. engines'[e].state = "ready"
        BY <3>4, <4>1, <4>2
      <4> QED BY <2>1, <3>4, <4>3 DEF SingletonInv, ReadyInv
    <3>10. CountInv'
      <4>1. item.counted = engines[k].counted
        BY <3>1, LoopFields DEF item, k
      <4>1a. Held' = Held /\ Held \in {0, 1}
        BY <2>1 DEF LoopExecute, Goto, SingletonInv, TypeOK, ReturnsToCaller, Files,
           ConfigGetters, EngineGetters, Held
      <4>2. received' = received /\ \A e \in 1 .. Len(engines) : engines[e].counted \in Nat
        BY <2>1, EngineFields DEF LoopExecute, Goto, SingletonInv, TypeOK
      <4> QED BY <3>1, <3>4, <4>1, <4>1a, <4>2 DEF SingletonInv, CountInv
    <3> QED BY <3>5, <3>6, <3>7, <3>8, <3>9, <3>10 DEF SingletonInv
  <2>2. CASE exit' = "crash"
    <3>1. /\ exit' = "crash"
          /\ UNCHANGED <<pc, ret, self, cfg, configs, script_eng, engines, received, executed>>
      BY <1>8, <2>2 DEF LoopExecute, Goto, SingletonInv, TypeOK
    <3>2. Len(engines) > 1
      BY <1>8, <2>2, <3>1 DEF LoopExecute, Goto, SingletonInv, TypeOK, EngineInv,
         ReadyInv
    <3> QED
      BY <3>1, <3>2 DEF SingletonInv, TypeOK, ReturnsToCaller, ConfigInv, EngineInv,
         ReadyInv, CountInv, Held
  <2> QED BY <1>8, <2>1, <2>2 DEF LoopExecute, Goto
<1> QED BY <1>1, <1>2, <1>3, <1>4, <1>5, <1>6, <1>7, <1>8

\* The server thread's own statements.
LEMMA ServerStep ==
    ASSUME SingletonInv,
           \/ ReadPort
           \/ \E ok \in BOOLEAN : BindAndListen(ok)
           \/ ReceiveMessage \/ ExecGafq \/ WaitFails
    PROVE  SingletonInv'
<1> USE MaxMsgsAssumption DEF Threads
<1>1. CASE ReadPort
  <2> USE <1>1 DEF ReadPort, Goto
  <2>1. TypeOK'
    BY DEF SingletonInv, TypeOK, ReturnsToCaller, ConfigInv, Files, ConfigGetters,
       EngineGetters, MainLabels, ServerLabels
  <2>2. ReturnsToCaller'
    BY DEF SingletonInv, TypeOK, ReturnsToCaller, Files, ConfigGetters, EngineGetters
  <2>3. ConfigInv'
    BY DEF SingletonInv, TypeOK, ReturnsToCaller, ConfigInv, Files, ConfigGetters,
       EngineGetters
  <2>4. EngineInv'
    BY DEF SingletonInv, TypeOK, ReturnsToCaller, EngineInv, Files, ConfigGetters,
       EngineGetters
  <2>5. ReadyInv'
    BY DEF SingletonInv, TypeOK, ReturnsToCaller, EngineInv, ReadyInv, Files,
       ConfigGetters, EngineGetters
  <2>6. CountInv'
    <3>1. \A e \in 1 .. Len(engines) : engines[e].counted \in Nat
      BY EngineFields DEF SingletonInv, TypeOK
    <3>2. UNCHANGED engines /\ received \in Nat /\ received' \in {received, received + 1}
      BY DEF SingletonInv, TypeOK
    <3>3. Held' + received <= Held + received' /\ {Held, Held'} \subseteq {0, 1}
      BY DEF SingletonInv, TypeOK, ReturnsToCaller, Files, ConfigGetters, EngineGetters,
         Held
    <3>4. Held' = Held \/ Held' = 0 \/ (Held = 0 /\ received' = received + 1)
      BY <3>2, <3>3
    <3> QED BY <3>1, <3>2, <3>3, <3>4 DEF SingletonInv, CountInv
  <2> QED BY <2>1, <2>2, <2>3, <2>4, <2>5, <2>6 DEF SingletonInv
<1>2. CASE \E ok \in BOOLEAN : BindAndListen(ok)
  <2> USE <1>2 DEF BindAndListen, Goto
  <2>1. TypeOK'
    BY DEF SingletonInv, TypeOK, ReturnsToCaller, ConfigInv, Files, ConfigGetters,
       EngineGetters, MainLabels, ServerLabels
  <2>2. ReturnsToCaller'
    BY DEF SingletonInv, TypeOK, ReturnsToCaller, Files, ConfigGetters, EngineGetters
  <2>3. ConfigInv'
    BY DEF SingletonInv, TypeOK, ReturnsToCaller, ConfigInv, Files, ConfigGetters,
       EngineGetters
  <2>4. EngineInv'
    BY DEF SingletonInv, TypeOK, ReturnsToCaller, EngineInv, Files, ConfigGetters,
       EngineGetters
  <2>5. ReadyInv'
    BY DEF SingletonInv, TypeOK, ReturnsToCaller, EngineInv, ReadyInv, Files,
       ConfigGetters, EngineGetters
  <2>6. CountInv'
    <3>1. \A e \in 1 .. Len(engines) : engines[e].counted \in Nat
      BY EngineFields DEF SingletonInv, TypeOK
    <3>2. UNCHANGED engines /\ received \in Nat /\ received' \in {received, received + 1}
      BY DEF SingletonInv, TypeOK
    <3>3. Held' + received <= Held + received' /\ {Held, Held'} \subseteq {0, 1}
      BY DEF SingletonInv, TypeOK, ReturnsToCaller, Files, ConfigGetters, EngineGetters,
         Held
    <3>4. Held' = Held \/ Held' = 0 \/ (Held = 0 /\ received' = received + 1)
      BY <3>2, <3>3
    <3> QED BY <3>1, <3>2, <3>3, <3>4 DEF SingletonInv, CountInv
  <2> QED BY <2>1, <2>2, <2>3, <2>4, <2>5, <2>6 DEF SingletonInv
<1>3. CASE ReceiveMessage
  <2> USE <1>3 DEF ReceiveMessage, Goto, Call
  <2>1. TypeOK'
    BY DEF SingletonInv, TypeOK, ReturnsToCaller, ConfigInv, Files, ConfigGetters,
       EngineGetters, MainLabels, ServerLabels
  <2>2. ReturnsToCaller'
    BY DEF SingletonInv, TypeOK, ReturnsToCaller, Files, ConfigGetters, EngineGetters
  <2>3. ConfigInv'
    BY DEF SingletonInv, TypeOK, ReturnsToCaller, ConfigInv, Files, ConfigGetters,
       EngineGetters
  <2>4. EngineInv'
    BY DEF SingletonInv, TypeOK, ReturnsToCaller, EngineInv, Files, ConfigGetters,
       EngineGetters
  <2>5. ReadyInv'
    BY DEF SingletonInv, TypeOK, ReturnsToCaller, EngineInv, ReadyInv, Files,
       ConfigGetters, EngineGetters
  <2>6. CountInv'
    <3>1. \A e \in 1 .. Len(engines) : engines[e].counted \in Nat
      BY EngineFields DEF SingletonInv, TypeOK
    <3>2. UNCHANGED engines /\ received \in Nat /\ received' \in {received, received + 1}
      BY DEF SingletonInv, TypeOK
    <3>3. Held' + received <= Held + received' /\ {Held, Held'} \subseteq {0, 1}
      BY DEF SingletonInv, TypeOK, ReturnsToCaller, Files, ConfigGetters, EngineGetters,
         Held
    <3>4. Held' = Held \/ Held' = 0 \/ (Held = 0 /\ received' = received + 1)
      BY <3>2, <3>3
    <3> QED BY <3>1, <3>2, <3>3, <3>4, SMTT(30) DEF SingletonInv, CountInv
  <2> QED BY <2>1, <2>2, <2>3, <2>4, <2>5, <2>6 DEF SingletonInv
<1>4. CASE ExecGafq
  <2> DEFINE k == self["server"]
             item == [engines[self["server"]] EXCEPT !.queue = Append(@, received),
                                                     !.counted = @ + 1]
  <2>1. k \in 1 .. Len(engines) /\ engines[k] \in Engine /\ received \in Nat
    BY <1>4 DEF ExecGafq, Goto, SingletonInv, TypeOK, ReturnsToCaller, EngineInv, Files,
       ConfigGetters, EngineGetters
  <2>1a. engines[k].counted + 1 <= received /\ received <= MaxMsgs
    BY <1>4, <2>1 DEF ExecGafq, SingletonInv, TypeOK, CountInv, Held
  <2>1b. engines[k].counted + 1 <= MaxMsgs
    BY <2>1, <2>1a, EngineFields
  <2>2. item \in Engine
    BY <2>1, <2>1b, ExecFields
  <2>3. engines' = [engines EXCEPT ![k] = item]
    BY <1>4, <2>1 DEF ExecGafq, Goto, Engine
  <2> HIDE DEF k, item
  <2>4. /\ engines' \in Seq(Engine) /\ Len(engines') = Len(engines)
        /\ \A e \in 1 .. Len(engines) : engines'[e] = IF e = k THEN item ELSE engines[e]
    BY <2>1, <2>2, <2>3, EngineUpdate DEF SingletonInv, TypeOK
  <2>5. TypeOK'
    BY <1>4, <2>4 DEF ExecGafq, Goto, SingletonInv, TypeOK, ReturnsToCaller, Files,
       ConfigGetters, EngineGetters, MainLabels, ServerLabels
  <2>6. ReturnsToCaller'
    BY <1>4 DEF ExecGafq, Goto, SingletonInv, TypeOK, ReturnsToCaller, Files,
       ConfigGetters, EngineGetters
  <2>7. ConfigInv'
    BY <1>4 DEF ExecGafq, Goto, SingletonInv, TypeOK, ReturnsToCaller, ConfigInv, Files,
       ConfigGetters, EngineGetters
  <2>8. EngineInv'
    BY <1>4, <2>4 DEF ExecGafq, Goto, SingletonInv, TypeOK, ReturnsToCaller, EngineInv,
       Files, ConfigGetters, EngineGetters
  <2>9. ReadyInv'
    <3>1. item.state = engines[k].state
      BY <2>1, <2>1b, ExecFields DEF item, k
    <3> QED
      BY <1>4, <2>1, <2>4, <3>1, SMTT(30) DEF ExecGafq, Goto, SingletonInv, TypeOK,
         ReturnsToCaller, ReadyInv, Files, ConfigGetters, EngineGetters
  <2>10. CountInv'
    <3>1. item.counted = engines[k].counted + 1
      BY <2>1, <2>1b, ExecFields DEF item, k
    <3>1a. Held = 1 /\ Held' = 0
      BY <1>4 DEF ExecGafq, Goto, SingletonInv, TypeOK, ReturnsToCaller, Files,
         ConfigGetters, EngineGetters, Held
    <3>2. received' = received /\ \A e \in 1 .. Len(engines) : engines[e].counted \in Nat
      BY <1>4, EngineFields DEF ExecGafq, Goto, SingletonInv, TypeOK
    <3> QED BY <2>1, <2>4, <3>1, <3>1a, <3>2 DEF SingletonInv, CountInv
  <2> QED BY <2>5, <2>6, <2>7, <2>8, <2>9, <2>10 DEF SingletonInv
<1>5. CASE WaitFails
  <2> USE <1>5 DEF WaitFails, Goto
  <2>1. TypeOK'
    BY DEF SingletonInv, TypeOK, ReturnsToCaller, ConfigInv, Files, ConfigGetters,
       EngineGetters, MainLabels, ServerLabels
  <2>2. ReturnsToCaller'
    BY DEF SingletonInv, TypeOK, ReturnsToCaller, Files, ConfigGetters, EngineGetters
  <2>3. ConfigInv'
    BY DEF SingletonInv, TypeOK, ReturnsToCaller, ConfigInv, Files, ConfigGetters,
       EngineGetters
  <2>4. EngineInv'
    BY DEF SingletonInv, TypeOK, ReturnsToCaller, EngineInv, Files, ConfigGetters,
       EngineGetters
  <2>5. ReadyInv'
    BY DEF SingletonInv, TypeOK, ReturnsToCaller, EngineInv, ReadyInv, Files,
       ConfigGetters, EngineGetters
  <2>6. CountInv'
    <3>1. \A e \in 1 .. Len(engines) : engines[e].counted \in Nat
      BY EngineFields DEF SingletonInv, TypeOK
    <3>2. UNCHANGED engines /\ received \in Nat /\ received' \in {received, received + 1}
      BY DEF SingletonInv, TypeOK
    <3>3. Held' + received <= Held + received' /\ {Held, Held'} \subseteq {0, 1}
      BY DEF SingletonInv, TypeOK, ReturnsToCaller, Files, ConfigGetters, EngineGetters,
         Held
    <3>4. Held' = Held \/ Held' = 0 \/ (Held = 0 /\ received' = received + 1)
      BY <3>2, <3>3
    <3> QED BY <3>1, <3>2, <3>3, <3>4 DEF SingletonInv, CountInv
  <2> QED BY <2>1, <2>2, <2>3, <2>4, <2>5, <2>6 DEF SingletonInv
<1> QED BY <1>1, <1>2, <1>3, <1>4, <1>5

\* Every step of either thread keeps the invariant.
LEMMA SingletonStep == SingletonInv /\ [Next]_vars => SingletonInv'
<1> SUFFICES ASSUME SingletonInv, [Next]_vars PROVE SingletonInv'
  OBVIOUS
<1>1. CASE Main /\ exit = "running"
  BY <1>1, ConfigGetterStep, EngineGetterStep, MainStep DEF Main, GetInstance, Threads
<1>2. CASE Server
  BY <1>2, ConfigGetterStep, EngineGetterStep, ServerStep DEF Server, GetInstance,
     Threads
<1>3. CASE UNCHANGED vars
  BY <1>3 DEF vars, SingletonInv, TypeOK, ReturnsToCaller, ConfigInv, EngineInv,
     ReadyInv, CountInv, Held
<1> QED BY <1>1, <1>2, <1>3 DEF Next

-----------------------------------------------------------------------------
(* What becomes of the messages.                                           *)

LEMMA Appended ==
    ASSUME NEW S, NEW s \in Seq(S), NEW x \in S
    PROVE  /\ Append(s, x) \in Seq(S) /\ Len(s) \in Nat /\ Len(Append(s, x)) = Len(s) + 1
           /\ \A k \in 1 .. Len(s) : Append(s, x)[k] = s[k]
           /\ Append(s, x)[Len(s) + 1] = x
OBVIOUS

LEMMA Joined ==
    ASSUME NEW S, NEW s \in Seq(S), NEW t \in Seq(S)
    PROVE  /\ s \o t \in Seq(S) /\ Len(s) \in Nat /\ Len(t) \in Nat
           /\ Len(s \o t) = Len(s) + Len(t)
           /\ \A k \in 1 .. Len(s) + Len(t) :
                  (s \o t)[k] = IF k <= Len(s) THEN s[k] ELSE t[k - Len(s)]
OBVIOUS

LEMMA IncreasingAppend ==
    ASSUME NEW s \in Seq(Nat), NEW x \in Nat, Increasing(s), \A k \in 1 .. Len(s) : s[k] < x
    PROVE  Increasing(Append(s, x))
<1> DEFINE t == Append(s, x)
<1>1. /\ Len(s) \in Nat /\ Len(t) = Len(s) + 1 /\ \A k \in 1 .. Len(s) : t[k] = s[k]
      /\ t[Len(s) + 1] = x
  BY Appended
<1> HIDE DEF t
<1>2. ASSUME NEW j \in 1 .. Len(t), NEW k \in 1 .. Len(t), j < k PROVE t[j] < t[k]
  <2>1. j \in 1 .. Len(s)
    BY <1>1, <1>2
  <2>2. k \in 1 .. Len(s) \/ k = Len(s) + 1
    BY <1>1
  <2> QED BY <1>1, <1>2, <2>1, <2>2 DEF Increasing
<1> QED BY <1>2 DEF Increasing, t

LEMMA IncreasingJoin ==
    ASSUME NEW s \in Seq(Nat), NEW t \in Seq(Nat), Increasing(s), Increasing(t),
           \A j \in 1 .. Len(s), k \in 1 .. Len(t) : s[j] < t[k]
    PROVE  Increasing(s \o t)
<1> DEFINE u == s \o t
<1>1. /\ Len(s) \in Nat /\ Len(t) \in Nat /\ Len(u) = Len(s) + Len(t)
      /\ \A k \in 1 .. Len(s) + Len(t) : u[k] = IF k <= Len(s) THEN s[k] ELSE t[k - Len(s)]
  BY Joined
<1> HIDE DEF u
<1>2. ASSUME NEW j \in 1 .. Len(u), NEW k \in 1 .. Len(u), j < k PROVE u[j] < u[k]
  <2>1. CASE k <= Len(s)
    <3>1. j \in 1 .. Len(s) /\ k \in 1 .. Len(s) /\ u[j] = s[j] /\ u[k] = s[k]
      BY <1>1, <1>2, <2>1
    <3> QED BY <1>2, <3>1 DEF Increasing
  <2>2. CASE j <= Len(s) /\ ~(k <= Len(s))
    <3>1. j \in 1 .. Len(s) /\ k - Len(s) \in 1 .. Len(t) /\ u[j] = s[j] /\ u[k] = t[k - Len(s)]
      BY <1>1, <2>2
    <3> QED BY <3>1
  <2>3. CASE ~(j <= Len(s))
    <3>1. /\ j - Len(s) \in 1 .. Len(t) /\ k - Len(s) \in 1 .. Len(t)
          /\ j - Len(s) < k - Len(s) /\ u[j] = t[j - Len(s)] /\ u[k] = t[k - Len(s)]
      BY <1>1, <1>2, <2>3
    <3> QED BY <3>1 DEF Increasing
  <2> QED BY <2>1, <2>2, <2>3
<1> QED BY <1>2 DEF Increasing, u

\* n is one of the messages in s, or in a queue of one of the engines.
In(s, n) == \E k \in 1 .. Len(s) : s[k] = n
Waits(es, n) == \E e \in 1 .. Len(es) : In(es[e].queue, n)

LEMMA SetsAre ==
    ASSUME NEW n
    PROVE  /\ n \in Executed <=> In(executed, n)
           /\ n \in Executed' <=> In(executed', n)
           /\ n \in Queued <=> Waits(engines, n)
           /\ n \in Queued' <=> Waits(engines', n)
BY DEF Executed, Queued, In, Waits

LEMMA InAppend ==
    ASSUME NEW s \in Seq(Nat), NEW x \in Nat, NEW n
    PROVE  In(Append(s, x), n) <=> In(s, n) \/ n = x
<1> DEFINE t == Append(s, x)
<1>1. /\ Len(s) \in Nat /\ Len(t) = Len(s) + 1 /\ \A k \in 1 .. Len(s) : t[k] = s[k]
      /\ t[Len(s) + 1] = x
  BY Appended
<1> HIDE DEF t
<1>2. /\ \A k \in 1 .. Len(t) : k \in 1 .. Len(s) \/ k = Len(s) + 1
      /\ \A k \in 1 .. Len(s) : k \in 1 .. Len(t)
      /\ Len(s) + 1 \in 1 .. Len(t)
  BY <1>1
<1>3. In(t, n) <=> In(s, n) \/ n = x
  BY <1>1, <1>2 DEF In
<1> QED BY <1>3 DEF t

LEMMA InJoin ==
    ASSUME NEW s \in Seq(Nat), NEW t \in Seq(Nat), NEW n
    PROVE  In(s \o t, n) <=> In(s, n) \/ In(t, n)
<1> DEFINE u == s \o t
<1>1. /\ Len(s) \in Nat /\ Len(t) \in Nat /\ Len(u) = Len(s) + Len(t)
      /\ \A k \in 1 .. Len(s) + Len(t) : u[k] = IF k <= Len(s) THEN s[k] ELSE t[k - Len(s)]
  BY Joined
<1> HIDE DEF u
<1>2. ASSUME In(u, n) PROVE In(s, n) \/ In(t, n)
  <2>1. PICK k \in 1 .. Len(u) : u[k] = n
    BY <1>2 DEF In
  <2>2. CASE k <= Len(s)
    <3>1. k \in 1 .. Len(s) /\ s[k] = n
      BY <1>1, <2>1, <2>2
    <3> QED BY <3>1 DEF In
  <2>3. CASE ~(k <= Len(s))
    <3>1. k - Len(s) \in 1 .. Len(t) /\ t[k - Len(s)] = n
      BY <1>1, <2>1, <2>3
    <3> QED BY <3>1 DEF In
  <2> QED BY <2>2, <2>3
<1>3. ASSUME NEW k \in 1 .. Len(s), s[k] = n PROVE In(u, n)
  <2>1. k \in 1 .. Len(u) /\ u[k] = n
    BY <1>1, <1>3
  <2> QED BY <2>1 DEF In
<1>4. ASSUME NEW k \in 1 .. Len(t), t[k] = n PROVE In(u, n)
  <2>1. Len(s) + k \in 1 .. Len(u) /\ ~(Len(s) + k <= Len(s)) /\ (Len(s) + k) - Len(s) = k
    BY <1>1
  <2>2. u[Len(s) + k] = n
    BY <1>1, <1>4, <2>1
  <2> QED BY <2>1, <2>2 DEF In
<1> QED BY <1>2, <1>3, <1>4 DEF In, u

\* A LoopExecute that does not crash: it takes the whole queue of main's engine.
TakesQueue ==
    /\ LoopExecute
    /\ executed' = executed \o engines[self["main"]].queue
    /\ engines' = [engines EXCEPT ![self["main"]].queue = <<>>]

\* No engine is made, and no queue, nor what thread uses which engine, changes.
KeepsQueues ==
    /\ UNCHANGED <<self, script_eng, executed>>
    /\ (received - Held)' = received - Held
    /\ Len(engines') = Len(engines)
    /\ \A e \in 1 .. Len(engines) : engines'[e].queue = engines[e].queue

LEMMA QueueFields ==
    ASSUME NEW x \in Engine, NEW n
    PROVE  /\ [x EXCEPT !.counted = 0, !.reset = TRUE].queue = x.queue
           /\ [x EXCEPT !.state = "ready"].queue = x.queue
           /\ [x EXCEPT !.send_data = TRUE].queue = x.queue
           /\ [x EXCEPT !.queue = <<>>].queue = <<>>
           /\ [x EXCEPT !.queue = Append(@, n), !.counted = @ + 1].queue = Append(x.queue, n)
BY DEF Engine

\* A message that the server thread has received is held until ExecGafq.
LEMMA HeldKept ==
    ASSUME SingletonInv, [Next]_vars, ~ExecGafq
    PROVE  (received - Held)' = received - Held
<1> USE DEF Threads
<1>0. received \in Nat /\ Held \in {0, 1} /\ Held' \in {0, 1}
  BY DEF SingletonInv, TypeOK, Held
<1>1. CASE received' = received /\ Held' = Held
  BY <1>1
<1>2. CASE pc'["server"] = pc["server"] /\ received' = received
  BY <1>1, <1>2 DEF Held
<1>3. CASE ReceiveMessage
  <2>1. Held = 0 /\ Held' = 1 /\ received' = received + 1
    BY <1>3 DEF ReceiveMessage, Call, Goto, Held, SingletonInv, TypeOK, EngineGetters
  <2> QED BY <1>0, <2>1
<1>4. CASE ReadPort \/ (\E ok \in BOOLEAN : BindAndListen(ok)) \/ WaitFails
  BY <1>1, <1>4 DEF ReadPort, BindAndListen, WaitFails, Goto, Held, SingletonInv,
     TypeOK, EngineGetters
<1>5. ASSUME NEW t \in Threads, GetInstance(t) PROVE received' = received /\ Held' = Held
  <2>1. received' = received
    BY <1>5 DEF GetInstance, CheckConfig, CreateConfig, CheckEngine, CreateEngine,
       ResetCounts, ReturnEngine
  <2>2. CASE CheckConfig(t) \/ CreateConfig(t)
    BY <2>2 DEF CheckConfig, CreateConfig, Goto, Held, SingletonInv, TypeOK,
       ReturnsToCaller, ConfigGetters, EngineGetters
  <2>3. CASE CheckEngine(t) \/ CreateEngine(t) \/ ResetCounts(t) \/ ReturnEngine(t)
    BY <2>3 DEF CheckEngine, CreateEngine, ResetCounts, ReturnEngine, Goto, Held,
       SingletonInv, TypeOK, ReturnsToCaller, ConfigGetters, EngineGetters
  <2> QED BY <1>5, <2>1, <2>2, <2>3 DEF GetInstance
<1>6. CASE SpawnServer
  <2>1. pc["server"] = "unborn" /\ pc'["server"] = "config" /\ received' = received
    BY <1>6 DEF SpawnServer, SingletonInv, TypeOK, ConfigInv
  <2> QED BY <1>1, <2>1 DEF Held, EngineGetters
<1>7. CASE \/ \E props \in Files \cup NoFiles : LoadConfig(props)
           \/ StoreConfig \/ ReadConfig \/ InitEngine \/ RegisterSendData
           \/ WakeUp \/ LoopExecute
  BY <1>2, <1>7 DEF LoadConfig, StoreConfig, ReadConfig, InitEngine, RegisterSendData,
     WakeUp, LoopExecute, Call, Goto, SingletonInv, TypeOK
<1>8. CASE UNCHANGED vars
  BY <1>2, <1>8 DEF vars
<1> QED BY <1>1, <1>3, <1>4, <1>5, <1>6, <1>7, <1>8 DEF Next, Main, Server

\* The steps that the messages can tell apart.
LEMMA MessageCases ==
    ASSUME SingletonInv, [Next]_vars
    PROVE  \/ KeepsQueues
           \/ \E t \in Threads : CreateEngine(t) \/ ReturnEngine(t)
           \/ ExecGafq
           \/ TakesQueue
<1> USE DEF Threads
<1>0. ASSUME ~ExecGafq PROVE (received - Held)' = received - Held
  BY <1>0, HeldKept
<1>1. ASSUME UNCHANGED <<self, script_eng, executed, engines>>, ~ExecGafq PROVE KeepsQueues
  BY <1>0, <1>1 DEF KeepsQueues
<1>2. ASSUME NEW k \in 1 .. Len(engines), NEW item \in Engine,
             engines' = [engines EXCEPT ![k] = item], item.queue = engines[k].queue,
             UNCHANGED <<self, script_eng, executed>>, ~ExecGafq
      PROVE  KeepsQueues
  <2>1. /\ Len(engines') = Len(engines)
        /\ \A e \in 1 .. Len(engines) : engines'[e] = IF e = k THEN item ELSE engines[e]
    BY <1>2, EngineUpdate DEF SingletonInv, TypeOK
  <2> QED BY <1>0, <1>2, <2>1 DEF KeepsQueues
<1>3. ASSUME NEW t \in Threads, ResetCounts(t), ~ExecGafq PROVE KeepsQueues
  <2>1. script_eng \in 1 .. Len(engines) /\ engines[script_eng] \in Engine
    BY <1>3 DEF ResetCounts, SingletonInv, TypeOK, EngineInv
  <2> DEFINE item == [engines[script_eng] EXCEPT !.counted = 0, !.reset = TRUE]
  <2>2. item \in Engine /\ item.queue = engines[script_eng].queue
    BY <2>1, ResetFields, QueueFields
  <2>3. engines' = [engines EXCEPT ![script_eng] = item]
    BY <1>3, <2>1 DEF ResetCounts, Engine
  <2>4. UNCHANGED <<self, script_eng, executed>>
    BY <1>3 DEF ResetCounts
  <2> HIDE DEF item
  <2> QED BY <1>2, <1>3, <2>1, <2>2, <2>3, <2>4
<1>4. ASSUME InitEngine, ~ExecGafq PROVE KeepsQueues
  <2>1. self["main"] \in 1 .. Len(engines) /\ engines[self["main"]] \in Engine
    BY <1>4 DEF InitEngine, SingletonInv, TypeOK, EngineInv
  <2> DEFINE item == [engines[self["main"]] EXCEPT !.state = "ready"]
  <2>2. item \in Engine /\ item.queue = engines[self["main"]].queue
    BY <2>1, InitFields, QueueFields
  <2>3. engines' = [engines EXCEPT ![self["main"]] = item]
    BY <1>4, <2>1 DEF InitEngine, Engine
  <2>4. UNCHANGED <<self, script_eng, executed>>
    BY <1>4 DEF InitEngine
  <2> HIDE DEF item
  <2> QED BY <1>2, <1>4, <2>1, <2>2, <2>3, <2>4
<1>5. ASSUME RegisterSendData, ~ExecGafq PROVE KeepsQueues
  <2>1. self["main"] \in 1 .. Len(engines) /\ engines[self["main"]] \in Engine
    BY <1>5 DEF RegisterSendData, SingletonInv, TypeOK, EngineInv
  <2> DEFINE item == [engines[self["main"]] EXCEPT !.send_data = TRUE]
  <2>2. item \in Engine /\ item.queue = engines[self["main"]].queue
    BY <2>1, RegisterFields, QueueFields
  <2>3. \/ engines' = [engines EXCEPT ![self["main"]] = item]
        \/ engines' = engines
    BY <1>5, <2>1 DEF RegisterSendData, Engine
  <2>4. UNCHANGED <<self, script_eng, executed>>
    BY <1>5 DEF RegisterSendData
  <2> HIDE DEF item
  <2> QED BY <1>1, <1>2, <1>5, <2>1, <2>2, <2>3, <2>4
<1>6. ASSUME LoopExecute, ~ExecGafq PROVE KeepsQueues \/ TakesQueue
  BY <1>1, <1>6 DEF LoopExecute, TakesQueue
<1>7. ASSUME NEW t \in Threads, GetInstance(t), ~ExecGafq
      PROVE  KeepsQueues \/ CreateEngine(t) \/ ReturnEngine(t)
  BY <1>1, <1>3, <1>7 DEF GetInstance, CheckConfig, CreateConfig, CheckEngine
<1>8. ASSUME ~ExecGafq,
             \/ \E props \in Files \cup NoFiles : LoadConfig(props)
             \/ StoreConfig \/ ReadConfig \/ SpawnServer \/ WakeUp
             \/ ReadPort \/ \E ok \in BOOLEAN : BindAndListen(ok)
             \/ ReceiveMessage \/ WaitFails \/ UNCHANGED vars
      PROVE  KeepsQueues
  BY <1>1, <1>8 DEF LoadConfig, StoreConfig, ReadConfig, SpawnServer, WakeUp, ReadPort,
     BindAndListen, ReceiveMessage, WaitFails, vars
<1> QED BY <1>4, <1>5, <1>6, <1>7, <1>8 DEF Next, Main, Server

LEMMA EnginesAre ==
    ASSUME SingletonInv
    PROVE  /\ engines \in Seq(Engine) /\ Len(engines) \in Nat /\ executed \in Seq(Nat)
           /\ \A e \in 1 .. Len(engines) :
                  engines[e] \in Engine /\ engines[e].queue \in Seq(Nat)
           /\ received \in Nat /\ Held \in {0, 1}
<1>1. /\ engines \in Seq(Engine) /\ executed \in Seq(Nat) /\ received \in Nat
      /\ Held \in {0, 1}
  BY DEF SingletonInv, TypeOK, Held
<1>2. \A e \in 1 .. Len(engines) : engines[e] \in Engine
  BY <1>1
<1> QED BY <1>1, <1>2, EngineFields

\* Whatever is executed or waits is one of the messages that ExecGafq was given.
LEMMA MessagesAre ==
    ASSUME SingletonInv, ExecutedInOrder
    PROVE  /\ \A n : In(executed, n) \/ Waits(engines, n) <=> n \in 1 .. received - Held
           /\ \A k \in 1 .. Len(executed) : executed[k] \in 1 .. received - Held
           /\ \A e \in 1 .. Len(engines) : \A k \in 1 .. Len(engines[e].queue) :
                  engines[e].queue[k] \in 1 .. received - Held
<1>1. \A n : In(executed, n) \/ Waits(engines, n) <=> n \in 1 .. received - Held
  BY SetsAre DEF ExecutedInOrder
<1>2. \A k \in 1 .. Len(executed) : In(executed, executed[k])
  BY DEF In
<1>3. ASSUME NEW e \in 1 .. Len(engines), NEW k \in 1 .. Len(engines[e].queue)
      PROVE  Waits(engines, engines[e].queue[k])
  BY DEF In, Waits
<1> QED BY <1>1, <1>2, <1>3

LEMMA KeepsStep ==
    ASSUME SingletonInv, ExecutedInOrder, QueueInv, KeepsQueues
    PROVE  ExecutedInOrder' /\ QueueInv'
<1>1. ASSUME NEW n PROVE Waits(engines', n) <=> Waits(engines, n)
  BY DEF KeepsQueues, Waits
<1>2. Executed' = Executed /\ Queued' = Queued
  BY <1>1, SetsAre DEF KeepsQueues
<1>3. ExecutedInOrder'
  BY <1>2 DEF ExecutedInOrder, KeepsQueues
<1>4. script_eng \in 0 .. Len(engines) /\ self \in [Threads -> 0 .. Len(engines)]
  BY DEF SingletonInv, TypeOK
<1>5. \A t \in Threads : self[t] # 0 =>
          self[t] \in 1 .. Len(engines) /\ script_eng \in 1 .. Len(engines)
  BY <1>4, EnginesAre DEF SingletonInv, EngineInv
<1>6. QueueInv'
  BY <1>5 DEF QueueInv, KeepsQueues, Threads
<1> QED BY <1>3, <1>6

\* A new engine has an empty queue, and the thread that makes it had none.
LEMMA CreateMessages ==
    ASSUME SingletonInv, ExecutedInOrder, QueueInv, NEW t \in Threads, CreateEngine(t),
           (received - Held)' = received - Held
    PROVE  ExecutedInOrder' /\ QueueInv'
<1>1. /\ Len(engines) \in Nat /\ Len(engines') = Len(engines) + 1
      /\ \A e \in 1 .. Len(engines) : engines'[e] = engines[e]
      /\ engines'[Len(engines) + 1].queue = <<>> /\ script_eng' = Len(engines) + 1
  <2>1. NewEngine \in Engine /\ NewEngine.queue = <<>>
    BY MaxMsgsAssumption DEF NewEngine, Engine
  <2> QED BY <2>1, EnginesAre, Appended DEF CreateEngine
<1>2. UNCHANGED <<self, executed>> /\ self[t] = 0
  BY DEF CreateEngine, SingletonInv, EngineInv
<1>3. ~In(<<>>, 0) /\ Len(<<>>) = 0 /\ \A n : ~In(<<>>, n)
  BY DEF In
<1>4. \A e \in 1 .. Len(engines') : e \in 1 .. Len(engines) \/ e = Len(engines) + 1
  BY <1>1
<1>4a. \A e \in 1 .. Len(engines) : e \in 1 .. Len(engines')
  BY <1>1
<1>5. ASSUME NEW n PROVE Waits(engines', n) <=> Waits(engines, n)
  BY <1>1, <1>3, <1>4, <1>4a DEF Waits
<1>6. Executed' = Executed /\ Queued' = Queued
  BY <1>2, <1>5, SetsAre
<1>7. ExecutedInOrder'
  BY <1>2, <1>6 DEF ExecutedInOrder
<1>8. \A e \in 1 .. Len(engines') : Increasing(engines'[e].queue)
  <2>1. Increasing(<<>>)
    BY <1>3 DEF Increasing
  <2> QED BY <1>1, <1>4, <2>1 DEF QueueInv
<1>9. self'["server"] = 0 => \A e \in 1 .. Len(engines') : engines'[e].queue = <<>>
  BY <1>1, <1>2, <1>4 DEF QueueInv
<1>10. self'["main"] = 0 \/ self'["server"] = 0
  BY <1>2 DEF Threads
<1> QED BY <1>2, <1>7, <1>8, <1>9, <1>10 DEF QueueInv

\* A thread gets the engine that is pointed to.
LEMMA ReturnMessages ==
    ASSUME SingletonInv, ExecutedInOrder, QueueInv, NEW t \in Threads, ReturnEngine(t),
           (received - Held)' = received - Held
    PROVE  ExecutedInOrder' /\ QueueInv'
<1>1. /\ UNCHANGED <<engines, executed, script_eng>> /\ script_eng # 0
      /\ self' = [self EXCEPT ![t] = script_eng]
  BY DEF ReturnEngine, SingletonInv, EngineInv
<1>2. self'[t] = script_eng /\ \A u \in Threads \ {t} : self'[u] = self[u]
  BY <1>1 DEF SingletonInv, TypeOK
<1>3. ExecutedInOrder'
  BY <1>1 DEF ExecutedInOrder, Executed, Queued
<1>4. script_eng \in 1 .. Len(engines) /\ Len(<<>>) = 0
  BY <1>1, EnginesAre DEF SingletonInv, TypeOK
<1>5. CASE t = "main"
  <2>1. self'["main"] = script_eng /\ self'["server"] = self["server"]
    BY <1>2, <1>5 DEF Threads
  <2>2. ASSUME self["server"] # 0, NEW j \in 1 .. Len(executed),
               NEW k \in 1 .. Len(engines[script_eng].queue)
        PROVE  executed[j] < engines[script_eng].queue[k]
    <3>1. self["main"] # 0
      BY <1>4, <2>2 DEF QueueInv
    <3> QED BY <2>2, <3>1 DEF QueueInv
  <2> QED BY <1>1, <1>3, <2>1, <2>2 DEF QueueInv
<1>6. CASE t = "server"
  <2>1. self'["server"] = script_eng /\ self'["main"] = self["main"]
    BY <1>2, <1>6 DEF Threads
  <2>2. ASSUME self["main"] # 0
        PROVE  /\ self["main"] # script_eng => engines[self["main"]].queue = <<>>
               /\ \A j \in 1 .. Len(executed), k \in 1 .. Len(engines[script_eng].queue) :
                      executed[j] < engines[script_eng].queue[k]
    <3>1. CASE self["server"] # 0
      BY <2>2, <3>1 DEF QueueInv
    <3>2. CASE self["server"] = 0
      <4>1. self["main"] \in 1 .. Len(engines)
        BY <2>2, EnginesAre DEF SingletonInv, TypeOK, Threads
      <4> QED BY <1>4, <3>2, <4>1 DEF QueueInv
    <3> QED BY <3>1, <3>2
  <2> QED BY <1>1, <1>3, <2>1, <2>2 DEF QueueInv
<1> QED BY <1>5, <1>6 DEF Threads

\* The message that ExecGafq queues is later than all before it.
LEMMA ExecMessages ==
    ASSUME SingletonInv, ExecutedInOrder, QueueInv, ExecGafq
    PROVE  ExecutedInOrder' /\ QueueInv'
<1> DEFINE a == self["server"]
<1>1. a \in 1 .. Len(engines) /\ engines[a] \in Engine /\ engines[a].queue \in Seq(Nat)
  BY EnginesAre DEF ExecGafq, SingletonInv, TypeOK, EngineInv, Threads
<1>2. /\ Len(engines') = Len(engines)
      /\ engines'[a].queue = Append(engines[a].queue, received)
      /\ \A e \in 1 .. Len(engines) : e # a => engines'[e] = engines[e]
  <2> DEFINE item == [engines[a] EXCEPT !.queue = Append(@, received), !.counted = @ + 1]
  <2>1. engines' = [engines EXCEPT ![a] = item]
    BY <1>1 DEF ExecGafq, Engine
  <2>2. item.queue = Append(engines[a].queue, received)
    BY <1>1, QueueFields
  <2> HIDE DEF item
  <2> QED BY <1>1, <2>1, <2>2, EnginesAre
<1> HIDE DEF a
<1>3. /\ UNCHANGED <<self, script_eng, executed, received>>
      /\ received \in Nat \ {0} /\ received - Held = received - 1
      /\ (received - Held)' = received
  <2>1. Held = 1 /\ Held' = 0 /\ received' = received
    BY DEF ExecGafq, Goto, Held, SingletonInv, TypeOK, EngineGetters, Threads
  <2>2. received \in Nat /\ 1 <= received
    BY <2>1, EnginesAre DEF SingletonInv, CountInv
  <2> QED BY <2>1, <2>2 DEF ExecGafq
<1>4. /\ \A k \in 1 .. Len(executed) : executed[k] < received
      /\ \A e \in 1 .. Len(engines) : \A k \in 1 .. Len(engines[e].queue) :
             engines[e].queue[k] < received
  <2>1. \A n \in 1 .. received - 1 : n < received
    BY <1>3
  <2> QED BY <1>3, <2>1, MessagesAre
<1>5. ASSUME NEW n PROVE Waits(engines', n) <=> Waits(engines, n) \/ n = received
  <2>1. In(engines'[a].queue, n) <=> In(engines[a].queue, n) \/ n = received
    BY <1>1, <1>2, <1>3, InAppend
  <2> QED BY <1>1, <1>2, <2>1 DEF Waits
<1>6. Executed' \cup Queued' = 1 .. (received - Held)'
  <2>1. ASSUME NEW n PROVE n \in Executed' \cup Queued' <=> n \in 1 .. received
    <3>1. n \in Executed' \cup Queued' <=> In(executed, n) \/ Waits(engines, n) \/ n = received
      BY <1>3, <1>5, SetsAre
    <3>2. In(executed, n) \/ Waits(engines, n) <=> n \in 1 .. received - 1
      BY <1>3, MessagesAre
    <3>3. n \in 1 .. received - 1 \/ n = received <=> n \in 1 .. received
      BY <1>3
    <3> QED BY <3>1, <3>2, <3>3
  <2> QED BY <1>3, <2>1
<1>7. ExecutedInOrder'
  <2>1. Increasing(executed')
    BY <1>3 DEF ExecutedInOrder
  <2> QED BY <1>6, <2>1 DEF ExecutedInOrder
<1>8. \A e \in 1 .. Len(engines') : Increasing(engines'[e].queue)
  <2>1. /\ Increasing(engines[a].queue)
        /\ \A k \in 1 .. Len(engines[a].queue) : engines[a].queue[k] < received
    BY <1>1, <1>4 DEF QueueInv
  <2>2. Increasing(engines'[a].queue)
    BY <1>1, <1>2, <1>3, <2>1, IncreasingAppend
  <2> QED BY <1>2, <2>2 DEF QueueInv
<1>9. ASSUME self["main"] # 0
      PROVE  /\ script_eng \in {self["main"], self["server"]}
             /\ self["main"] # script_eng => engines'[self["main"]].queue = <<>>
             /\ \A j \in 1 .. Len(executed), k \in 1 .. Len(engines'[script_eng].queue) :
                    executed[j] < engines'[script_eng].queue[k]
  <2>1. /\ script_eng \in {self["main"], self["server"]} /\ self["server"] = a /\ a # 0
        /\ self["main"] # script_eng => engines[self["main"]].queue = <<>>
        /\ \A j \in 1 .. Len(executed), k \in 1 .. Len(engines[script_eng].queue) :
               executed[j] < engines[script_eng].queue[k]
    BY <1>1, <1>9, EnginesAre DEF QueueInv, a
  <2>2. self["main"] \in 1 .. Len(engines) /\ script_eng \in 1 .. Len(engines)
    BY <1>1, <1>9, <2>1, EnginesAre DEF SingletonInv, TypeOK, Threads
  <2>3. self["main"] # script_eng => engines'[self["main"]].queue = <<>>
    BY <1>2, <2>1, <2>2
  <2>4. CASE script_eng = a
    <3>1. /\ Len(engines'[a].queue) = Len(engines[a].queue) + 1 /\ Len(engines[a].queue) \in Nat
          /\ \A k \in 1 .. Len(engines[a].queue) : engines'[a].queue[k] = engines[a].queue[k]
          /\ engines'[a].queue[Len(engines[a].queue) + 1] = received
      BY <1>1, <1>2, <1>3, Appended
    <3>2. ASSUME NEW k \in 1 .. Len(engines'[a].queue)
          PROVE  k \in 1 .. Len(engines[a].queue) \/ k = Len(engines[a].queue) + 1
      BY <3>1
    <3>3. ASSUME NEW j \in 1 .. Len(executed), NEW k \in 1 .. Len(engines'[a].queue)
          PROVE  executed[j] < engines'[a].queue[k]
      BY <1>4, <2>1, <2>4, <3>1, <3>2
    <3> QED BY <2>1, <2>3, <2>4, <3>3
  <2>5. CASE script_eng # a
    BY <1>2, <2>1, <2>2, <2>3, <2>5
  <2> QED BY <2>4, <2>5
<1>10. self["server"] # 0
  BY <1>1, EnginesAre DEF a
<1>11. self["main"] = 0 => executed' = <<>>
  BY <1>3 DEF QueueInv
<1> QED BY <1>3, <1>7, <1>8, <1>9, <1>10, <1>11 DEF QueueInv

\* What LoopExecute takes is later than all that was executed before.
LEMMA LoopMessages ==
    ASSUME SingletonInv, ExecutedInOrder, QueueInv, TakesQueue,
           (received - Held)' = received - Held
    PROVE  ExecutedInOrder' /\ QueueInv'
<1> DEFINE a == self["main"]
           q == engines[self["main"]].queue
<1>1. a \in 1 .. Len(engines) /\ engines[a] \in Engine /\ q \in Seq(Nat) /\ a # 0
  BY EnginesAre DEF TakesQueue, LoopExecute, SingletonInv, TypeOK, EngineInv, Threads
<1>2. /\ executed' = executed \o q /\ UNCHANGED <<self, script_eng>>
      /\ engines' = [engines EXCEPT ![a].queue = <<>>]
  BY DEF TakesQueue, LoopExecute
<1>3. /\ Len(engines') = Len(engines) /\ engines'[a].queue = <<>>
      /\ \A e \in 1 .. Len(engines) : e # a => engines'[e] = engines[e]
  <2> DEFINE item == [engines[a] EXCEPT !.queue = <<>>]
  <2>1. engines' = [engines EXCEPT ![a] = item]
    BY <1>1, <1>2 DEF Engine
  <2>2. item.queue = <<>>
    BY <1>1, QueueFields
  <2> HIDE DEF item
  <2> QED BY <1>1, <2>1, <2>2, EnginesAre
<1>4. q = engines[a].queue /\ a = self["main"]
  OBVIOUS
<1> HIDE DEF a, q
<1>5. executed \in Seq(Nat)
  BY EnginesAre
<1>6. Len(<<>>) = 0 /\ \A n : ~In(<<>>, n)
  BY DEF In
<1>7. ASSUME NEW n
      PROVE  In(executed', n) \/ Waits(engines', n) <=> In(executed, n) \/ Waits(engines, n)
  <2>1. In(executed', n) <=> In(executed, n) \/ In(q, n)
    BY <1>1, <1>2, <1>5, InJoin
  <2>2. Waits(engines, n) <=> In(q, n) \/ Waits(engines', n)
    BY <1>1, <1>3, <1>4, <1>6 DEF Waits
  <2> QED BY <2>1, <2>2
<1>8. Executed' \cup Queued' = 1 .. (received - Held)'
  <2>1. ASSUME NEW n PROVE n \in Executed' \cup Queued' <=> n \in Executed \cup Queued
    BY <1>7, SetsAre
  <2> QED BY <2>1 DEF ExecutedInOrder
<1>9. \A j \in 1 .. Len(executed), k \in 1 .. Len(q) : executed[j] < q[k]
  <2>1. CASE q = <<>>
    BY <1>6, <2>1
  <2>2. CASE q # <<>>
    <3>1. self["server"] # 0
      BY <1>1, <1>4, <2>2 DEF QueueInv
    <3>2. a = script_eng
      BY <1>1, <1>4, <2>2, <3>1 DEF QueueInv
    <3> QED BY <1>1, <1>4, <3>1, <3>2 DEF QueueInv
  <2> QED BY <2>1, <2>2
<1>10. Increasing(executed')
  <2>1. Increasing(executed) /\ Increasing(q)
    BY <1>1, <1>4 DEF ExecutedInOrder, QueueInv
  <2> QED BY <1>1, <1>2, <1>5, <1>9, <2>1, IncreasingJoin
<1>11. ExecutedInOrder'
  BY <1>8, <1>10 DEF ExecutedInOrder
<1>12. \A e \in 1 .. Len(engines') : Increasing(engines'[e].queue)
  <2>1. Increasing(<<>>)
    BY <1>6 DEF Increasing
  <2> QED BY <1>3, <2>1 DEF QueueInv
<1>13. self["server"] = 0 =>
           executed' = <<>> /\ \A e \in 1 .. Len(engines') : engines'[e].queue = <<>>
  <2>1. SUFFICES ASSUME self["server"] = 0
                 PROVE  executed' = <<>> /\ \A e \in 1 .. Len(engines') : engines'[e].queue = <<>>
    OBVIOUS
  <2>2. executed = <<>> /\ \A e \in 1 .. Len(engines) : engines[e].queue = <<>>
    BY <2>1 DEF QueueInv
  <2>3. q = <<>>
    BY <1>1, <1>4, <2>2
  <2>4. executed' = <<>>
    BY <1>2, <2>2, <2>3
  <2> QED BY <1>3, <2>2, <2>4
<1>14. ASSUME self["server"] # 0
       PROVE  /\ script_eng \in {self["main"], self["server"]}
              /\ self["main"] # script_eng => engines'[self["main"]].queue = <<>>
              /\ \A j \in 1 .. Len(executed'), k \in 1 .. Len(engines'[script_eng].queue) :
                     executed'[j] < engines'[script_eng].queue[k]
  <2>1. /\ script_eng \in {a, self["server"]}
        /\ a # script_eng => q = <<>>
        /\ \A j \in 1 .. Len(executed), k \in 1 .. Len(engines[script_eng].queue) :
               executed[j] < engines[script_eng].queue[k]
    BY <1>1, <1>4, <1>14 DEF QueueInv
  <2>2. script_eng \in 1 .. Len(engines)
    BY <1>1, <1>4, <1>14, <2>1, EnginesAre DEF SingletonInv, TypeOK, Threads
  <2>3. CASE a = script_eng
    BY <1>3, <1>4, <1>6, <2>3
  <2>4. CASE a # script_eng
    <3>1. executed' = executed
      BY <1>2, <1>5, <2>1, <2>4
    <3>2. engines'[script_eng] = engines[script_eng]
      BY <1>3, <2>2, <2>4
    <3> QED BY <1>3, <1>4, <2>1, <3>1, <3>2
  <2> QED BY <2>3, <2>4
<1>15. self["main"] # 0
  BY <1>1, <1>4
<1> QED BY <1>2, <1>11, <1>12, <1>13, <1>14, <1>15 DEF QueueInv

LEMMA StartupInvInit == Init => StartupInv
<1> SUFFICES ASSUME Init PROVE ExecutedInOrder /\ QueueInv
  BY SingletonInit DEF StartupInv
<1>1. /\ executed = <<>> /\ engines = <<>> /\ received = 0 /\ self["main"] = 0
      /\ Len(executed) = 0 /\ Len(engines) = 0
  BY DEF Init, Threads
<1>2. Held = 0
  BY DEF Init, Held, Threads, EngineGetters
<1>3. Executed = {} /\ Queued = {}
  BY <1>1 DEF Executed, Queued
<1> QED BY <1>1, <1>2, <1>3 DEF ExecutedInOrder, QueueInv, Increasing

LEMMA StartupInvStep == StartupInv /\ [Next]_vars => StartupInv'
<1> SUFFICES ASSUME StartupInv, [Next]_vars PROVE StartupInv'
  OBVIOUS
<1>1. SingletonInv /\ ExecutedInOrder /\ QueueInv /\ SingletonInv'
  BY SingletonStep DEF StartupInv
<1>2. \/ KeepsQueues
      \/ \E t \in Threads : CreateEngine(t) \/ ReturnEngine(t)
      \/ ExecGafq
      \/ TakesQueue
  BY <1>1, MessageCases
<1>3. ASSUME ~ExecGafq PROVE (received - Held)' = received - Held
  BY <1>1, <1>3, HeldKept
<1>4. ExecutedInOrder' /\ QueueInv'
  BY <1>1, <1>2, <1>3, KeepsStep, CreateMessages, ReturnMessages, ExecMessages,
     LoopMessages
<1> QED BY <1>1, <1>4 DEF StartupInv
-----------------------------------------------------------------------------
\* For any number of messages: where the threads are in main() and in the two
\* get_instance() settles which singletons exist, how far they are initialised
\* and what they have counted, and which engine's queue the messages are in.
THEOREM StartupInvariant == Spec => []StartupInv
BY StartupInvInit, StartupInvStep, PTL DEF Spec

\* GameConfig::get_instance(), although nothing synchronises it, never makes a
\* second object.
THEOREM ConfigIsSingle == Spec => []OneConfig
<1>1. StartupInv => OneConfig
  BY DEF StartupInv, SingletonInv, TypeOK, ConfigInv, OneConfig
<1> QED BY <1>1, StartupInvariant, PTL

\* The server thread never runs without a configuration that has main's keys,
\* although main ignores the result of init_load_config.
THEOREM ServerAlwaysHasConfig == Spec => []ServerHasConfig
<1>1. StartupInv => ServerHasConfig
  BY DEF StartupInv, SingletonInv, TypeOK, ConfigInv, ServerHasConfig, Threads,
     MainLabels, ServerLabels, Files, ConfigGetters, EngineGetters
<1> QED BY <1>1, StartupInvariant, PTL

\* As long as one engine has been made, main uses no script state that Init has
\* not made.
THEOREM OneEngineNeverCrashes == Spec => []OneEngineIsReady
<1>1. StartupInv => OneEngineIsReady
  BY DEF StartupInv, SingletonInv, TypeOK, ReadyInv, OneEngineIsReady
<1> QED BY <1>1, StartupInvariant, PTL

\* Whichever thread makes the engine, and even when each makes one, the messages
\* that epoll_loop hands to ExecGafq are in a queue or executed, and LoopExecute
\* runs them in the order of their arrival, none twice.
THEOREM MessagesInOrder == Spec => []ExecutedInOrder
<1>1. StartupInv => ExecutedInOrder
  BY DEF StartupInv
<1> QED BY <1>1, StartupInvariant, PTL

\* ScriptEngine::get_instance() races only until both threads have got an
\* engine; from then on no step changes script_eng.
THEOREM RaceSettles == Spec => EngineSettles
<1>1. StartupInv /\ [Next]_vars
          => [(\A t \in Threads : self[t] # 0) => script_eng' = script_eng]_vars
  <2> SUFFICES ASSUME StartupInv, Next, \A t \in Threads : self[t] # 0
               PROVE  script_eng' = script_eng
    OBVIOUS
  <2>1. \A t \in Threads : ~CreateEngine(t)
    BY DEF StartupInv, SingletonInv, EngineInv, CreateEngine
  <2>2. \A t \in Threads : GetInstance(t) => UNCHANGED script_eng
    BY <2>1 DEF GetInstance, CheckConfig, CreateConfig, CheckEngine, ResetCounts,
       ReturnEngine
  <2> QED
    BY <2>2 DEF Next, Main, Server, Threads, LoadConfig, StoreConfig, ReadConfig,
       SpawnServer, InitEngine, RegisterSendData, WakeUp, LoopExecute, ReadPort,
       BindAndListen, ReceiveMessage, ExecGafq, WaitFails
<1> QED BY <1>1, StartupInvariant, PTL DEF Spec, EngineSettles
=============================================================================
