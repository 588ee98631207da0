--------------------------- MODULE StartupProofs ---------------------------
(* Theorems about the life of the process: how it shuts down, the limits it     *)
(* serves with, and what loading a checkpoint guarantees.                       *)
EXTENDS Startup, FiniteSetTheorems, TLAPS

-----------------------------------------------------------------------------
(* The inductive invariant.  Before the server listens nobody has connected and *)
(* nothing waits for a signal; a signal is accepted only with both handlers     *)
(* installed; from the moment the engine is told to stop either nobody ever     *)
(* connected or everybody has been answered or left.                            *)
Begun == {"serving", "draining", "stop", "join", "exited"}
NobodyYet == reqs = [r \in Requests |-> "idle"]
Settled == \A r \in Requests : reqs[r] \in {"idle", "delivered", "gone"}

Launched ==
    /\ launch \in Launches
    /\ pc \notin {"start", "exited"} => launch.command = "serve"

Orderly ==
    /\ pc \notin Begun => NobodyYet /\ waiter = "unpolled"
    /\ waiter = "unpolled" => ~asked
    /\ (waiter = "waiting" \/ asked) => handled = Signals
    /\ pc \in {"stop", "join"} => \/ result # "ok" /\ NobodyYet /\ waiter = "unpolled"
                                  \/ result = "ok" /\ Settled
    /\ NoRequestCutShort
    /\ ExitCodeExact

(* What each stage leaves behind for the later ones.                            *)
HasMetadata ==
    pc \in {"list", "open", "assemble"} \cup Loaded
    => /\ ConfigReads(launch.dir) /\ MetadataOk(launch.dir.config)
       /\ meta = to_metadata(launch.dir.config)

HasLimits ==
    pc \in {"spawn"} \cup Up
    => /\ effective = Effective(launch.args, meta.max_position_embeddings)
       /\ SchedulerOk(effective)

(* The shards opened so far come before those still to open, and the index maps *)
(* every name they hold to the first of them that holds it.                     *)
Opened == Shards \ ToSet(paths)

FirstOf(t, S) ==
    /\ index[t] \in S
    /\ t \in DOMAIN launch.dir.files[index[t]]
    /\ \A j \in S : t \in DOMAIN launch.dir.files[j] => index[t] <= j

Indexes ==
    /\ paths \in Seq(Shards) /\ Increasing(paths)
    /\ \A i \in Opened, j \in ToSet(paths) : i < j
    /\ \A i \in Opened : DOMAIN launch.dir.files[i] \subseteq DOMAIN index
    /\ \A t \in DOMAIN index : FirstOf(t, Opened)

HasIndex ==
    /\ pc \in {"start", "metrics", "config", "list"} => index = Empty
    /\ pc \in {"open", "assemble"} \cup Loaded => Indexes

HasWeights ==
    /\ pc \in {"assemble"} \cup Loaded
       => /\ paths = << >>
          /\ WeightsOk(launch.dir.files, index, launch.dir.config, meta)
          /\ weights = load(launch.dir.files, index, launch.dir.config, meta)
    /\ pc \in Loaded => RopeOk(meta)

StartInd == /\ StartupTypeOK /\ Launched /\ Orderly
            /\ HasMetadata /\ HasLimits /\ HasIndex /\ HasWeights

-----------------------------------------------------------------------------
(* The process starts so (main.rs: main).                                       *)
LEMMA StartHolds == Init => StartInd
BY DEF Init, StartInd, StartupTypeOK, Launched, Orderly, HasMetadata, HasLimits, HasIndex,
       HasWeights, NobodyYet, Settled, NoRequestCutShort, ExitCodeExact, Begun, Exits, Up, Loaded

(* Every step keeps the types, and starts and stops the engine with its stage.  *)
LEMMA TypesStay == StartInd /\ [Next]_vars => StartupTypeOK' /\ Launched'
<1> SUFFICES ASSUME StartInd, [Next]_vars PROVE StartupTypeOK' /\ Launched'
  OBVIOUS
<1> USE DEF StartupTypeOK, Launched, Exits, Up, Loaded, signals
<1>0. StartupTypeOK /\ Launched
  BY DEF StartInd
<1>1. CASE inspect \/ Validate \/ install_metrics \/ ReadConfig \/ ListShards
  BY <1>0, <1>1 DEF inspect, Validate, install_metrics, ReadConfig, ListShards, Stage, Goto, Exit,
                    serving
<1>2. CASE OpenShard \/ LoadWeights \/ Assemble \/ LoadTokenizer \/ SetLimits
  BY <1>0, <1>2 DEF OpenShard, LoadWeights, Assemble, LoadTokenizer, SetLimits, Stage, Goto, Exit,
                    serving
<1>3. CASE Spawn \/ BuildRuntime \/ Bind \/ Listen \/ AwaitSignal \/ StopAccepting
  BY <1>0, <1>3 DEF Spawn, BuildRuntime, Bind, Listen, AwaitSignal, StopAccepting, Stage, Goto,
                    Exit, serving
<1>4. CASE Drained \/ StopEngine \/ Join
  BY <1>0, <1>4 DEF Drained, StopEngine, Join, Stage, Goto, Exit, serving
<1>5. CASE EngineStops
  BY <1>0, <1>5 DEF EngineStops
<1>6. ASSUME NEW s \in Signals, Signal(s) PROVE StartupTypeOK' /\ Launched'
  BY <1>0, <1>6 DEF Signal, Exit
<1>7. ASSUME NEW r \in Requests,
             Connect(r) \/ Sends(r) \/ Deliver(r) \/ Hangup(r) \/ EngineAnswers(r)
      PROVE  StartupTypeOK' /\ Launched'
  BY <1>0, <1>7 DEF Connect, Sends, Deliver, Hangup, EngineAnswers, Moves
<1>8. CASE UNCHANGED vars
  BY <1>0, <1>8 DEF vars, serving
<1> QED
  BY <1>1, <1>2, <1>3, <1>4, <1>5, <1>6, <1>7, <1>8 DEF Next, Process, Clients

(* Every step keeps the order of a shutdown.                                    *)
LEMMA OrderStays == StartInd /\ [Next]_vars => Orderly'
<1> SUFFICES ASSUME StartInd, [Next]_vars PROVE Orderly'
  OBVIOUS
<1> USE DEF Orderly, Begun, NobodyYet, Settled, NoRequestCutShort, ExitCodeExact, signals
<1>0. Orderly /\ StartupTypeOK /\ Launched
  BY DEF StartInd
<1>1. CASE inspect
  BY <1>0, <1>1 DEF inspect, Exit, serving
<1>2. CASE Validate \/ install_metrics \/ ReadConfig \/ ListShards \/ OpenShard
  BY <1>0, <1>2 DEF Validate, install_metrics, ReadConfig, ListShards, OpenShard, Stage, Goto,
                    Exit, serving
<1>3. CASE LoadWeights \/ Assemble \/ LoadTokenizer \/ SetLimits
  BY <1>0, <1>3 DEF LoadWeights, Assemble, LoadTokenizer, SetLimits, Stage, Goto, Exit, serving
<1>4. CASE Spawn \/ BuildRuntime \/ Listen \/ AwaitSignal \/ StopAccepting
  BY <1>0, <1>4 DEF Spawn, BuildRuntime, Listen, AwaitSignal, StopAccepting, Stage, Goto, Exit,
                    serving
<1>5. CASE Bind
  BY <1>0, <1>5 DEF Bind, Goto
<1>6. CASE Drained
  <2>1. Settled
    BY <1>0, <1>6 DEF Drained, StartupTypeOK
  <2> QED
    BY <1>0, <1>6, <2>1 DEF Drained, Goto
<1>7. CASE StopEngine
  BY <1>0, <1>7 DEF StopEngine, Goto, serving
<1>8. CASE EngineStops
  <2>1. reqs' = reqs
    BY <1>0, <1>8 DEF EngineStops, StartupTypeOK
  <2> QED
    BY <1>0, <1>8, <2>1 DEF EngineStops
<1>9. CASE Join
  BY <1>0, <1>9 DEF Join, Exit, serving
<1>10. ASSUME NEW s \in Signals, Signal(s) PROVE Orderly'
  BY <1>0, <1>10 DEF Signal, Exit, StartupTypeOK
<1>11. ASSUME NEW r \in Requests,
              Connect(r) \/ Sends(r) \/ Deliver(r) \/ Hangup(r) \/ EngineAnswers(r)
       PROVE  Orderly'
  <2>1. /\ UNCHANGED <<launch, pc, handled, waiter, asked, result, code>>
        /\ \A s \in Requests : reqs'[s] # "cut"
        /\ pc # "exited"
    BY <1>0, <1>11 DEF Connect, Sends, Deliver, Hangup, EngineAnswers, Moves, StartupTypeOK
  <2>2. CASE pc \in {"serving", "draining"}
    BY <1>0, <2>1, <2>2 DEF StartupTypeOK
  <2>3. CASE pc \notin {"serving", "draining"}
    BY <1>0, <1>11, <2>1, <2>3
    DEF Connect, Sends, Deliver, Hangup, EngineAnswers, Moves, StartupTypeOK
  <2> QED
    BY <2>2, <2>3
<1>12. CASE UNCHANGED vars
  BY <1>0, <1>12 DEF vars, serving
<1> QED
  BY <1>1, <1>2, <1>3, <1>4, <1>5, <1>6, <1>7, <1>8, <1>9, <1>10, <1>11, <1>12
  DEF Next, Process, Clients

(* Every step keeps the metadata and the limits that earlier stages computed.   *)
LEMMA LimitsStay == StartInd /\ [Next]_vars => HasMetadata' /\ HasLimits'
<1> SUFFICES ASSUME StartInd, [Next]_vars PROVE HasMetadata' /\ HasLimits'
  OBVIOUS
<1> USE DEF HasMetadata, HasLimits, Up, Loaded
<1>0. HasMetadata /\ HasLimits
  BY DEF StartInd
<1>1. CASE inspect \/ Validate \/ install_metrics \/ ReadConfig \/ ListShards
  BY <1>0, <1>1 DEF inspect, Validate, install_metrics, ReadConfig, ListShards, Stage, Goto, Exit,
                    loading, serving
<1>2. CASE OpenShard \/ LoadWeights \/ Assemble \/ LoadTokenizer \/ SetLimits
  BY <1>0, <1>2 DEF OpenShard, LoadWeights, Assemble, LoadTokenizer, SetLimits, Stage, Goto, Exit,
                    loading, serving
<1>3. CASE Spawn \/ BuildRuntime \/ Bind \/ Listen \/ AwaitSignal \/ StopAccepting
  BY <1>0, <1>3 DEF Spawn, BuildRuntime, Bind, Listen, AwaitSignal, StopAccepting, Stage, Goto,
                    Exit, loading, serving
<1>4. CASE Drained \/ StopEngine \/ Join \/ EngineStops
  BY <1>0, <1>4 DEF Drained, StopEngine, Join, EngineStops, Stage, Goto, Exit, loading, serving
<1>5. ASSUME NEW s \in Signals, Signal(s) PROVE HasMetadata' /\ HasLimits'
  BY <1>0, <1>5 DEF Signal, Exit, loading
<1>6. ASSUME NEW r \in Requests,
             Connect(r) \/ Sends(r) \/ Deliver(r) \/ Hangup(r) \/ EngineAnswers(r)
      PROVE  HasMetadata' /\ HasLimits'
  BY <1>0, <1>6 DEF Connect, Sends, Deliver, Hangup, EngineAnswers, Moves, loading
<1>7. CASE UNCHANGED vars
  BY <1>0, <1>7 DEF vars, loading
<1> QED
  BY <1>1, <1>2, <1>3, <1>4, <1>5, <1>6, <1>7 DEF Next, Process, Clients

-----------------------------------------------------------------------------
(* A listing of a directory holds every shard (CheckpointLoader::open).         *)
LEMMA ListingIsComplete ==
    ASSUME NEW S, IsFiniteSet(S), NEW s \in SetToSeqs(S)
    PROVE  s \in Seq(S) /\ ToSet(s) = S
<1>1. PICK n \in Nat : n = Cardinality(S)
  BY FS_CardinalityType
<1>2. s \in [1..n -> S] /\ \A i, j \in 1..n : i # j => s[i] # s[j]
  BY <1>1 DEF SetToSeqs
<1>3. s \in Seq(S) /\ DOMAIN s = 1..n
  BY <1>2
<1>4. ASSUME NEW x \in S, x \notin ToSet(s) PROVE FALSE
  <2>1. IsFiniteSet(S \ {x}) /\ Cardinality(S \ {x}) = n - 1
    BY <1>1, FS_RemoveElement
  <2>2. s \in [1..n -> S \ {x}]
    BY <1>2, <1>3, <1>4 DEF ToSet
  <2>3. IsFiniteSet(1..n) /\ Cardinality(1..n) = n
    <3>1. 1 \in Int /\ n \in Int
      OBVIOUS
    <3>2. IsFiniteSet(1..n) /\ Cardinality(1..n) = IF 1 > n THEN 0 ELSE n - 1 + 1
      BY <3>1, FS_Interval, Zenon
    <3> QED
      BY <3>2
  <2>4. Cardinality(S \ {x}) < Cardinality(1..n)
    BY <2>1, <2>3
  <2>5. \E i, j \in 1..n : i # j /\ s[i] = s[j]
    BY <2>1, <2>2, <2>3, <2>4, FS_PigeonHole, Zenon
  <2> QED
    BY <1>2, <2>5
<1> QED
  BY <1>3, <1>4 DEF ToSet

(* The first of an increasing listing comes before the rest.                    *)
LEMMA FirstShard ==
    ASSUME NEW S \in SUBSET Nat, NEW s \in Seq(S), s # << >>, Increasing(s)
    PROVE  /\ Head(s) \in S
           /\ Tail(s) \in Seq(S) /\ Increasing(Tail(s))
           /\ ToSet(s) = {Head(s)} \cup ToSet(Tail(s))
           /\ \A j \in ToSet(Tail(s)) : Head(s) < j
<1>1. PICK n : n = Len(s)
  OBVIOUS
<1>2. n \in Nat /\ n > 0 /\ DOMAIN s = 1..n /\ \A i \in 1..n : s[i] \in S
  BY <1>1
<1>3. Head(s) = s[1] /\ Tail(s) \in Seq(S) /\ DOMAIN Tail(s) = 1..(n - 1)
  BY <1>1, <1>2
<1>4. \A i \in 1..(n - 1) : Tail(s)[i] = s[i + 1]
  BY <1>1, <1>2
<1>5. Increasing(Tail(s))
  <2>1. ASSUME NEW a \in 1..(n - 1), NEW b \in 1..(n - 1), a < b
        PROVE  Tail(s)[a] < Tail(s)[b]
    <3>1. a + 1 \in DOMAIN s /\ b + 1 \in DOMAIN s /\ a + 1 < b + 1
      BY <1>2, <2>1
    <3>2. s[a + 1] < s[b + 1]
      BY <3>1 DEF Increasing
    <3> QED
      BY <1>4, <3>2
  <2> QED
    BY <1>3, <2>1 DEF Increasing
<1>6. \A i \in 1..(n - 1) : i + 1 \in 1..n /\ 1 \in 1..n /\ s[1] < s[i + 1]
  BY <1>2 DEF Increasing
<1>7. \A j \in ToSet(Tail(s)) : Head(s) < j
  BY <1>3, <1>4, <1>6 DEF ToSet
<1>8. ToSet(s) = {Head(s)} \cup ToSet(Tail(s))
  <2>1. ASSUME NEW x \in ToSet(s), x # Head(s) PROVE x \in ToSet(Tail(s))
    <3>1. PICK i \in 1..n : x = s[i]
      BY <1>2 DEF ToSet
    <3>2. i - 1 \in 1..(n - 1) /\ i - 1 + 1 = i
      BY <1>2, <1>3, <2>1, <3>1
    <3>3. Tail(s)[i - 1] = x
      BY <1>4, <3>1, <3>2
    <3> QED
      BY <1>3, <3>2, <3>3 DEF ToSet
  <2>2. ASSUME NEW x \in ToSet(Tail(s)) PROVE x \in ToSet(s)
    <3>1. PICK i \in 1..(n - 1) : x = Tail(s)[i]
      BY <1>3 DEF ToSet
    <3> QED
      BY <1>2, <1>4, <1>6, <3>1 DEF ToSet
  <2>3. Head(s) \in ToSet(s)
    BY <1>2, <1>3 DEF ToSet
  <2> QED
    BY <2>1, <2>2, <2>3
<1> QED
  BY <1>2, <1>3, <1>5, <1>7, <1>8

(* Opening a shard adds the names that no earlier shard holds.                  *)
LEMMA OpeningIndexes ==
    ASSUME Indexes, Shards \subseteq Nat, paths # << >>,
           UNCHANGED launch, paths' = Tail(paths),
           index' = Indexed(index, Head(paths), launch.dir.files[Head(paths)])
    PROVE  Indexes'
<1>1. PICK i : i = Head(paths)
  OBVIOUS
<1> DEFINE files == launch.dir.files
<1>2. /\ i \in Shards
      /\ paths' \in Seq(Shards) /\ Increasing(paths')
      /\ ToSet(paths) = {i} \cup ToSet(paths')
      /\ \A j \in ToSet(paths') : i < j
  <2>1. paths \in Seq(Shards) /\ Increasing(paths) /\ Shards \in SUBSET Nat
    BY DEF Indexes
  <2> QED
    BY <1>1, <2>1, FirstShard
<1>3. Shards' = Shards /\ files' = files
  BY DEF Shards
<1>4. i \notin ToSet(paths') /\ i \in Nat /\ Opened' = Opened \cup {i} /\ Opened \subseteq Nat
  <2>1. i \in Nat
    BY <1>2
  <2>2. ~(i < i)
    BY <2>1
  <2>3. i \notin ToSet(paths')
    BY <1>2, <2>2
  <2>4. Opened' = Shards \ ToSet(paths')
    BY <1>3 DEF Opened
  <2> QED
    BY <1>2, <2>1, <2>3, <2>4 DEF Opened
<1>5. /\ DOMAIN index' = DOMAIN index \cup DOMAIN files[i]
      /\ \A t \in DOMAIN index' : index'[t] = IF t \in DOMAIN index THEN index[t] ELSE i
  BY <1>1 DEF Indexed
<1>6. \A a \in Opened, b \in ToSet(paths) : a < b
  BY DEF Indexes
<1>7. /\ \A a \in Opened : DOMAIN files[a] \subseteq DOMAIN index
      /\ \A t \in DOMAIN index : FirstOf(t, Opened)
  BY DEF Indexes
<1> HIDE DEF files
<1>8. \A a \in Opened', b \in ToSet(paths') : a < b
  BY <1>2, <1>4, <1>6
<1>9. \A a \in Opened' : DOMAIN files'[a] \subseteq DOMAIN index'
  BY <1>3, <1>4, <1>5, <1>7
<1>10. ASSUME NEW t \in DOMAIN index'
       PROVE  /\ index'[t] \in Opened'
              /\ t \in DOMAIN files'[index'[t]]
              /\ \A j \in Opened' : t \in DOMAIN files'[j] => index'[t] <= j
  <2>1. CASE t \in DOMAIN index
    <3>1. /\ index[t] \in Opened /\ t \in DOMAIN files[index[t]]
          /\ \A j \in Opened : t \in DOMAIN files[j] => index[t] <= j
      BY <1>7, <2>1 DEF FirstOf, files
    <3>2. index[t] < i /\ index[t] \in Nat
      BY <1>2, <1>4, <1>6, <3>1
    <3>3. index[t] <= i
      BY <1>4, <3>2
    <3> QED
      BY <1>3, <1>4, <1>5, <2>1, <3>1, <3>3
  <2>2. CASE t \notin DOMAIN index
    <3>1. index'[t] = i /\ t \in DOMAIN files[i]
      BY <1>5, <2>2
    <3>2. i \in Nat /\ i <= i
      BY <1>2
    <3>3. \A j \in Opened : t \notin DOMAIN files[j]
      BY <1>7, <2>2
    <3> QED
      BY <1>3, <1>4, <3>1, <3>2, <3>3
  <2> QED
    BY <2>1, <2>2
<1> QED
  BY <1>2, <1>3, <1>8, <1>9, <1>10 DEF Indexes, FirstOf, files

(* What is read is not touched again once it is complete.                       *)
LEMMA IndexStays == StartInd /\ [Next]_vars => HasIndex'
<1> SUFFICES ASSUME StartInd, [Next]_vars PROVE HasIndex'
  OBVIOUS
<1>0. HasIndex /\ StartupTypeOK /\ Launched
  BY DEF StartInd
<1>1. ASSUME UNCHANGED <<launch, paths, index>>
      PROVE  Indexes => Indexes'
  BY <1>1 DEF Indexes, FirstOf, Opened, Shards
<1> USE DEF HasIndex, Loaded, Up
<1>2. CASE inspect \/ Validate \/ install_metrics \/ ReadConfig
  BY <1>0, <1>1, <1>2 DEF inspect, Validate, install_metrics, ReadConfig, Stage, Goto, Exit, loading
<1>3. CASE ListShards
  <2>1. CASE Shards = {}
    BY <1>3, <2>1 DEF ListShards, Stage, Exit
  <2>2. CASE Shards # {}
    <3>1. launch \in Launches /\ launch.command = "serve" /\ index = Empty
          /\ pc' = "open" /\ UNCHANGED <<launch, index>>
      BY <1>0, <1>3, <2>2 DEF ListShards, Stage, Goto, Launched
    <3>2. IsFiniteSet(Shards)
      BY <3>1, LaunchAssumption DEF DirTyped, Shards
    <3>3. paths' \in Seq(Shards) /\ ToSet(paths') = Shards /\ Increasing(paths')
      BY <1>3, <3>2, ListingIsComplete DEF ListShards
    <3>4. Shards' = Shards /\ Opened' = {} /\ DOMAIN index' = {}
      BY <3>1, <3>3 DEF Opened, Shards, Empty
    <3>5. Indexes'
      BY <3>3, <3>4 DEF Indexes
    <3> QED
      BY <3>1, <3>5
  <2> QED
    BY <2>1, <2>2
<1>4. CASE OpenShard
  <2>1. CASE launch.dir.files[Head(paths)] = Corrupt
    BY <1>4, <2>1 DEF OpenShard, Stage, Exit
  <2>2. CASE launch.dir.files[Head(paths)] # Corrupt
    <3>1. /\ launch \in Launches /\ launch.command = "serve" /\ Indexes /\ UNCHANGED launch
          /\ pc' = "open" /\ paths # << >> /\ paths' = Tail(paths)
          /\ index' = Indexed(index, Head(paths), launch.dir.files[Head(paths)])
      BY <1>0, <1>4, <2>2 DEF OpenShard, Stage, Goto, Launched
    <3>2. Shards \subseteq Nat
      BY <3>1, LaunchAssumption DEF DirTyped, Shards
    <3>3. Indexes'
      BY <3>1, <3>2, OpeningIndexes
    <3> QED
      BY <3>1, <3>3
  <2> QED
    BY <2>1, <2>2
<1>5. CASE LoadWeights \/ Assemble \/ LoadTokenizer \/ SetLimits
  BY <1>0, <1>1, <1>5 DEF LoadWeights, Assemble, LoadTokenizer, SetLimits, Stage, Goto, Exit, loading
<1>6. CASE Spawn \/ BuildRuntime \/ Bind \/ Listen \/ AwaitSignal \/ StopAccepting
  BY <1>0, <1>1, <1>6 DEF Spawn, BuildRuntime, Bind, Listen, AwaitSignal, StopAccepting, Stage,
                          Goto, Exit, loading
<1>7. CASE Drained \/ StopEngine \/ Join \/ EngineStops
  BY <1>0, <1>1, <1>7 DEF Drained, StopEngine, Join, EngineStops, Stage, Goto, Exit, loading
<1>8. ASSUME NEW s \in Signals, Signal(s) PROVE HasIndex'
  BY <1>0, <1>1, <1>8 DEF Signal, Exit, loading
<1>9. ASSUME NEW r \in Requests,
             Connect(r) \/ Sends(r) \/ Deliver(r) \/ Hangup(r) \/ EngineAnswers(r)
      PROVE  HasIndex'
  BY <1>0, <1>1, <1>9 DEF Connect, Sends, Deliver, Hangup, EngineAnswers, Moves, loading
<1>10. CASE UNCHANGED vars
  BY <1>0, <1>1, <1>10 DEF vars, loading
<1> QED
  BY <1>2, <1>3, <1>4, <1>5, <1>6, <1>7, <1>8, <1>9, <1>10 DEF Next, Process, Clients

(* Nor are the weights (ModelWeights::load).                                    *)
LEMMA WeightsStay == StartInd /\ [Next]_vars => HasWeights'
<1> SUFFICES ASSUME StartInd, [Next]_vars PROVE HasWeights'
  OBVIOUS
<1> USE DEF HasWeights, Loaded, Up
<1>0. HasWeights
  BY DEF StartInd
<1>1. CASE inspect \/ Validate \/ install_metrics \/ ReadConfig \/ ListShards
  BY <1>0, <1>1 DEF inspect, Validate, install_metrics, ReadConfig, ListShards, Stage, Goto, Exit,
                    loading
<1>2. CASE OpenShard \/ LoadWeights
  BY <1>0, <1>2 DEF OpenShard, LoadWeights, Stage, Goto, Exit
<1>3. CASE Assemble \/ LoadTokenizer \/ SetLimits
  BY <1>0, <1>3 DEF Assemble, LoadTokenizer, SetLimits, Stage, Goto, Exit, loading
<1>4. CASE Spawn \/ BuildRuntime \/ Bind \/ Listen \/ AwaitSignal \/ StopAccepting
  BY <1>0, <1>4 DEF Spawn, BuildRuntime, Bind, Listen, AwaitSignal, StopAccepting, Stage, Goto,
                    Exit, loading
<1>5. CASE Drained \/ StopEngine \/ Join \/ EngineStops
  BY <1>0, <1>5 DEF Drained, StopEngine, Join, EngineStops, Stage, Goto, Exit, loading
<1>6. ASSUME NEW s \in Signals, Signal(s) PROVE HasWeights'
  BY <1>0, <1>6 DEF Signal, Exit, loading
<1>7. ASSUME NEW r \in Requests,
             Connect(r) \/ Sends(r) \/ Deliver(r) \/ Hangup(r) \/ EngineAnswers(r)
      PROVE  HasWeights'
  BY <1>0, <1>7 DEF Connect, Sends, Deliver, Hangup, EngineAnswers, Moves, loading
<1>8. CASE UNCHANGED vars
  BY <1>0, <1>8 DEF vars, loading
<1> QED
  BY <1>1, <1>2, <1>3, <1>4, <1>5, <1>6, <1>7, <1>8 DEF Next, Process, Clients

(* The invariant holds in every state of every behaviour.                       *)
THEOREM StartIndHolds == Spec => []StartInd
<1>1. StartInd /\ [Next]_vars => StartInd'
  BY TypesStay, OrderStays, LimitsStay, IndexStays, WeightsStay DEF StartInd
<1> QED
  BY StartHolds, <1>1, PTL DEF Spec

-----------------------------------------------------------------------------
(* Limits that pass the validation have room for every running sequence, and    *)
(* for the longest prompt when it must be processed at once (SchedulerConfig).  *)
LEMMA ValidLimits ==
    ASSUME NEW args, ArgsTyped(args), NEW positions \in Nat,
           SchedulerOk(Effective(args, positions))
    PROVE  LET e == Effective(args, positions)
           IN  /\ e.max_num_seqs >= 1 /\ e.max_num_batched_tokens >= e.max_num_seqs
               /\ e.max_model_len \in Nat /\ e.max_model_len >= 1
               /\ \A len \in 1 .. e.max_model_len :
                     e.enable_chunked_prefill \/ len <= e.max_num_batched_tokens
               /\ e.max_model_len > positions
                  => args.max_model_len # None /\ args.max_model_len > positions
<1> DEFINE e == Effective(args, positions)
<1>1. /\ e.max_num_seqs = args.max_num_seqs
      /\ e.max_num_batched_tokens = args.max_num_batched_tokens
      /\ e.enable_chunked_prefill = args.chunked_prefill
      /\ e.max_model_len = EffectiveLen(args, positions)
  <2>1. {"max_num_seqs", "max_num_batched_tokens", "max_model_len", "enable_chunked_prefill"}
        \subseteq DOMAIN DefaultScheduler
    BY DEF DefaultScheduler
  <2>2. FromArgs(args).scheduler = [DefaultScheduler EXCEPT
                                       !.max_num_seqs = args.max_num_seqs,
                                       !.max_num_batched_tokens = args.max_num_batched_tokens,
                                       !.max_model_len = args.max_model_len,
                                       !.enable_chunked_prefill = args.chunked_prefill]
    BY DEF FromArgs
  <2> QED
    BY <2>1, <2>2 DEF Effective
<1>2. /\ EffectiveLen(args, positions) \in Nat
      /\ EffectiveLen(args, positions) > positions
         => args.max_model_len # None /\ args.max_model_len > positions
  BY DEF EffectiveLen, ArgsTyped
<1>3. /\ e.max_num_seqs # 0 /\ e.max_num_batched_tokens >= e.max_num_seqs
      /\ e.max_model_len # None =>
            /\ e.max_model_len # 0
            /\ ~e.enable_chunked_prefill => e.max_model_len <= e.max_num_batched_tokens
  BY DEF SchedulerOk
<1> HIDE DEF e
<1>4. e.max_model_len # None
  BY <1>1, <1>2, LaunchAssumption
<1>5. /\ e.max_num_seqs \in Nat /\ e.max_num_batched_tokens \in Nat /\ e.max_model_len \in Nat
  BY <1>1, <1>2 DEF ArgsTyped
<1>6. ASSUME NEW len \in 1 .. e.max_model_len, ~e.enable_chunked_prefill
      PROVE  len <= e.max_num_batched_tokens
  BY <1>3, <1>4, <1>5, <1>6
<1>7. e.max_num_seqs >= 1 /\ e.max_model_len >= 1
  BY <1>3, <1>4, <1>5
<1>8. e.max_model_len > positions
      => args.max_model_len # None /\ args.max_model_len > positions
  BY <1>1, <1>2
<1> QED
  BY <1>3, <1>5, <1>6, <1>7, <1>8 DEF e

(* The limits in force have passed that validation (main.rs: serve).            *)
LEMMA LimitsFollow == StartInd => LimitsSafe
<1> SUFFICES ASSUME StartInd PROVE LimitsSafe
  OBVIOUS
<1>1. StartupTypeOK
  BY DEF StartInd
<1>2. ASSUME pc \in Up PROVE ServingConfigSafe /\ RopeExceededByFlagOnly
  <2>1. /\ effective = Effective(launch.args, meta.max_position_embeddings)
        /\ SchedulerOk(effective)
    BY <1>2 DEF StartInd, HasLimits
  <2>2. launch \in Launches /\ launch.command = "serve"
    BY <1>2 DEF StartInd, Launched, Up
  <2>3. ArgsTyped(launch.args) /\ DirTyped(launch.dir)
    BY <2>2, LaunchAssumption
  <2>4. ConfigReads(launch.dir) /\ meta = to_metadata(launch.dir.config)
    BY <1>2 DEF StartInd, HasMetadata, Loaded
  <2>5. meta.max_position_embeddings \in Nat
    BY <2>3, <2>4, LaunchAssumption DEF DirTyped, ConfigTyped, to_metadata, Or
  <2> QED
    BY <2>1, <2>3, <2>5, ValidLimits DEF ServingConfigSafe, RopeExceededByFlagOnly
<1> QED
  BY <1>1, <1>2 DEF LimitsSafe, ServingConfigSafe, RopeExceededByFlagOnly

(* Whatever the flags and the model, an engine only ever runs on limits that    *)
(* its scheduler can serve, and on a length past its model's rotary table only  *)
(* when --max-model-len asks for it (main.rs: serve).                           *)
THEOREM LimitsHold == Spec => []LimitsSafe
BY StartIndHolds, LimitsFollow, PTL

(* Whatever the order of signals, clients and faults, and whichever handlers    *)
(* could be installed, a shutdown cuts nobody off, and one that a signal began  *)
(* is not ended by another (main.rs: serve, shutdown_signal).                   *)
THEOREM ShutdownHolds == Spec => []ShutdownOrderly
<1>1. StartInd => ShutdownOrderly
  BY DEF StartInd, Orderly, ShutdownOrderly
<1> QED
  BY StartIndHolds, <1>1, PTL

-----------------------------------------------------------------------------
(* The first shard that holds a tensor is one only (CheckpointLoader::open).    *)
LEMMA OrderForgotten == StartInd => LoadOrderIrrelevant
<1> SUFFICES ASSUME StartInd, pc \in Loaded, NEW t \in DOMAIN weights
             PROVE  index[t] = CHOOSE i \in Shards :
                        /\ t \in DOMAIN launch.dir.files[i]
                        /\ \A j \in Shards : t \in DOMAIN launch.dir.files[j] => i <= j
  BY DEF LoadOrderIrrelevant
<1>1. /\ Indexes /\ paths = << >>
      /\ WeightsOk(launch.dir.files, index, launch.dir.config, meta)
      /\ weights = load(launch.dir.files, index, launch.dir.config, meta)
  BY DEF StartInd, HasIndex, HasWeights
<1>2. t \in DOMAIN index
  BY <1>1 DEF load, WeightsOk, Fits, contains
<1>3. Opened = Shards
  BY <1>1 DEF Opened, ToSet
<1>4. /\ index[t] \in Shards /\ t \in DOMAIN launch.dir.files[index[t]]
      /\ \A j \in Shards : t \in DOMAIN launch.dir.files[j] => index[t] <= j
  BY <1>1, <1>2, <1>3 DEF Indexes, FirstOf
<1>5. Shards \subseteq Nat
  <2>1. launch \in Launches /\ launch.command = "serve"
    BY DEF StartInd, Launched, Loaded, Up
  <2> QED
    BY <2>1, LaunchAssumption DEF DirTyped, Shards
<1>6. \A i, k \in Shards : i <= k /\ k <= i => i = k
  BY <1>5
<1> QED
  BY <1>4, <1>6

(* Loading checks every tensor it keeps (ModelWeights::load).                   *)
LEMMA LoadedShapes ==
    ASSUME NEW files, NEW idx, NEW config, NEW m, WeightsOk(files, idx, config, m)
    PROVE  LET w == load(files, idx, config, m)
               required == ModelShapes(config, m)
               optional == OptionalShapes(config, m)
           IN  /\ DOMAIN w \subseteq DOMAIN required \cup DOMAIN optional
               /\ \A t \in DOMAIN required : t \in DOMAIN w /\ w[t] = required[t]
               /\ \A t \in DOMAIN w \ DOMAIN required : w[t] = optional[t]
<1> DEFINE required == ModelShapes(config, m)
           optional == OptionalShapes(config, m)
           w == load(files, idx, config, m)
<1>1. /\ \A t \in DOMAIN required : TensorOf(files, idx, t).shape = required[t]
      /\ \A t \in DOMAIN optional :
            contains(idx, t) => TensorOf(files, idx, t).shape = optional[t]
  BY DEF WeightsOk, Fits
<1>2. /\ DOMAIN w = DOMAIN required \cup {t \in DOMAIN optional : contains(idx, t)}
      /\ \A t \in DOMAIN w : w[t] = TensorOf(files, idx, t).shape
  BY DEF load
<1> HIDE DEF required, optional, w
<1>3. /\ DOMAIN w \subseteq DOMAIN required \cup DOMAIN optional
      /\ \A t \in DOMAIN required : t \in DOMAIN w /\ w[t] = required[t]
      /\ \A t \in DOMAIN w \ DOMAIN required : w[t] = optional[t]
  BY <1>1, <1>2
<1> QED
  BY <1>3 DEF required, optional, w

(* The name of a layer's tensor is a pair, that of one of the model's own is    *)
(* not.                                                                         *)
LEMMA NamesDiffer == \A a, b, c : <<a, b>> # <<c>>
<1> SUFFICES ASSUME NEW a, NEW b, NEW c, <<a, b>> = <<c>> PROVE FALSE
  OBVIOUS
<1>1. Len(<<a, b>>) = 2 /\ Len(<<c>>) = 1
  OBVIOUS
<1> QED
  BY <1>1

(* What the names of a model's tensors stand for.                               *)
LEMMA ModelTensors ==
    ASSUME NEW config, NEW m
    PROVE  LET required == ModelShapes(config, m)
               layer == LayerShapes(config, m)
           IN  /\ <<"embed_tokens">> \in DOMAIN required
               /\ required[<<"embed_tokens">>] = <<m.vocab_size, m.hidden_size>>
               /\ <<"final_norm">> \in DOMAIN required
               /\ required[<<"final_norm">>] = <<m.hidden_size>>
               /\ <<"lm_head">> \notin DOMAIN required
               /\ \A i \in Layers(m), n \in DOMAIN layer :
                     <<i, n>> \in DOMAIN required /\ required[<<i, n>>] = layer[n]
               /\ \A i, n : <<i, n>> \in DOMAIN required => n \in DOMAIN layer
<1> DEFINE layer == LayerShapes(config, m)
           names == {<<"embed_tokens">>, <<"final_norm">>} \cup (Layers(m) \X DOMAIN layer)
           required == ModelShapes(config, m)
<1>1. /\ DOMAIN required = names
      /\ \A t \in names : required[t] = IF t = <<"embed_tokens">> THEN <<m.vocab_size, m.hidden_size>>
                                        ELSE IF t = <<"final_norm">> THEN <<m.hidden_size>>
                                        ELSE layer[t[2]]
  BY DEF ModelShapes
<1>2. <<"final_norm">> # <<"embed_tokens">> /\ <<"lm_head">> # <<"embed_tokens">>
      /\ <<"lm_head">> # <<"final_norm">>
  OBVIOUS
<1> HIDE DEF layer, required
<1>3. ASSUME NEW i \in Layers(m), NEW n \in DOMAIN layer
      PROVE  <<i, n>> \in DOMAIN required /\ required[<<i, n>>] = layer[n]
  BY <1>1, NamesDiffer
<1>4. \A i, n : <<i, n>> \in DOMAIN required => n \in DOMAIN layer
  BY <1>1, NamesDiffer
<1>5. <<"lm_head">> \notin DOMAIN required
  BY <1>1, <1>2, NamesDiffer
<1>6. /\ <<"embed_tokens">> \in DOMAIN required
      /\ required[<<"embed_tokens">>] = <<m.vocab_size, m.hidden_size>>
      /\ <<"final_norm">> \in DOMAIN required
      /\ required[<<"final_norm">>] = <<m.hidden_size>>
  BY <1>1, <1>2
<1> QED
  BY <1>3, <1>4, <1>5, <1>6 DEF layer, required

(* What the names of the optional tensors stand for.                            *)
LEMMA OptionalTensors ==
    ASSUME NEW config, NEW m
    PROVE  LET optional == OptionalShapes(config, m)
               bias == BiasShapes(m)
           IN  /\ <<"lm_head">> \in DOMAIN optional
                  => optional[<<"lm_head">>] = <<m.vocab_size, m.hidden_size>>
               /\ \A i, n : <<i, n>> \in DOMAIN optional
                            => n \in DOMAIN bias /\ optional[<<i, n>>] = bias[n]
<1> DEFINE bias == BiasShapes(m)
           biases == IF has_qkv_bias(m.architecture) THEN Layers(m) \X DOMAIN bias ELSE {}
           heads == IF config.tie_word_embeddings THEN {} ELSE {<<"lm_head">>}
           optional == OptionalShapes(config, m)
<1>1. /\ DOMAIN optional = biases \cup heads
      /\ \A t \in biases \cup heads :
            optional[t] = IF t = <<"lm_head">> THEN <<m.vocab_size, m.hidden_size>> ELSE bias[t[2]]
  BY DEF OptionalShapes
<1>2. biases \subseteq Layers(m) \X DOMAIN bias /\ heads \subseteq {<<"lm_head">>}
  OBVIOUS
<1> HIDE DEF bias, biases, heads, optional
<1>3. ASSUME NEW i, NEW n, <<i, n>> \in DOMAIN optional
      PROVE  n \in DOMAIN bias /\ optional[<<i, n>>] = bias[n]
  <2>1. <<i, n>> \in biases
    BY <1>1, <1>2, <1>3, NamesDiffer
  <2> QED
    BY <1>1, <1>2, <2>1, NamesDiffer
<1>4. <<"lm_head">> \in DOMAIN optional
      => optional[<<"lm_head">>] = <<m.vocab_size, m.hidden_size>>
  BY <1>1
<1> QED
  BY <1>3, <1>4 DEF bias, optional

(* A layer whose tensors have the shapes that were asked for runs.              *)
LEMMA LayersRun ==
    ASSUME NEW config, NEW m, NEW w, NEW i \in Layers(m),
           m.hidden_size # 0, w[<<"embed_tokens">>] = <<m.vocab_size, m.hidden_size>>,
           \A n \in DOMAIN LayerShapes(config, m) : w[<<i, n>>] = LayerShapes(config, m)[n],
           \A n : <<i, n>> \in DOMAIN w
                  => \/ n \in DOMAIN LayerShapes(config, m)
                     \/ n \in DOMAIN BiasShapes(m) /\ w[<<i, n>>] = BiasShapes(m)[n]
    PROVE  LayerRuns(w, m, i)
<1>1. PICK hidden, ffn, heads, kv : /\ hidden = m.hidden_size /\ ffn = ffn_dim(config)
                                    /\ heads = m.num_attention_heads * m.head_dim
                                    /\ kv = m.num_kv_heads * m.head_dim
  OBVIOUS
<1>2. LayerShapes(config, m) =
         [input_norm |-> <<hidden>>, post_attn_norm |-> <<hidden>>,
          q_proj |-> <<heads, hidden>>, k_proj |-> <<kv, hidden>>,
          v_proj |-> <<kv, hidden>>, o_proj |-> <<hidden, heads>>,
          gate_proj |-> <<ffn, hidden>>, up_proj |-> <<ffn, hidden>>,
          down_proj |-> <<hidden, ffn>>]
  BY <1>1 DEF LayerShapes
<1>3. BiasShapes(m) = [q_bias |-> <<heads>>, k_bias |-> <<kv>>, v_bias |-> <<kv>>]
  BY <1>1 DEF BiasShapes
<1>4. /\ w[<<i, "input_norm">>] = <<hidden>> /\ w[<<i, "post_attn_norm">>] = <<hidden>>
      /\ w[<<i, "q_proj">>] = <<heads, hidden>> /\ w[<<i, "k_proj">>] = <<kv, hidden>>
      /\ w[<<i, "v_proj">>] = <<kv, hidden>> /\ w[<<i, "o_proj">>] = <<hidden, heads>>
      /\ w[<<i, "gate_proj">>] = <<ffn, hidden>> /\ w[<<i, "up_proj">>] = <<ffn, hidden>>
      /\ w[<<i, "down_proj">>] = <<hidden, ffn>>
  BY <1>2
<1>5. /\ BiasOf(w, i, "q_bias") \in {<< >>, <<heads>>}
      /\ BiasOf(w, i, "k_bias") \in {<< >>, <<kv>>}
      /\ BiasOf(w, i, "v_bias") \in {<< >>, <<kv>>}
  <2>1. {"q_bias", "k_bias", "v_bias"} \cap DOMAIN LayerShapes(config, m) = {}
    BY <1>2
  <2>2. /\ <<i, "q_bias">> \in DOMAIN w => w[<<i, "q_bias">>] = <<heads>>
        /\ <<i, "k_bias">> \in DOMAIN w => w[<<i, "k_bias">>] = <<kv>>
        /\ <<i, "v_bias">> \in DOMAIN w => w[<<i, "v_bias">>] = <<kv>>
    BY <1>3, <2>1
  <2> QED
    BY <2>2 DEF BiasOf
<1>6. w[<<"embed_tokens">>][2] = hidden
  BY <1>1
<1>7. \A a : <<a>>[1] = a
  OBVIOUS
<1>8. \A a, b : <<a, b>>[1] = a /\ <<a, b>>[2] = b
  OBVIOUS
<1>9. /\ LinearOk(hidden, <<heads, hidden>>, BiasOf(w, i, "q_bias"))
      /\ LinearOk(hidden, <<kv, hidden>>, BiasOf(w, i, "k_bias"))
      /\ LinearOk(hidden, <<kv, hidden>>, BiasOf(w, i, "v_bias"))
  BY <1>5, <1>7, <1>8 DEF LinearOk
<1> QED
  BY <1>1, <1>4, <1>6, <1>8, <1>9 DEF LayerRuns, LinearOk, NormOk, SwigluOk

(* A model that was loaded can run (ModelWeights::load, layer_forward).         *)
LEMMA LoadedRuns == StartInd => LoadedModelRuns
<1> SUFFICES ASSUME StartInd, pc \in Loaded, meta.hidden_size # 0
             PROVE  ForwardRuns(weights, meta)
  BY DEF LoadedModelRuns
<1>1. PICK config : config = launch.dir.config
  OBVIOUS
<1>2. /\ WeightsOk(launch.dir.files, index, config, meta)
      /\ weights = load(launch.dir.files, index, config, meta)
      /\ RopeOk(meta)
  BY <1>1 DEF StartInd, HasWeights
<1>3. MetadataOk(config) /\ meta = to_metadata(config)
  BY <1>1 DEF StartInd, HasMetadata
<1>4. PICK required, optional : /\ required = ModelShapes(config, meta)
                                /\ optional = OptionalShapes(config, meta)
  OBVIOUS
<1>5. /\ DOMAIN weights \subseteq DOMAIN required \cup DOMAIN optional
      /\ \A t \in DOMAIN required : t \in DOMAIN weights /\ weights[t] = required[t]
      /\ \A t \in DOMAIN weights \ DOMAIN required : weights[t] = optional[t]
  BY <1>2, <1>4, LoadedShapes
<1>6. /\ <<"embed_tokens">> \in DOMAIN required
      /\ required[<<"embed_tokens">>] = <<meta.vocab_size, meta.hidden_size>>
      /\ <<"final_norm">> \in DOMAIN required
      /\ required[<<"final_norm">>] = <<meta.hidden_size>>
      /\ <<"lm_head">> \notin DOMAIN required
      /\ \A i \in Layers(meta), n \in DOMAIN LayerShapes(config, meta) :
            <<i, n>> \in DOMAIN required /\ required[<<i, n>>] = LayerShapes(config, meta)[n]
      /\ \A i, n : <<i, n>> \in DOMAIN required => n \in DOMAIN LayerShapes(config, meta)
  BY <1>4, ModelTensors
<1>7. /\ <<"lm_head">> \in DOMAIN optional
         => optional[<<"lm_head">>] = <<meta.vocab_size, meta.hidden_size>>
      /\ \A i, n : <<i, n>> \in DOMAIN optional
                   => n \in DOMAIN BiasShapes(meta) /\ optional[<<i, n>>] = BiasShapes(meta)[n]
  BY <1>4, OptionalTensors
<1>8. /\ weights[<<"embed_tokens">>] = <<meta.vocab_size, meta.hidden_size>>
      /\ weights[<<"final_norm">>] = <<meta.hidden_size>>
  BY <1>5, <1>6
<1>9. HeadOf(weights) = <<meta.vocab_size, meta.hidden_size>>
  <2>1. <<"lm_head">> \in DOMAIN weights
        => weights[<<"lm_head">>] = <<meta.vocab_size, meta.hidden_size>>
    BY <1>5, <1>6, <1>7
  <2> QED
    BY <1>8, <2>1 DEF HeadOf
<1>10. ASSUME NEW i \in Layers(meta) PROVE LayerRuns(weights, meta, i)
  <2>1. \A n \in DOMAIN LayerShapes(config, meta) :
            weights[<<i, n>>] = LayerShapes(config, meta)[n]
    BY <1>5, <1>6
  <2>2. \A n : <<i, n>> \in DOMAIN weights
               => \/ n \in DOMAIN LayerShapes(config, meta)
                  \/ n \in DOMAIN BiasShapes(meta) /\ weights[<<i, n>>] = BiasShapes(meta)[n]
    BY <1>5, <1>6, <1>7
  <2> QED
    BY <1>8, <2>1, <2>2, LayersRun
<1>11. meta.num_attention_heads % meta.num_kv_heads = 0
  BY <1>3 DEF MetadataOk, to_metadata
<1> QED
  BY <1>2, <1>8, <1>9, <1>10, <1>11 DEF ForwardRuns, NormOk, LinearOk, RopeOk

(* A checkpoint of at least one hidden feature that loads can be run, whatever  *)
(* its files hold, and two loads of one directory give the same weights         *)
(* (CheckpointLoader, ModelWeights).                                            *)
THEOREM CheckpointHolds == Spec => []CheckpointSound
<1>1. StartInd => CheckpointSound
  BY OrderForgotten, LoadedRuns DEF CheckpointSound
<1> QED
  BY StartIndHolds, <1>1, PTL
=============================================================================
