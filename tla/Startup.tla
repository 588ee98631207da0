------------------------------ MODULE Startup ------------------------------
(* The life of the orion process (orion-cli): flags, model directory, engine    *)
(* thread, HTTP server, signals and the exit code.  A step is one stage of      *)
(* serve() up to its next early return.  Clients and signals act at any time;   *)
(* the engine thread is its command channel and whether it runs.  A request is  *)
(* "idle", then "arriving" until its body is complete, "open" while the engine  *)
(* has it, "answered" while its response goes out, and "delivered"; a client    *)
(* that hangs up leaves it "gone", an engine that goes away leaves it "cut".    *)
EXTENDS Configuration, Checkpoint, SequencesExt

CONSTANTS Launches,   \* [command, args, dir]: the ways the process is started
          Requests    \* the HTTP requests that may arrive

(* A model directory: a config.json that reads has lengths that are usize; the  *)
(* shards are finitely many.                                                    *)
ConfigTyped(config) == config.max_position_embeddings \in Nat \cup {Absent}
DirTyped(dir) ==
    /\ ConfigReads(dir) => ConfigTyped(dir.config)
    /\ IsFiniteSet(DOMAIN dir.files) /\ DOMAIN dir.files \subseteq Nat

(* The flags are usize, as clap parses them.                                    *)
ArgsTyped(args) ==
    /\ args.max_num_seqs \in Nat /\ args.max_num_batched_tokens \in Nat
    /\ args.max_model_len \in Nat \cup {None}
    /\ args.chunked_prefill \in BOOLEAN

ASSUME LaunchAssumption ==
    /\ None \notin Int /\ DefaultPositions \in Nat
    /\ \A l \in Launches : l.command = "serve" => ArgsTyped(l.args) /\ DirTyped(l.dir)

VARIABLES launch,     \* what was started
          pc,         \* the stage
          paths,      \* the shards still to open, in order
          index,      \* tensor name -> shard
          meta,       \* the model's metadata, once read
          weights,    \* the shapes of the loaded weights
          effective,  \* the scheduler's configuration in force
          engine,     \* "none", "running", "stopped"
          handled,    \* the signals for which a handler is installed
          waiter,     \* shutdown_signal(): "unpolled", "waiting", "resolved"
          asked,      \* a signal has resolved shutdown_signal()
          reqs,       \* request -> how far it got
          result,     \* what the server returned: "none", "ok", "error"
          code        \* "none" or one of Exits

loading == <<paths, index, meta, weights, effective>>
signals == <<handled, waiter, asked>>
serving == <<engine, signals, reqs, result>>
vars == <<launch, pc, loading, serving, code>>

Empty == [t \in {} |-> 0]
Exits == {"success", "failure", "killed"}
Signals == {"SIGINT", "SIGTERM"}

Init ==
    /\ launch \in Launches
    /\ pc = "start"
    /\ paths = << >> /\ index = Empty /\ meta = Empty /\ weights = Empty /\ effective = Empty
    /\ engine = "none" /\ result = "none" /\ code = "none"
    /\ handled = {} /\ waiter = "unpolled" /\ asked = FALSE
    /\ reqs = [r \in Requests |-> "idle"]

Goto(stage) == pc' = stage /\ UNCHANGED code
Exit(status) == pc' = "exited" /\ code' = status

(* A stage that returns early with an error, or goes on. *)
Stage(from, ok, to) ==
    /\ pc = from
    /\ IF ok THEN Goto(to) ELSE Exit("failure")

-----------------------------------------------------------------------------
inspect ==
    /\ pc = "start" /\ launch.command = "inspect"
    /\ Exit(IF ConfigReads(launch.dir) /\ MetadataOk(launch.dir.config)
            THEN "success" ELSE "failure")
    /\ UNCHANGED <<launch, loading, serving>>

Validate ==
    /\ launch.command = "serve"
    /\ Stage("start", ConfigOk(FromArgs(launch.args)), "metrics")
    /\ UNCHANGED <<launch, loading, serving>>

install_metrics ==
    /\ \E installed \in BOOLEAN : Stage("metrics", installed, "config")
    /\ UNCHANGED <<launch, loading, serving>>

ReadConfig ==
    LET ok == ConfigReads(launch.dir) /\ MetadataOk(launch.dir.config)
    IN  /\ Stage("config", ok, "list")
        /\ meta' = IF ok THEN to_metadata(launch.dir.config) ELSE meta
        /\ UNCHANGED <<launch, paths, index, weights, effective, serving>>

Shards == DOMAIN launch.dir.files

Increasing(s) == \A a, b \in DOMAIN s : a < b => s[a] < s[b]

(* read_dir yields the names in no particular order; sort leaves the listing    *)
(* that increases.                                                              *)
ListShards ==
    /\ Stage("list", Shards # {}, "open")
    /\ \E listing \in SetToSeqs(Shards) : Increasing(listing) /\ paths' = listing
    /\ UNCHANGED <<launch, index, meta, weights, effective, serving>>

OpenShard ==
    /\ paths # << >>
    /\ LET i == Head(paths)
           shard == launch.dir.files[i]
       IN  /\ Stage("open", shard # Corrupt, "open")
           /\ index' = IF shard # Corrupt THEN Indexed(index, i, shard) ELSE index
    /\ paths' = Tail(paths)
    /\ UNCHANGED <<launch, meta, weights, effective, serving>>

LoadWeights ==
    LET config == launch.dir.config
        ok == WeightsOk(launch.dir.files, index, config, meta)
    IN  /\ paths = << >>
        /\ Stage("open", ok, "assemble")
        /\ weights' = IF ok THEN load(launch.dir.files, index, config, meta) ELSE weights
        /\ UNCHANGED <<launch, paths, index, meta, effective, serving>>

Assemble ==
    /\ Stage("assemble", RopeOk(meta), "tokenizer")
    /\ UNCHANGED <<launch, loading, serving>>

LoadTokenizer ==
    /\ Stage("tokenizer", launch.dir.tokenizer, "limits")
    /\ UNCHANGED <<launch, loading, serving>>

(* The limits are validated again: the model's own length was not known before. *)
SetLimits_Trusted ==
    /\ Stage("limits", TRUE, "spawn")
    /\ effective' = Effective(launch.args, meta.max_position_embeddings)
    /\ UNCHANGED <<launch, paths, index, meta, weights, serving>>

SetLimits ==
    LET scheduler == Effective(launch.args, meta.max_position_embeddings)
    IN  /\ Stage("limits", SchedulerOk(scheduler), "spawn")
        /\ effective' = scheduler
        /\ UNCHANGED <<launch, paths, index, meta, weights, serving>>

Spawn ==
    /\ pc = "spawn"
    /\ Goto("runtime")
    /\ engine' = "running"
    /\ UNCHANGED <<launch, loading, signals, reqs, result>>

BuildRuntime ==
    /\ \E built \in BOOLEAN :
          /\ Stage("runtime", built, "bind")
          /\ engine' = IF built THEN engine ELSE "stopped"
    /\ UNCHANGED <<launch, loading, signals, reqs, result>>

(* A failed bind still stops the engine before it is reported.                  *)
Bind ==
    /\ pc = "bind"
    /\ \/ Goto("bound") /\ UNCHANGED result
       \/ Goto("stop") /\ result' = "error"
    /\ UNCHANGED <<launch, loading, engine, signals, reqs>>

(* axum::serve runs; the task that awaits shutdown_signal() is only spawned.    *)
Listen ==
    /\ pc = "bound"
    /\ Goto("serving")
    /\ UNCHANGED <<launch, loading, serving>>

(* The first poll of shutdown_signal() installs both handlers, in either order. *)
(* One that cannot be installed ends its branch, and with it the select, there  *)
(* and then: the other may be installed already or never be.                    *)
AwaitSignal ==
    /\ pc = "serving" /\ waiter = "unpolled"
    /\ \/ handled' = Signals /\ waiter' = "waiting"
       \/ \E failing \in Signals, first \in SUBSET Signals :
             /\ failing \notin first
             /\ handled' = first /\ waiter' = "resolved"
    /\ UNCHANGED <<launch, pc, loading, engine, asked, reqs, result, code>>

StopAccepting ==
    /\ pc = "serving" /\ waiter = "resolved"
    /\ Goto("draining")
    /\ UNCHANGED <<launch, loading, serving>>

Drained_AtOnce ==
    /\ pc = "draining"
    /\ Goto("stop")
    /\ result' = "ok"
    /\ UNCHANGED <<launch, loading, engine, signals, reqs>>

Drained_CountsHangups ==
    /\ pc = "draining"
    /\ \A r \in Requests : reqs[r] \in {"idle", "delivered"}
    /\ Goto("stop")
    /\ result' = "ok"
    /\ UNCHANGED <<launch, loading, engine, signals, reqs>>

(* with_graceful_shutdown returns when no request is in flight any more.        *)
Drained ==
    /\ pc = "draining"
    /\ \A r \in Requests : reqs[r] \notin {"arriving", "open", "answered"}
    /\ Goto("stop")
    /\ result' = "ok"
    /\ UNCHANGED <<launch, loading, engine, signals, reqs>>

(* engine.shutdown() sends the command; the thread takes it and returns, which  *)
(* drops the sender of every request it still serves.                           *)
StopEngine ==
    /\ pc = "stop"
    /\ Goto("join")
    /\ UNCHANGED <<launch, loading, serving>>

EngineStops ==
    /\ pc = "join" /\ engine = "running"
    /\ engine' = "stopped"
    /\ reqs' = [r \in Requests |-> IF reqs[r] = "open" THEN "cut" ELSE reqs[r]]
    /\ UNCHANGED <<launch, pc, loading, signals, result, code>>

Join ==
    /\ pc = "join" /\ engine = "stopped"
    /\ Exit(IF result = "ok" THEN "success" ELSE "failure")
    /\ UNCHANGED <<launch, loading, serving>>

-----------------------------------------------------------------------------
(* A signal without a handler is fatal.  With one, the first resolves           *)
(* shutdown_signal() and later ones change nothing.                             *)
Signal(s) ==
    /\ pc # "exited"
    /\ \/ /\ s \in handled /\ waiter = "waiting"
          /\ waiter' = "resolved" /\ asked' = TRUE
          /\ UNCHANGED <<pc, code, engine>>
       \/ /\ s \notin handled
          /\ Exit("killed")
          /\ engine' = IF engine = "running" THEN "stopped" ELSE engine
          /\ UNCHANGED <<waiter, asked>>
    /\ UNCHANGED <<launch, loading, handled, reqs, result>>

Moves(r, from, to) ==
    /\ pc # "exited"
    /\ reqs[r] \in from
    /\ reqs' = [reqs EXCEPT ![r] = to]
    /\ UNCHANGED <<launch, pc, loading, engine, signals, result, code>>

(* A client begins a request, and completes it when it likes: the Json extractor *)
(* waits for the body without a deadline.  What is then refused, or is not for  *)
(* the engine, is answered at once.                                             *)
Connect(r) == pc = "serving" /\ Moves(r, {"idle"}, "arriving")
Sends(r) == Moves(r, {"arriving"}, "open") \/ Moves(r, {"arriving"}, "answered")
(* The request finishes, fails or runs into its timeout.                        *)
EngineAnswers(r) == engine = "running" /\ Moves(r, {"open"}, "answered")
Deliver(r) == Moves(r, {"answered"}, "delivered")
Hangup(r) == Moves(r, {"arriving", "open", "answered"}, "gone")

Process == \/ inspect \/ Validate \/ install_metrics \/ ReadConfig \/ ListShards \/ OpenShard
           \/ LoadWeights \/ Assemble \/ LoadTokenizer \/ SetLimits \/ Spawn \/ BuildRuntime
           \/ Bind \/ Listen \/ AwaitSignal \/ StopAccepting \/ Drained \/ StopEngine \/ Join

Clients == \E r \in Requests : Connect(r) \/ Sends(r) \/ Deliver(r) \/ Hangup(r)

Next == \/ Process \/ EngineStops \/ Clients
        \/ \E s \in Signals : Signal(s)
        \/ \E r \in Requests : EngineAnswers(r)

(* The process and the engine thread are scheduled; a request the engine has    *)
(* ends, by its timeout if by nothing else.  Nothing is assumed of clients, who *)
(* may never send the rest of a request or read a response, or of signals.      *)
Fairness == /\ WF_vars(Process)
            /\ WF_vars(EngineStops)
            /\ \A r \in Requests : WF_vars(EngineAnswers(r))

Spec == Init /\ [][Next]_vars /\ Fairness

-----------------------------------------------------------------------------
Up == {"runtime", "bind", "bound", "serving", "draining", "stop", "join"}
Loaded == Up \cup {"tokenizer", "limits", "spawn"}

(* Type invariant of the process's own state. *)
StartupTypeOK ==
    /\ pc \in {"start", "metrics", "config", "list", "open", "assemble", "exited"} \cup Loaded
    /\ engine \in {"none", "running", "stopped"}
    /\ code \in {"none"} \cup Exits
    /\ (pc = "exited") <=> (code \in Exits)
    /\ (pc \in Up \ {"join"}) => engine = "running"
    /\ handled \subseteq Signals
    /\ waiter \in {"unpolled", "waiting", "resolved"} /\ asked \in BOOLEAN
    /\ reqs \in [Requests -> {"idle", "arriving", "open", "answered", "delivered", "gone", "cut"}]

(* An engine never runs on limits under which a request it accepts could not be *)
(* scheduled: a token for every running sequence, and without chunked prefill a *)
(* prompt of the greatest length, in one step (main.rs: serve validates twice). *)
ServingConfigSafe ==
    (pc \in Up)
    => /\ effective.max_num_seqs >= 1
       /\ effective.max_num_batched_tokens >= effective.max_num_seqs
       /\ effective.max_model_len >= 1
       /\ \A len \in 1 .. effective.max_model_len :
             effective.enable_chunked_prefill \/ len <= effective.max_num_batched_tokens

(* "The model's own context length bounds requests unless the operator set a    *)
(* smaller one explicitly".  The code does not compare the two, so what holds   *)
(* is less: a position past the model's rotary table is only ever accepted for  *)
(* an operator who has set a greater length (main.rs: serve; tensor.rs:         *)
(* RopeTable::at fails there in the middle of a generation).                    *)
RopeExceededByFlagOnly ==
    (pc \in Up /\ effective.max_model_len > meta.max_position_embeddings)
    => /\ launch.args.max_model_len # None
       /\ launch.args.max_model_len > meta.max_position_embeddings

(* A model that loads can run, if it has hidden features at all: no shape check *)
(* of the forward pass can fail, and no elementwise sum stops short             *)
(* (ModelWeights::load against layer_forward).                                  *)
LoadedModelRuns == (pc \in Loaded /\ meta.hidden_size # 0) => ForwardRuns(weights, meta)

(* A tensor that several shards hold comes from the first of them by name,      *)
(* whatever the order the directory is read in (CheckpointLoader::open).        *)
LoadOrderIrrelevant ==
    (pc \in Loaded)
    => \A t \in DOMAIN weights :
          index[t] = CHOOSE i \in Shards :
                        /\ t \in DOMAIN launch.dir.files[i]
                        /\ \A j \in Shards : t \in DOMAIN launch.dir.files[j] => i <= j

(* No request the server took is cut off by the engine going away: the engine   *)
(* is told to stop only once every response is out (main.rs: serve).            *)
NoRequestCutShort == \A r \in Requests : reqs[r] # "cut"

(* A server that exits with a failure has taken no request; one that exits with *)
(* success leaves nobody waiting; one that a signal kills while clients are     *)
(* connected was not shutting down because of an earlier signal: once a signal  *)
(* is accepted no other can end the drain (main.rs: serve, shutdown_signal).    *)
ExitCodeExact ==
    (pc = "exited" /\ launch.command = "serve")
    => /\ code = "failure" => reqs = [r \in Requests |-> "idle"]
       /\ code = "success" => \A r \in Requests : reqs[r] \in {"idle", "delivered", "gone"}
       /\ asked => code = "success"

(* After a signal the server exits, unless it waits for clients that will not   *)
(* send the rest of a request or read a finished response (axum's graceful      *)
(* shutdown has no deadline).                                                   *)
SignalEndsServer ==
    (asked /\ pc = "serving")
    ~> \/ pc = "exited"
       \/ /\ pc = "draining"
          /\ \E r \in Requests : reqs[r] \in {"arriving", "answered"}
          /\ \A r \in Requests : reqs[r] # "open"

(* The limits a server runs with are safe for its scheduler, and those it finds *)
(* by itself also for its model; a length set by hand may not be.               *)
LimitsSafe == StartupTypeOK /\ ServingConfigSafe /\ RopeExceededByFlagOnly

(* What was loaded can run, and does not depend on the order of the directory.  *)
CheckpointSound == LoadedModelRuns /\ LoadOrderIrrelevant

(* A shutdown cuts nobody off and is reported as it went.                       *)
ShutdownOrderly == NoRequestCutShort /\ ExitCodeExact
=============================================================================
