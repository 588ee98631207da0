--------------------------- MODULE Configuration ---------------------------
(* Validation of the engine configuration (orion-core) and how the command line *)
(* fills it in (orion-cli).  None is an option without a value.                 *)
EXTENDS Integers

CONSTANT None

is_power_of_two(n) == \E k \in 0..8 : n = 2 ^ k

CacheOk(c) == /\ is_power_of_two(c.block_size)
              /\ c.block_size \in 4..256
              /\ c.gpu_memory_utilization[1] > 0
              /\ c.gpu_memory_utilization[1] <= c.gpu_memory_utilization[2]
              /\ c.num_blocks # 0

SchedulerOk(s) ==
    /\ s.max_num_seqs # 0
    /\ s.max_num_batched_tokens # 0
    /\ s.max_num_batched_tokens >= s.max_num_seqs
    /\ s.max_model_len # None =>
          /\ s.max_model_len # 0
          /\ ~s.enable_chunked_prefill => s.max_model_len <= s.max_num_batched_tokens
    /\ s.max_waiting_requests # 0
    /\ s.request_timeout_secs # 0

(* A host of blanks only, which trim() makes empty.                             *)
Blank == {"", " "}

ServerOk(s) == /\ s.host \notin Blank
               /\ s.port # 0
               /\ s.max_request_bytes >= 1024
               /\ s.max_concurrent_requests # 0

ConfigOk(config) ==
    /\ CacheOk(config.cache)
    /\ SchedulerOk(config.scheduler)
    /\ ServerOk(config.server)
    /\ ~(config.scheduler.preemption_mode = "swap" /\ config.cache.num_cpu_swap_blocks = 0)

DefaultCache ==
    [block_size |-> 16, num_blocks |-> None, enable_prefix_caching |-> TRUE,
     gpu_memory_utilization |-> <<9, 10>>, num_cpu_swap_blocks |-> 0]

DefaultScheduler ==
    [max_num_seqs |-> 256, max_num_batched_tokens |-> 8192, max_model_len |-> None,
     enable_chunked_prefill |-> TRUE, max_waiting_requests |-> 1024,
     preemption_mode |-> "recompute", request_timeout_secs |-> 300, prioritize_decode |-> TRUE]

DefaultServer ==
    [host |-> "127.0.0.1", port |-> 8000, max_request_bytes |-> 4194304,
     max_concurrent_requests |-> 1024, shutdown_grace_secs |-> 30, enable_metrics |-> TRUE]

(* What serve builds from its flags; the rest are the defaults.  The flag for   *)
(* the prefix cache, which no check reads, is left out.                         *)
FromArgs(args) ==
    [cache |-> [DefaultCache EXCEPT !.block_size = args.block_size,
                                    !.num_blocks = args.num_blocks],
     scheduler |-> [DefaultScheduler EXCEPT
                       !.max_num_seqs = args.max_num_seqs,
                       !.max_num_batched_tokens = args.max_num_batched_tokens,
                       !.max_model_len = args.max_model_len,
                       !.enable_chunked_prefill = args.chunked_prefill],
     server |-> [DefaultServer EXCEPT !.host = args.host, !.port = args.port]]

EffectiveLen(args, max_position_embeddings) ==
    IF args.max_model_len = None THEN max_position_embeddings ELSE args.max_model_len

(* The scheduler's configuration once the model's context length is known.      *)
Effective(args, max_position_embeddings) ==
    [FromArgs(args).scheduler EXCEPT
        !.max_model_len = EffectiveLen(args, max_position_embeddings)]
=============================================================================
