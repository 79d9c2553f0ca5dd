----------------------------- MODULE MCExporter -----------------------------
(***************************************************************************)
(* Exporter of a vLLM backend whose page is complete or has lost its block *)
(* metrics and a counter, and of an SGLang backend that shows token counts *)
(* or blocks.                                                              *)
(***************************************************************************)
EXTENDS Exporter, TLC

Vllm(metrics) == [type |-> "vllm", metrics |-> metrics]

SGLang(metrics) == [type |-> "sglang", metrics |-> metrics]

MCMetrics ==
    [full   |-> Vllm("total" :> 100 @@ "active" :> 95 @@ "reusable" :> 3 @@ "free" :> 2
                     @@ "duplicate" :> 20 @@ "usage" :> 95 @@ "prefix_hits" :> 1
                     @@ "prefix_queries" :> 10 @@ "waiting" :> 4 @@ "running" :> 0),
     part   |-> Vllm("usage" :> 40 @@ "prefix_hits" :> 5 @@ "waiting" :> 0),
     tokens |-> SGLang("max_tokens" :> 1600 @@ "used_tokens" :> 800 @@ "cached_tokens" :> 40
                       @@ "prompt_tokens" :> 100),
     blocks |-> SGLang("total" :> 100 @@ "active" :> 50 @@ "reusable" :> 50 @@ "free" :> 0
                       @@ "prefix_hits" :> 4 @@ "prefix_queries" :> 10)]
=============================================================================
