------------------------------ MODULE BlockHash ------------------------------
(***************************************************************************)
(* Exact cache keys (engine_events/vllm_hash.py): a request is turned into *)
(* token IDs by the engine's /tokenize and into the chained hashes of its  *)
(* full blocks; the router looks those keys up in the index of the blocks  *)
(* that the engine reports under the same hashes (cache_provider.go        *)
(* Match).  vLLM's hash is external and taken to be free of collisions: it *)
(* is the sequence of blocks it is computed from.                          *)
(***************************************************************************)
EXTENDS Integers, Sequences, FiniteSetsExt

CONSTANTS
    Tokens, MaxTokens,      \* token IDs, and the longest prompt
    block_size,
    MaxStored               \* bound: prompts the engine has in its cache

ASSUME BlockAssumption == block_size \in Nat \ {0} /\ MaxTokens \in Nat

VARIABLES prompts, asked    \* cached by the engine; looked up

NoneHash == <<>>

hash_block_tokens(parent, block) == Append(parent, block)

Block(tokens, i) == SubSeq(tokens, (i - 1) * block_size + 1, i * block_size)

full_blocks(tokens) == Len(tokens) \div block_size

\* Mutant: a block is hashed without its parent.
hash_tokens_Unchained(tokens) ==
    [i \in 1 .. full_blocks(tokens) |-> hash_block_tokens(NoneHash, Block(tokens, i))]

\* The parent of a block is the hash of the one before; a last, partial block has no key.
hash_tokens(tokens) ==
    LET parent[i \in 0 .. full_blocks(tokens)] ==
            IF i = 0 THEN NoneHash ELSE hash_block_tokens(parent[i - 1], Block(tokens, i))
    IN  [i \in 1 .. full_blocks(tokens) |-> parent[i]]

\* Extra inputs of the engine's hash and content that is no text are refused, and so are an
\* error or ill-formed IDs of /tokenize: the gateway goes on without keys.
resolve(request) ==
    IF request.supported /\ request.tokenized THEN hash_tokens(request.tokens) ELSE <<>>

\* What the engine reports as stored.
Index == UNION {{hash_tokens(t)[i] : i \in 1 .. full_blocks(t)} : t \in prompts}

\* Match walks the keys up to the first one that is not indexed.
Match(keys) == Max({n \in 0 .. Len(keys) : \A i \in 1 .. n : keys[i] \in Index})

-----------------------------------------------------------------------------
Prompts == UNION {[1 .. n -> Tokens] : n \in 0 .. MaxTokens}

HashRequests == [tokens : Prompts, supported : BOOLEAN, tokenized : BOOLEAN]

HashInit == prompts = {} /\ asked \in HashRequests

HashNext == /\ Cardinality(prompts) < MaxStored
            /\ \E t \in Prompts : prompts' = prompts \cup {t}
            /\ UNCHANGED asked

HashSpec == HashInit /\ [][HashNext]_<<prompts, asked>>

-----------------------------------------------------------------------------
\* The leading tokens two prompts have in common.
Common(s, t) == Max({n \in 0 .. Min({Len(s), Len(t)}) : \A i \in 1 .. n : s[i] = t[i]})

\* "Exact" hash alignment: the blocks found for a request are the whole blocks it has in
\* common with the beginning of one single cached prompt, never pieces of several or a
\* partial block, and none are found for a request whose hashes the engine computes from
\* more than its tokens (hash_tokens, _validate_supported_request).
MatchIsPrefix ==
    Match(resolve(asked)) =
        IF ~(asked.supported /\ asked.tokenized) THEN 0
        ELSE Max({0} \cup {Common(asked.tokens, t) \div block_size : t \in prompts})
=============================================================================
