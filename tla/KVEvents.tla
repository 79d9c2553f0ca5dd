------------------------------ MODULE KVEvents -------------------------------
(***************************************************************************)
(* Native cache evidence from the engine to the gateway: a vLLM engine     *)
(* publishes numbered batches of block events; the sidecar bridge          *)
(* (engine_events/vllm.py) receives or replays them, posts their events    *)
(* one by one to /v1/admin/cache-events and then checkpoints the batch;    *)
(* the gateway's KVEventProvider applies each post in one critical         *)
(* section.  Live batches may be lost, the bridge, the engine and the      *)
(* gateway may die between any two steps, a post may be applied long after *)
(* its sender has given up, and the bridge is started again with the same  *)
(* or with a new --generation.                                             *)
(*                                                                         *)
(* An event of the engine carries the set of blocks that are resident      *)
(* after it, and `origin' the boots a generation was replayed or taken from: *)
(* both are only read by properties.  Timestamps of batches are ordered as *)
(* the boots they come from.                                               *)
(***************************************************************************)
EXTENDS KVEventProvider

CONSTANTS
    Backend,        \* the backend the bridge serves
    MaxEntries,     \* capacities of the index that are tried
    BufferSteps,    \* batches the engine keeps for replay
    MayLose,        \* live batches may be lost
    MaxEpochs,      \* bound: starts of the engine and values of --generation
    MaxEvents,      \* bound: events the engine publishes, over all its boots
    MaxLate         \* bound: posts that outlive their sender at one time

NoBlock == "none"

ASSUME KVAssumption ==
    /\ NoBlock \notin Blocks
    /\ Backend \in Backends /\ MaxEntries \subseteq Nat \ {0}
    /\ BufferSteps \in Nat \ {0} /\ MayLose \in BOOLEAN
    /\ MaxEpochs \in Nat /\ MaxEpochs >= 2
    /\ MaxEvents \in Nat /\ MaxLate \in Nat

VARIABLES
    log,            \* log[b]: the batches of boot b, numbered from 0
    sub,            \* the bridge's SUB socket: batches received
    pc, conf,       \* the bridge, and its --generation
    file,           \* its checkpoint
    job,            \* batches replayed and not yet delivered
    todo, upd,      \* the posts left of a prepared batch, and what it commits
    late,           \* posts that outlived their sender
    p,              \* the gateway's provider
    origin

work == <<sub, pc, job, todo, upd>>
vars == <<log, work, conf, file, late, p, origin>>

Boots   == 1..MaxEpochs
Torn    == 0

Configured(c) == <<"configured", c>>
Automatic(boot) == <<"auto", boot>>

Generations == {Configured(c) : c \in Boots} \cup {Automatic(b) : b \in Boots}

\* What the adapter knows: its checkpoint, or nothing of this generation.
Fresh(c) == [conf |-> c, gen |-> Configured(c), last |-> NoSequence, boot |-> 0]

\* _load_checkpoint; memory and file agree from then on, as commit sets both.
Adapter == IF file.conf = conf THEN file ELSE Fresh(conf)

Init ==
    /\ log = <<<<>>>>
    /\ sub = <<>> /\ pc = "down" /\ conf = 1
    /\ job = <<>> /\ todo = <<>> /\ upd = Fresh(1)
    /\ file = Fresh(1)
    /\ late = {}
    /\ \E max \in MaxEntries : p = New(max)
    /\ origin = [g \in Generations |-> {}]

------------------------------------------------------------------------------
(* The engine (external).                                                   *)

Boot == Len(log)

Resident == LET own == log[Boot] IN
    IF own = <<>> THEN {}
    ELSE LET batch == own[Len(own)] IN batch[Len(batch)].then

EngineEvents(cache) ==
    {[op |-> "store", key |-> k, then |-> cache \cup {k}] : k \in Blocks \ cache}
    \cup {[op |-> "remove", key |-> k, then |-> cache \ {k}] : k \in cache}
    \cup {[op |-> "clear", key |-> NoBlock, then |-> {}] : k \in cache}

Published == {e \in Boots \X (1..MaxEvents) \X (1..MaxEvents) :
                e[1] <= Boot /\ e[2] <= Len(log[e[1]]) /\ e[3] <= Len(log[e[1]][e[2]])}

\* A batch is buffered for replay, and received by a connected bridge or lost.
Publish(batch, heard) ==
    /\ heard \/ MayLose
    /\ log' = [log EXCEPT ![Boot] = Append(@, batch)]
    /\ sub' = IF heard /\ pc # "down" THEN Append(sub, <<Boot, Len(log[Boot])>>) ELSE sub
    /\ UNCHANGED <<pc, job, todo, upd, conf, file, late, p, origin>>

\* Cache, replay buffer and numbering start again.
EngineRestart ==
    /\ Boot + conf < MaxEpochs
    /\ log' = Append(log, <<>>)
    /\ UNCHANGED <<work, conf, file, late, p, origin>>

------------------------------------------------------------------------------
(* The bridge.                                                              *)

\* An exception ends run(), and with it the process.
Die == /\ pc' = "down"
       /\ sub' = <<>> /\ job' = <<>> /\ todo' = <<>> /\ upd' = Fresh(1)

\* The process is killed, or a request or a receive fails.
Crash ==
    /\ pc # "down" /\ Die
    /\ UNCHANGED <<log, conf, file, late, p, origin>>

\* The SUB socket is connected before anything is replayed.
Start(c) ==
    /\ pc = "down"
    /\ c \in {conf, conf + 1} /\ Boot + c <= MaxEpochs
    /\ pc' = "replay" /\ conf' = c
    /\ UNCHANGED <<log, sub, job, todo, upd, file, late, p, origin>>

\* _replay from the first missing number, of what the engine has buffered: on start,
\* and on a gap with the batch that showed it behind (in job).
Replay ==
    LET start == Adapter.last + 1
        size  == Len(log[Boot])
        first == IF start + BufferSteps < size THEN size - BufferSteps ELSE start
    IN  /\ pc = "replay"
        /\ IF first > start THEN Die
           ELSE /\ pc' = "work"
                /\ job' = [i \in 1..(size - first) |-> <<Boot, first + i - 1>>] \o job
                /\ UNCHANGED <<sub, todo, upd>>
        /\ origin' = [origin EXCEPT ![Adapter.gen] = @ \cup {Boot}]
        /\ UNCHANGED <<log, conf, file, late, p>>

\* The batch at hand: replayed ones first, then the socket's.
HasBatch == job # <<>> \/ sub # <<>>
Batch    == IF job # <<>> THEN Head(job) ELSE Head(sub)
Taken    == IF job # <<>> THEN job' = Tail(job) /\ UNCHANGED sub
                          ELSE sub' = Tail(sub) /\ UNCHANGED job

\* prepare: a restart of the engine, a batch seen before, or one too far ahead.
Known      == Adapter.last # NoSequence
Restarted(m) == Known /\ m[2] = 0 /\ m[1] > Adapter.boot

Gap(m)       == Known /\ ~Restarted(m) /\ m[2] > Adapter.last + 1
Duplicate(m) == Known /\ ~Restarted(m) /\ m[2] <= Adapter.last

\* The posts of a batch: `clear' first if it opens a generation.
Posts(m, gen, restarted) ==
    LET batch == log[m[1]][m[2] + 1]
        Post(i, op, key) == [backend |-> Backend, op |-> op, key |-> key, gen |-> gen,
                             seq |-> m[2], id |-> <<gen, m[2], i>>]
        clear == <<Post(0, "clear", NoBlock)>>
    IN  (IF restarted THEN clear ELSE <<>>)
          \o [i \in DOMAIN batch |-> Post(i, batch[i].op, batch[i].key)]

SkipDuplicate ==
    /\ pc = "work" /\ HasBatch /\ Duplicate(Batch)
    /\ Taken
    /\ UNCHANGED <<log, pc, todo, upd, conf, file, late, p, origin>>

\* A gap in a live batch is replayed; one in a replay ends the bridge.
SeeGap ==
    /\ pc = "work" /\ HasBatch /\ Gap(Batch)
    /\ IF job # <<>> THEN Die
       ELSE /\ pc' = "replay" /\ job' = <<Batch>> /\ sub' = Tail(sub)
            /\ UNCHANGED <<todo, upd>>
    /\ UNCHANGED <<log, conf, file, late, p, origin>>

Prepare ==
    LET m   == Batch
        gen == IF Restarted(m) THEN Automatic(m[1]) ELSE Adapter.gen
    IN  /\ pc = "work" /\ HasBatch /\ ~Duplicate(m) /\ ~Gap(m)
        /\ Taken
        /\ pc' = "post"
        /\ todo' = Posts(m, gen, Restarted(m))
        /\ upd' = [conf |-> conf, gen |-> gen, last |-> m[2], boot |-> m[1]]
        /\ origin' = [origin EXCEPT ![gen] = @ \cup {m[1]} \cup
                                        (IF Known \/ m[2] = 0 THEN {} ELSE {Torn})]
        /\ UNCHANGED <<log, conf, file, late, p>>

Post ==
    /\ pc = "post" /\ todo # <<>>
    /\ p' = Observe(p, Head(todo))
    /\ todo' = Tail(todo)
    /\ UNCHANGED <<log, sub, pc, job, upd, conf, file, late, origin>>

\* The client's timeout; the request may still be on its way.
PostTimesOut ==
    /\ pc = "post" /\ todo # <<>> /\ Cardinality(late) < MaxLate
    /\ late' = late \cup {Head(todo)}
    /\ Die
    /\ UNCHANGED <<log, conf, file, p, origin>>

\* Mutant: a batch is committed when half of it is posted.
Committable_Early == pc = "post"

Committable == pc = "post" /\ todo = <<>>

\* commit, with the file replaced in one rename.
Commit ==
    /\ Committable
    /\ file' = upd
    /\ pc' = "work" /\ todo' = <<>> /\ upd' = Fresh(1)
    /\ UNCHANGED <<log, sub, job, conf, late, p, origin>>

------------------------------------------------------------------------------
(* The gateway.                                                             *)

\* A late post is applied, or never was sent.
LatePost(ev) ==
    /\ late' = late \ {ev}
    /\ p' = Observe(p, ev) \/ p' = p
    /\ UNCHANGED <<log, work, conf, file, origin>>

\* Entries of other backends share the index, and push out the oldest of this one.
Evict ==
    /\ p.keys # {}
    /\ p' = Drop(p, {Oldest(p)})
    /\ UNCHANGED <<log, work, conf, file, late, origin>>

\* The blocks of a request that Match finds, in their order.
Match(ks) ==
    /\ Matched(p, Backend, ks)
    /\ p' = Used(p, Backend, ks)
    /\ UNCHANGED <<log, work, conf, file, late, origin>>

\* The index is in memory only.  A batch may be half posted.
GatewayRestart ==
    /\ p' = New(p.max) /\ late' = {}
    /\ origin' = IF pc = "post"
                 THEN [origin EXCEPT ![upd.gen] = @ \cup {Torn}] ELSE origin
    /\ UNCHANGED <<log, work, conf, file>>

Lookups == {<<k>> : k \in Blocks} \cup {ks \in Blocks \X Blocks : ks[1] # ks[2]}

\* Batches of one and of two events.
Batches(room) ==
    {batch \in {<<e>> : e \in EngineEvents(Resident)} : room >= 1} \cup
    {batch \in UNION {{<<e, f>> : f \in EngineEvents(e.then)} : e \in EngineEvents(Resident)} :
        room >= 2}

Engine == \/ \E batch \in Batches(MaxEvents - Cardinality(Published)), heard \in BOOLEAN :
                Publish(batch, heard)
          \/ EngineRestart

Bridge == \/ Crash \/ Replay \/ SkipDuplicate \/ SeeGap \/ Prepare
          \/ Post \/ PostTimesOut \/ Commit
          \/ \E c \in Boots : Start(c)

Gateway == \/ \E ev \in late : LatePost(ev)
           \/ \E ks \in Lookups : Match(ks)
           \/ Evict \/ GatewayRestart

Next == Engine \/ Bridge \/ Gateway

Spec == Init /\ [][Next]_vars

------------------------------------------------------------------------------

Event == [op : {"store", "remove"}, key : Blocks, then : SUBSET Blocks]
         \cup [op : {"clear"}, key : {NoBlock}, then : {{}}]

Posted == {ev \in [backend : {Backend}, op : {"store", "remove", "clear"},
                   key : Blocks \cup {NoBlock}, gen : Generations, seq : Nat,
                   id : Generations \X Nat \X Nat] : ev.op = "clear" \/ ev.key \in Blocks}

Checkpoint == [conf : Boots, gen : Generations, last : Nat \cup {NoSequence},
               boot : 0..MaxEpochs]

Provider == [max : MaxEntries, gen : [Backends -> Generations \cup {NoGeneration}],
             last : [Backends -> Nat \cup {NoSequence}], keys : SUBSET (Backends \X Blocks),
             older : SUBSET ((Backends \X Blocks) \X (Backends \X Blocks)),
             seen : Seq(Backends \X (Generations \X Nat \X Nat))]

\* Every variable has its type, and no batch is received before it is published.
TypeOK ==
    /\ log \in Seq(Seq(Seq(Event) \ {<<>>})) /\ Len(log) \in Boots
    /\ sub \in Seq(Boots \X Nat) /\ job \in Seq(Boots \X Nat)
    /\ \A batches \in {sub, job} : \A i \in DOMAIN batches :
          batches[i][1] <= Boot /\ batches[i][2] < Len(log[batches[i][1]])
    /\ pc \in {"down", "replay", "work", "post"} /\ conf \in Boots
    /\ file \in Checkpoint /\ upd \in Checkpoint
    /\ todo \in Seq(Posted) /\ late \subseteq Posted
    /\ p \in Provider
    /\ origin \in [Generations -> SUBSET (Boots \cup {Torn})]

Evidence == {k \in Blocks : <<Backend, k>> \in p.keys}

\* The blocks the gateway counts on were resident together in the engine at one
\* moment of the batch it applied last, whatever was lost, repeated, late or cut
\* short by a crash; unless batches of two boots went into one generation
\* (KVEventProvider.Observe over VLLMSubscriber._deliver, _replay and commit).
EvidenceIsReal ==
    LET g == p.gen[Backend]
        n == p.last[Backend]
    IN  Evidence # {} =>
          /\ g # NoGeneration /\ n # NoSequence
          /\ \A boot \in Boots : origin[g] = {boot} =>
               LET batch == log[boot][n + 1]
               IN  \E i \in DOMAIN batch : Evidence \subseteq batch[i].then

\* Within a generation the provider never goes back to an earlier batch: late and
\* repeated posts cannot undo newer ones (Observe's two early returns), also when
\* their IDs are forgotten.
SequenceNeverBack ==
    [][p'.gen[Backend] = p.gen[Backend] => p'.last[Backend] >= p.last[Backend]]_vars

\* The index never holds more than max entries, whoever posts, repeats, matches or evicts, and
\* its list stays in step with its map (Observe's eviction loop, clearBackend and Match on
\* p.entries and p.order).
IndexBounded == IsFiniteSet(p.keys) /\ Cardinality(p.keys) <= p.max /\ Ordered(p)

AllDelivered == pc = "work" /\ ~HasBatch /\ late = {}

\* stage6_outcome_grounded_control.md:91, "automatic reset on sequence restart": once
\* everything a restarted engine has published is delivered, the gateway counts only
\* on what is resident in that engine (VLLMEventAdapter.prepare).
ResetOnRestart ==
    (AllDelivered /\ ~MayLose /\ Boot > 1 /\ log[Boot] # <<>>) => Evidence \subseteq Resident
=============================================================================
