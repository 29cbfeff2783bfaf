---------------------------- MODULE RolloutServer ---------------------------
(***************************************************************************)
(* The rollout server of ms-swift, swift/pipelines/infer/rollout.py: one   *)
(* HTTP process and one worker process per data-parallel rank, joined by   *)
(* pipes.  A handler has no await: it holds the event loop until it has    *)
(* sent its commands and received what it waits for, so requests are       *)
(* served one at a time.  A worker obeys its pipe in order.  Updates of    *)
(* the weights are not answered; the tensors reach the workers in a        *)
(* broadcast with the training process and a barrier, after which each     *)
(* worker loads them by itself.  A method that raises is logged, and its   *)
(* answer, if it has one, is None; an update that raises before the        *)
(* broadcast leaves the others, and the training process, waiting in it.   *)
(* (Time limits that the libraries set by themselves are not modelled.)    *)
(***************************************************************************)
EXTENDS Integers, FiniteSets, Sequences, SequencesExt

CONSTANTS NumWorkers,   \* num_connections
          NumParts,     \* parameter groups of one synchronisation
          Placeholder,  \* the prompt sent to a worker that has no request
          None,         \* the answer of a method that raised
          Flaky         \* workers whose methods may raise

ASSUME ServerAssumption ==
  /\ NumWorkers \in Nat \ {0} /\ NumParts \in Nat \ {0}
  /\ Flaky \subseteq 1 .. NumWorkers

Workers == 1 .. NumWorkers
Parts == 1 .. NumParts
FailureKinds == {"join", "load", "reset", "infer"}

VARIABLES
  pipe,      \* pipe[w]: commands sent to worker w and not taken yet
  loading,   \* loading[w]: the received tensors that w has yet to load
  model,     \* model[w]: the version of each part of the weights
  cache,     \* cache[w]: the weights whose prefixes are cached
  reply,     \* reply[w]: answers on the way back
  serving,   \* the request whose handler holds the event loop
  failures   \* kinds of methods that raised

server == <<pipe, loading, model, cache, reply, serving, failures>>

Idle == [kind |-> "idle"]
Dummy == [p \in Parts |-> -1]     \* load_format 'dummy'

ServerInit ==
  /\ pipe = [w \in Workers |-> <<>>]
  /\ loading = [w \in Workers |-> <<>>]
  /\ model = [w \in Workers |-> Dummy]
  /\ cache = [w \in Workers |-> {}]
  /\ reply = [w \in Workers |-> <<>>]
  /\ serving = Idle
  /\ failures = {}

Send(commands) == pipe' = [w \in Workers |-> Append(pipe[w], commands[w])]

\* chunk_list(lst, n): the first len % n chunks are one longer.
ChunkEnd(n, w) == w * (n \div NumWorkers) + (IF w < n % NumWorkers THEN w ELSE n % NumWorkers)
Chunk(requests, w) ==
  SubSeq(requests, ChunkEnd(Len(requests), w - 1) + 1, ChunkEnd(Len(requests), w))

-----------------------------------------------------------------------------
\* POST /update_...: every worker is told, nobody is waited for.
PostUpdate(part, version) ==
  /\ serving = Idle
  /\ Send([w \in Workers |-> [type |-> "update", part |-> part, version |-> version]])
  /\ UNCHANGED <<loading, model, cache, reply, serving, failures>>

Head1(w, type) == pipe[w] # <<>> /\ Head(pipe[w]).type = type /\ loading[w] = <<>>

\* A method of worker w raises, once more or for the first time.
Raises(w, kind) == w \in Flaky /\ failures' = failures \cup {kind}

\* update_... raises before the broadcast: there is no communicator, or no memory
\* for the tensor.  The worker goes on with its next command.
LeavesUpdate(w) ==
  /\ Head1(w, "update")
  /\ Raises(w, "join")
  /\ pipe' = [pipe EXCEPT ![w] = Tail(@)]
  /\ UNCHANGED <<loading, model, cache, reply, serving>>

\* The broadcast and the barrier, of the training process and all workers.
Broadcast ==
  /\ \A w \in Workers : Head1(w, "update")
  /\ loading' = [w \in Workers |-> <<Head(pipe[w])>>]
  /\ pipe' = [w \in Workers |-> Tail(pipe[w])]
  /\ UNCHANGED <<model, cache, reply, serving, failures>>

\* POST /reset_prefix_cache/
PostReset(client) ==
  /\ serving = Idle
  /\ Send([w \in Workers |-> [type |-> "reset"]])
  /\ serving' = [kind |-> "reset", client |-> client]
  /\ UNCHANGED <<loading, model, cache, reply, failures>>

\* POST /infer/: each worker gets its chunk, or the placeholder.
PostInfer(client, requests) ==
  /\ serving = Idle
  /\ Send([w \in Workers |->
             [type |-> "infer",
              requests |-> IF Chunk(requests, w) = <<>> THEN <<Placeholder>>
                           ELSE Chunk(requests, w)]])
  /\ serving' = [kind |-> "infer", client |-> client, requests |-> requests]
  /\ UNCHANGED <<loading, model, cache, reply, failures>>

\* load_weights, after the barrier.
Load(w) ==
  /\ loading[w] # <<>>
  /\ loading' = [loading EXCEPT ![w] = <<>>]
  /\ LET c == Head(loading[w])
     IN  \/ model' = [model EXCEPT ![w][c.part] = c.version] /\ UNCHANGED failures
         \/ Raises(w, "load") /\ UNCHANGED model
  /\ UNCHANGED <<pipe, cache, reply, serving>>

Answer(w, result) ==
  /\ pipe' = [pipe EXCEPT ![w] = Tail(@)]
  /\ reply' = [reply EXCEPT ![w] = Append(@, result)]

ResetCache(w) ==
  /\ Head1(w, "reset")
  /\ \/ cache' = [cache EXCEPT ![w] = {}] /\ Answer(w, TRUE) /\ UNCHANGED failures
     \/ Raises(w, "reset") /\ Answer(w, None) /\ UNCHANGED cache
  /\ UNCHANGED <<loading, model, serving>>

\* Each output is computed from the weights and the cached prefixes.
Infer(w) ==
  /\ Head1(w, "infer")
  /\ LET used == cache[w] \cup {model[w]}
         outputs == [i \in DOMAIN Head(pipe[w]).requests |->
                       [request |-> Head(pipe[w]).requests[i], used |-> used]]
     IN  \/ cache' = [cache EXCEPT ![w] = used] /\ Answer(w, outputs) /\ UNCHANGED failures
         \/ Raises(w, "infer") /\ Answer(w, None) /\ UNCHANGED cache
  /\ UNCHANGED <<loading, model, serving>>

Worker(w) == Load(w) \/ ResetCache(w) \/ Infer(w)

-----------------------------------------------------------------------------
\* The answer of the request that is served is complete.
Answered(kind, client) ==
  /\ serving # Idle /\ serving.kind = kind /\ serving.client = client
  /\ \A w \in Workers : reply[w] # <<>>

\* Joining None to the lists of outputs raises, and the client sees status 500.
InferRaised ==
  \E w \in Workers : Chunk(serving.requests, w) # <<>> /\ Head(reply[w]) = None

\* (Mutant: what the placeholder brought is not left out.)
OutputsOfAll == FlattenSeq([w \in Workers |-> Head(reply[w])])

\* The lists of the workers that had requests, joined.
Outputs ==
  FlattenSeq([w \in Workers |->
                IF Chunk(serving.requests, w) = <<>> THEN <<>> ELSE Head(reply[w])])

\* The handler has taken all answers and ends.
Respond ==
  /\ reply' = [w \in Workers |-> Tail(reply[w])]
  /\ serving' = Idle
  /\ UNCHANGED <<pipe, loading, model, cache, failures>>
=============================================================================
