------------------------ MODULE RolloutServerProofs ------------------------
(***************************************************************************)
(* The rollout server for every number of workers: who owes whom an        *)
(* answer, and what the joined outputs of the workers are.                 *)
(***************************************************************************)
EXTENDS RolloutServer, SequenceTheorems, WellFoundedInduction, TLAPS

\* The answer of a method that raised is not a list of outputs.
NoneIsNoList == None # [i \in DOMAIN None |-> None[i]]

IsSeq(s) == s \in Seq({s[i] : i \in DOMAIN s})

-----------------------------------------------------------------------------
\* The server: a worker has at most one request to obey or one answer to be
\* taken, and only while a handler is served.
PipeOf(w) ==
  /\ IsSeq(pipe[w])
  /\ \A i \in DOMAIN pipe[w] : pipe[w][i].type # "update" =>
       /\ i = Len(pipe[w])
       /\ serving # Idle /\ serving.kind = pipe[w][i].type
       /\ reply[w] = <<>>

ReplyOf(w) ==
  /\ reply[w] = <<>> \/ reply[w] = <<Head(reply[w])>>
  /\ serving = Idle => reply[w] = <<>>
  /\ reply[w] # <<>> /\ serving.kind = "infer" /\ Head(reply[w]) = None => "infer" \in failures

ServerFacts ==
  /\ pipe = [w \in Workers |-> pipe[w]]
  /\ reply = [w \in Workers |-> reply[w]]
  /\ \A w \in Workers : PipeOf(w) /\ ReplyOf(w)

\* What a worker is sent for its chunk, and an answer to it.
Sent(requests, w) ==
  IF Chunk(requests, w) = <<>> THEN <<Placeholder>> ELSE Chunk(requests, w)

Answers(outputs, requests) ==
  /\ outputs = [i \in DOMAIN requests |-> outputs[i]]
  /\ \A i \in DOMAIN requests : outputs[i].request = requests[i]

\* While the handler of /infer/ is served, the workers are at its requests.
InferOf(w) ==
  /\ \A i \in DOMAIN pipe[w] :
       pipe[w][i].type = "infer" => pipe[w][i].requests = Sent(serving.requests, w)
  /\ reply[w] # <<>> /\ Head(reply[w]) # None =>
       Answers(Head(reply[w]), Sent(serving.requests, w))

InferFacts ==
  serving # Idle /\ serving.kind = "infer" =>
    IsSeq(serving.requests) /\ \A w \in Workers : InferOf(w)

-----------------------------------------------------------------------------
\* Sequences.

LEMMA SeqAppend ==
  ASSUME NEW s, NEW e, IsSeq(s)
  PROVE  /\ IsSeq(Append(s, e)) /\ Len(s) \in Nat /\ DOMAIN s = 1 .. Len(s)
         /\ Len(Append(s, e)) = Len(s) + 1 /\ DOMAIN Append(s, e) = 1 .. Len(s) + 1
         /\ \A i \in 1 .. Len(s) : Append(s, e)[i] = s[i]
         /\ Append(s, e)[Len(s) + 1] = e
         /\ Append(s, e) # <<>>
<1> DEFINE S == {s[i] : i \in DOMAIN s}
           t == Append(s, e)
<1>1. s \in Seq(S)
  BY DEF IsSeq
<1>2. s \in Seq(S \cup {e})
  <2> HIDE DEF S
  <2> QED  BY <1>1
<1>3. /\ Len(s) \in Nat /\ DOMAIN s = 1 .. Len(s)
      /\ Len(t) = Len(s) + 1 /\ DOMAIN t = 1 .. Len(s) + 1
      /\ \A i \in 1 .. Len(s) : t[i] = s[i]
      /\ t[Len(s) + 1] = e /\ t # <<>>
  <2> HIDE DEF S
  <2> QED  BY <1>2
<1>4. t \in Seq({t[i] : i \in DOMAIN t})
  <2> DEFINE T == {t[i] : i \in DOMAIN t}
  <2>1. t = [i \in 1 .. Len(s) + 1 |-> t[i]] /\ \A i \in 1 .. Len(s) + 1 : t[i] \in T
    <3>1. t \in Seq(S \cup {e})
      <4> HIDE DEF S
      <4> QED  BY <1>2
    <3> HIDE DEF S, t
    <3>2. t \in [1 .. Len(t) -> S \cup {e}]
      BY <3>1, LenProperties
    <3> QED  BY <1>3, <3>2
  <2> HIDE DEF T, t
  <2>2. t \in Seq(T)
    BY <1>3, <2>1
  <2> QED  BY <2>2 DEF T
<1> QED  BY <1>3, <1>4 DEF IsSeq

LEMMA SeqTail ==
  ASSUME NEW s, IsSeq(s), s # <<>>
  PROVE  /\ IsSeq(Tail(s)) /\ Len(s) \in Nat \ {0} /\ DOMAIN s = 1 .. Len(s)
         /\ Len(Tail(s)) = Len(s) - 1 /\ DOMAIN Tail(s) = 1 .. Len(s) - 1
         /\ \A i \in 1 .. Len(s) - 1 : Tail(s)[i] = s[i + 1]
         /\ Head(s) = s[1]
<1> DEFINE S == {s[i] : i \in DOMAIN s}
           t == Tail(s)
<1>1. s \in Seq(S)
  BY DEF IsSeq
<1>2. /\ Len(s) \in Nat \ {0} /\ DOMAIN s = 1 .. Len(s)
      /\ t \in Seq(S)
      /\ Len(t) = Len(s) - 1 /\ DOMAIN t = 1 .. Len(s) - 1
      /\ \A i \in 1 .. Len(s) - 1 : t[i] = s[i + 1]
      /\ Head(s) = s[1]
  <2> HIDE DEF S
  <2> QED  BY <1>1
<1>3. t \in Seq({t[i] : i \in DOMAIN t})
  <2> DEFINE T == {t[i] : i \in DOMAIN t}
  <2>1. t = [i \in 1 .. Len(s) - 1 |-> t[i]] /\ \A i \in 1 .. Len(s) - 1 : t[i] \in T
    <3> HIDE DEF S, t
    <3>1. t \in [1 .. Len(t) -> S]
      BY <1>2, LenProperties
    <3> QED  BY <1>2, <3>1
  <2> HIDE DEF T, t
  <2>2. t \in Seq(T)
    BY <1>2, <2>1
  <2> QED  BY <2>2 DEF T
<1> QED  BY <1>2, <1>3 DEF IsSeq

LEMMA EmptyIsSeq == IsSeq(<<>>) /\ DOMAIN <<>> = {}
<1>1. \A S : <<>> \in Seq(S)
  OBVIOUS
<1> QED  BY <1>1 DEF IsSeq

-----------------------------------------------------------------------------
\* A command for every worker, while none of them has a request.
LEMMA SendKeeps ==
  ASSUME ServerFacts, serving = Idle, NEW commands, Send(commands), UNCHANGED <<reply, failures>>,
         \A w \in Workers : commands[w].type # "update" =>
           serving' # Idle /\ serving'.kind = commands[w].type
  PROVE  ServerFacts'
<1>1. /\ pipe' = [w \in Workers |-> pipe'[w]]
      /\ reply' = [w \in Workers |-> reply'[w]]
  BY DEF Send, ServerFacts
<1>2. ASSUME NEW w \in Workers
      PROVE  PipeOf(w)' /\ ReplyOf(w)'
  <2>1. pipe'[w] = Append(pipe[w], commands[w]) /\ reply'[w] = reply[w]
    BY DEF Send
  <2>2. IsSeq(pipe[w]) /\ reply[w] = <<>>
    BY DEF ServerFacts, PipeOf, ReplyOf
  <2>3. \A i \in DOMAIN pipe[w] : pipe[w][i].type = "update"
    BY DEF ServerFacts, PipeOf
  <2>4. /\ IsSeq(pipe'[w])
        /\ \A i \in DOMAIN pipe'[w] : pipe'[w][i].type # "update" =>
             i = Len(pipe'[w]) /\ pipe'[w][i] = commands[w]
    BY <2>1, <2>2, <2>3, SeqAppend
  <2>5. PipeOf(w)'
    BY <2>1, <2>2, <2>4 DEF PipeOf
  <2>6. ReplyOf(w)'
    BY <2>1, <2>2 DEF ReplyOf
  <2> QED  BY <2>5, <2>6
<1> QED  BY <1>1, <1>2 DEF ServerFacts

LEMMA PostKeeps ==
  ASSUME ServerFacts,
         \/ \E k, v : PostUpdate(k, v)
         \/ \E client : PostReset(client)
         \/ \E client, requests : PostInfer(client, requests)
  PROVE  ServerFacts'
<1>1. ASSUME NEW k, NEW v, PostUpdate(k, v)
      PROVE  ServerFacts'
  <2> DEFINE commands == [w \in Workers |-> [type |-> "update", part |-> k, version |-> v]]
  <2>1. serving = Idle /\ Send(commands) /\ UNCHANGED <<reply, failures>>
    BY <1>1 DEF PostUpdate
  <2>2. \A w \in Workers : commands[w].type = "update"
    OBVIOUS
  <2> HIDE DEF commands
  <2> QED  BY <2>1, <2>2, SendKeeps
<1>2. ASSUME NEW client, PostReset(client)
      PROVE  ServerFacts'
  <2> DEFINE commands == [w \in Workers |-> [type |-> "reset"]]
  <2>1. /\ serving = Idle /\ Send(commands) /\ UNCHANGED <<reply, failures>>
        /\ serving' = [kind |-> "reset", client |-> client]
    BY <1>2 DEF PostReset
  <2>2. \A w \in Workers : commands[w].type = "reset"
    OBVIOUS
  <2>3. serving' # Idle /\ serving'.kind = "reset"
    BY <2>1 DEF Idle
  <2> HIDE DEF commands
  <2> QED  BY <2>1, <2>2, <2>3, SendKeeps
<1>3. ASSUME NEW client, NEW requests, PostInfer(client, requests)
      PROVE  ServerFacts'
  <2> DEFINE commands ==
        [w \in Workers |->
           [type |-> "infer",
            requests |-> IF Chunk(requests, w) = <<>> THEN <<Placeholder>> ELSE Chunk(requests, w)]]
  <2>1. /\ serving = Idle /\ Send(commands) /\ UNCHANGED <<reply, failures>>
        /\ serving' = [kind |-> "infer", client |-> client, requests |-> requests]
    BY <1>3 DEF PostInfer
  <2>2. \A w \in Workers : commands[w].type = "infer"
    OBVIOUS
  <2>3. serving' # Idle /\ serving'.kind = "infer"
    BY <2>1 DEF Idle
  <2> HIDE DEF commands
  <2> QED  BY <2>1, <2>2, <2>3, SendKeeps
<1> QED  BY <1>1, <1>2, <1>3

LEMMA BroadcastKeeps ==
  ASSUME ServerFacts, Broadcast
  PROVE  ServerFacts'
<1>1. /\ pipe' = [w \in Workers |-> Tail(pipe[w])]
      /\ UNCHANGED <<reply, serving, failures>>
  BY DEF Broadcast
<1>2. ASSUME NEW w \in Workers
      PROVE  PipeOf(w)' /\ ReplyOf(w)'
  <2>1. pipe'[w] = Tail(pipe[w]) /\ pipe[w] # <<>>
    BY <1>1 DEF Broadcast, Head1
  <2>2. PipeOf(w) /\ ReplyOf(w)
    BY DEF ServerFacts
  <2>3. /\ IsSeq(Tail(pipe[w])) /\ Len(pipe[w]) \in Nat \ {0} /\ DOMAIN pipe[w] = 1 .. Len(pipe[w])
        /\ Len(Tail(pipe[w])) = Len(pipe[w]) - 1 /\ DOMAIN Tail(pipe[w]) = 1 .. Len(pipe[w]) - 1
        /\ \A i \in 1 .. Len(pipe[w]) - 1 : Tail(pipe[w])[i] = pipe[w][i + 1]
    BY <2>1, <2>2, SeqTail DEF PipeOf
  <2>4. ASSUME NEW i \in DOMAIN pipe'[w], pipe'[w][i].type # "update"
        PROVE  /\ i = Len(pipe'[w])
               /\ serving # Idle /\ serving.kind = pipe'[w][i].type /\ reply[w] = <<>>
    <3>1. i + 1 \in DOMAIN pipe[w] /\ pipe'[w][i] = pipe[w][i + 1]
      BY <2>1, <2>3, <2>4
    <3>2. i + 1 = Len(pipe[w]) /\ serving # Idle /\ serving.kind = pipe[w][i + 1].type
          /\ reply[w] = <<>>
      BY <2>2, <2>4, <3>1 DEF PipeOf
    <3>3. i \in Int
      BY <2>1, <2>3, <2>4
    <3> QED  BY <2>1, <2>3, <3>1, <3>2, <3>3
  <2>5. PipeOf(w)'
    BY <1>1, <2>1, <2>3, <2>4 DEF PipeOf
  <2>6. ReplyOf(w)'
    BY <1>1, <2>2 DEF ReplyOf
  <2> QED  BY <2>5, <2>6
<1> QED  BY <1>1, <1>2 DEF ServerFacts

\* A worker leaves an update: its pipe alone is one command shorter.
LEMMA LeavesKeeps ==
  ASSUME ServerFacts, NEW w \in Workers, LeavesUpdate(w)
  PROVE  /\ ServerFacts'
         /\ UNCHANGED <<loading, model, cache, reply, serving>>
         /\ failures \subseteq failures' /\ "join" \in failures'
         /\ Head1(w, "update") /\ pipe'[w] = Tail(pipe[w])
         /\ \A v \in Workers \ {w} : pipe'[v] = pipe[v]
<1>1. /\ pipe' = [pipe EXCEPT ![w] = Tail(@)]
      /\ UNCHANGED <<loading, model, cache, reply, serving>>
      /\ failures' = failures \cup {"join"}
      /\ Head1(w, "update")
  BY DEF LeavesUpdate, Raises
<1>2. pipe = [v \in Workers |-> pipe[v]] /\ reply = [v \in Workers |-> reply[v]]
  BY DEF ServerFacts
<1>3. /\ pipe' = [v \in Workers |-> pipe'[v]]
      /\ pipe'[w] = Tail(pipe[w]) /\ pipe[w] # <<>>
      /\ \A v \in Workers \ {w} : pipe'[v] = pipe[v]
  BY <1>1, <1>2 DEF Head1
<1>4. PipeOf(w)'
  <2>1. PipeOf(w)
    BY DEF ServerFacts
  <2>2. /\ IsSeq(Tail(pipe[w])) /\ Len(pipe[w]) \in Nat \ {0} /\ DOMAIN pipe[w] = 1 .. Len(pipe[w])
        /\ Len(Tail(pipe[w])) = Len(pipe[w]) - 1 /\ DOMAIN Tail(pipe[w]) = 1 .. Len(pipe[w]) - 1
        /\ \A i \in 1 .. Len(pipe[w]) - 1 : Tail(pipe[w])[i] = pipe[w][i + 1]
    BY <1>3, <2>1, SeqTail DEF PipeOf
  <2>3. ASSUME NEW i \in DOMAIN pipe'[w], pipe'[w][i].type # "update"
        PROVE  /\ i = Len(pipe'[w])
               /\ serving # Idle /\ serving.kind = pipe'[w][i].type /\ reply[w] = <<>>
    <3>1. i + 1 \in DOMAIN pipe[w] /\ pipe'[w][i] = pipe[w][i + 1]
      BY <1>3, <2>2, <2>3
    <3>2. i + 1 = Len(pipe[w]) /\ serving # Idle /\ serving.kind = pipe[w][i + 1].type
          /\ reply[w] = <<>>
      BY <2>1, <2>3, <3>1 DEF PipeOf
    <3>3. i \in Int
      BY <1>3, <2>2, <2>3
    <3> QED  BY <1>3, <2>2, <3>1, <3>2, <3>3
  <2> QED  BY <1>1, <1>3, <2>2, <2>3 DEF PipeOf
<1>5. ASSUME NEW v \in Workers, v # w
      PROVE  PipeOf(v)'
  <2>1. pipe'[v] = pipe[v] /\ PipeOf(v)
    BY <1>3, <1>5 DEF ServerFacts
  <2> QED  BY <1>1, <2>1 DEF PipeOf, IsSeq
<1>6. ASSUME NEW v \in Workers
      PROVE  ReplyOf(v)'
  BY <1>1 DEF ServerFacts, ReplyOf
<1>7. ServerFacts'
  <2>1. Workers' = Workers /\ reply' = [v \in Workers |-> reply'[v]]
    BY <1>1, <1>2 DEF Workers
  <2> QED  BY <1>3, <1>4, <1>5, <1>6, <2>1 DEF ServerFacts
<1> QED  BY <1>1, <1>3, <1>7

\* A worker obeys its one request.
LEMMA ObeyKeeps ==
  ASSUME ServerFacts, NEW w \in Workers, NEW type \in {"reset", "infer"}, Head1(w, type),
         NEW result, Answer(w, result), UNCHANGED serving,
         failures \subseteq failures',
         type = "infer" /\ result = None => "infer" \in failures'
  PROVE  ServerFacts'
<1>1. /\ pipe' = [pipe EXCEPT ![w] = Tail(@)]
      /\ reply' = [reply EXCEPT ![w] = Append(@, result)]
      /\ pipe = [v \in Workers |-> pipe[v]] /\ reply = [v \in Workers |-> reply[v]]
  BY DEF Answer, ServerFacts
<1>2. ASSUME NEW v \in Workers, v # w
      PROVE  PipeOf(v)' /\ ReplyOf(v)'
  <2>1. pipe'[v] = pipe[v] /\ reply'[v] = reply[v]
    BY <1>1, <1>2
  <2>2. PipeOf(v) /\ ReplyOf(v)
    BY DEF ServerFacts
  <2>3. PipeOf(v)'
    BY <2>1, <2>2 DEF PipeOf
  <2>4. ReplyOf(v)'
    BY <2>1, <2>2 DEF ReplyOf
  <2> QED  BY <2>3, <2>4
<1>3. PipeOf(w) /\ ReplyOf(w) /\ pipe[w] # <<>> /\ Head(pipe[w]).type = type
  BY DEF ServerFacts, Head1
<1>4. /\ IsSeq(Tail(pipe[w])) /\ Len(pipe[w]) \in Nat \ {0} /\ DOMAIN pipe[w] = 1 .. Len(pipe[w])
      /\ DOMAIN Tail(pipe[w]) = 1 .. Len(pipe[w]) - 1
      /\ Head(pipe[w]) = pipe[w][1]
  BY <1>3, SeqTail DEF PipeOf
<1>5. Len(pipe[w]) = 1 /\ serving # Idle /\ serving.kind = type /\ reply[w] = <<>>
  <2>1. 1 \in DOMAIN pipe[w] /\ pipe[w][1].type = type /\ type # "update"
    BY <1>3, <1>4
  <2>2. 1 = Len(pipe[w]) /\ serving # Idle /\ serving.kind = pipe[w][1].type /\ reply[w] = <<>>
    BY <1>3, <2>1 DEF PipeOf
  <2> QED  BY <2>1, <2>2
<1>6. pipe'[w] = Tail(pipe[w]) /\ reply'[w] = <<result>>
  <2>1. Append(<<>>, result) = <<result>>
    OBVIOUS
  <2> QED  BY <1>1, <1>5, <2>1
<1>7. PipeOf(w)'
  BY <1>4, <1>5, <1>6 DEF PipeOf
<1>8. ReplyOf(w)'
  <2>1. Head(<<result>>) = result /\ <<result>> # <<>>
    OBVIOUS
  <2> QED  BY <1>5, <1>6, <2>1 DEF ReplyOf
<1>9. pipe' = [v \in Workers |-> pipe'[v]] /\ reply' = [v \in Workers |-> reply'[v]]
  BY <1>1
<1> QED  BY <1>2, <1>7, <1>8, <1>9 DEF ServerFacts

LEMMA WorkerKeeps ==
  ASSUME NoneIsNoList, ServerFacts, NEW w \in Workers, Worker(w)
  PROVE  ServerFacts' /\ failures \subseteq failures' /\ UNCHANGED serving
<1>1. CASE Load(w)
  <2>1. UNCHANGED <<pipe, reply, serving>> /\ failures \subseteq failures'
    BY <1>1 DEF Load, Raises
  <2> QED  BY <2>1 DEF ServerFacts, PipeOf, ReplyOf
<1>2. CASE ResetCache(w)
  <2>1. PICK result \in {TRUE, None} : Answer(w, result)
    BY <1>2 DEF ResetCache
  <2>2. Head1(w, "reset") /\ UNCHANGED serving /\ failures \subseteq failures'
    BY <1>2 DEF ResetCache, Raises
  <2> QED  BY <2>1, <2>2, ObeyKeeps
<1>3. CASE Infer(w)
  <2> DEFINE used == cache[w] \cup {model[w]}
             outputs == [i \in DOMAIN Head(pipe[w]).requests |->
                           [request |-> Head(pipe[w]).requests[i], used |-> used]]
  <2>1. outputs # None
    <3>1. outputs = [i \in DOMAIN outputs |-> outputs[i]]
      OBVIOUS
    <3> HIDE DEF outputs
    <3> QED  BY <3>1 DEF NoneIsNoList
  <2>2. /\ Head1(w, "infer") /\ UNCHANGED serving
        /\ \/ Answer(w, outputs) /\ failures' = failures
           \/ Raises(w, "infer") /\ Answer(w, None)
    BY <1>3 DEF Infer
  <2>3. PICK result : /\ Answer(w, result) /\ failures \subseteq failures'
                      /\ result = None => "infer" \in failures'
    <3> HIDE DEF outputs
    <3> QED  BY <2>1, <2>2 DEF Raises
  <2> QED  BY <2>2, <2>3, ObeyKeeps
<1> QED  BY <1>1, <1>2, <1>3 DEF Worker

\* The handler that ends leaves nobody a request or an answer.
LEMMA RespondKeeps ==
  ASSUME ServerFacts, serving # Idle, \A w \in Workers : reply[w] # <<>>, Respond
  PROVE  ServerFacts'
<1>1. /\ reply' = [w \in Workers |-> Tail(reply[w])]
      /\ serving' = Idle /\ UNCHANGED <<pipe, failures>>
  BY DEF Respond
<1>2. ASSUME NEW w \in Workers
      PROVE  PipeOf(w)' /\ ReplyOf(w)'
  <2>1. PipeOf(w) /\ ReplyOf(w) /\ reply[w] # <<>>
    BY DEF ServerFacts
  <2>2. reply'[w] = <<>>
    <3>1. reply[w] = <<Head(reply[w])>>
      BY <2>1 DEF ReplyOf
    <3>2. \A x : Tail(<<x>>) = <<>>
      OBVIOUS
    <3> QED  BY <1>1, <3>1, <3>2
  <2>3. \A i \in DOMAIN pipe[w] : pipe[w][i].type = "update"
    BY <2>1 DEF PipeOf
  <2>4. PipeOf(w)'
    BY <1>1, <2>1, <2>3 DEF PipeOf
  <2>5. ReplyOf(w)'
    BY <1>1, <2>2 DEF ReplyOf
  <2> QED  BY <2>4, <2>5
<1> QED  BY <1>1, <1>2 DEF ServerFacts

\* A rollout that fails is one in which a worker raised.
LEMMA RaisedIsFailure ==
  ASSUME ServerFacts, NEW client, Answered("infer", client), InferRaised
  PROVE  "infer" \in failures
<1>1. PICK w \in Workers : Head(reply[w]) = None
  BY DEF InferRaised
<1> QED  BY <1>1 DEF ServerFacts, ReplyOf, Answered

-----------------------------------------------------------------------------
\* The outputs of the workers, joined.

\* Induction up to n, of a set instead of an operator.
LEMMA UpTo ==
  ASSUME NEW n \in Nat, NEW S, 1 \in S, \A k \in 1 .. n - 1 : k \in S => k + 1 \in S
  PROVE  1 .. n \subseteq S
<1> DEFINE Less == {ss \in Nat \X Nat : ss[1] < ss[2]}
           rest == (1 .. n) \ S
<1>1. IsWellFoundedOn(Less, Nat)
  BY NatLessThanWellFounded DEF OpToRel
<1>2. ASSUME rest # {}
      PROVE  FALSE
  <2>1. rest \subseteq Nat
    OBVIOUS
  <2>2. PICK k \in rest : \A j \in rest : <<j, k>> \notin Less
    <3> HIDE DEF Less, rest
    <3> QED  BY <1>1, <1>2, <2>1, WFMin
  <2>3. k \in 1 .. n /\ k \notin S /\ k # 1
    OBVIOUS
  <2>4. k - 1 \in 1 .. n - 1 /\ (k - 1) + 1 = k /\ k - 1 \in Nat /\ k \in Nat /\ k - 1 < k
    BY <2>3
  <2>5. k - 1 \in rest
    BY <2>3, <2>4
  <2>6. <<k - 1, k>> \in Less
    BY <2>4
  <2> QED  BY <2>2, <2>5, <2>6
<1> QED  BY <1>2

\* The lists are joined from the left: flatten is defined for all of them.
LEMMA FlattenDefined ==
  ASSUME NEW n \in Nat \ {0}, NEW lists
  PROVE  LET step(f, i) == IF i = 1 THEN lists[i] ELSE f[i - 1] \o lists[i]
         IN  \E f : f = [i \in 1 .. n |-> step(f, i)]
<1> DEFINE step(f, i) == IF i = 1 THEN lists[i] ELSE f[i - 1] \o lists[i]
           defined(m) == \E f : f = [i \in 1 .. m |-> step(f, i)]
           S == {m \in 1 .. n : defined(m)}
<1>1. defined(1)
  <2> DEFINE f == [i \in 1 .. 1 |-> lists[1]]
  <2>1. f = [i \in 1 .. 1 |-> step(f, i)]
    OBVIOUS
  <2> HIDE DEF f
  <2> QED  BY <2>1
<1>2. ASSUME NEW m \in 1 .. n - 1, defined(m)
      PROVE  defined(m + 1)
  <2>1. PICK f : f = [i \in 1 .. m |-> step(f, i)]
    BY <1>2
  <2> DEFINE g == [i \in 1 .. m + 1 |-> IF i = m + 1 THEN f[m] \o lists[m + 1] ELSE f[i]]
  <2>2. \A i \in 1 .. m : g[i] = f[i] /\ f[i] = step(f, i)
    <3>1. \A i \in 1 .. m : f[i] = step(f, i)
      <4> HIDE DEF step
      <4> QED  BY <2>1
    <3>2. \A i \in 1 .. m : g[i] = f[i]
      OBVIOUS
    <3> QED  BY <3>1, <3>2
  <2>3. ASSUME NEW i \in 1 .. m + 1
        PROVE  g[i] = step(g, i)
    <3>1. CASE i = m + 1
      <4>1. i # 1 /\ i - 1 = m /\ m \in 1 .. m
        BY <3>1
      <4> QED  BY <2>2, <3>1, <4>1
    <3>2. CASE i # m + 1
      <4>1. i \in 1 .. m /\ (i = 1 \/ i - 1 \in 1 .. m)
        BY <3>2
      <4> HIDE DEF g
      <4> QED  BY <2>2, <4>1
    <3> QED  BY <3>1, <3>2
  <2>4. g = [i \in 1 .. m + 1 |-> step(g, i)]
    <3>1. g = [i \in 1 .. m + 1 |-> g[i]]
      OBVIOUS
    <3> HIDE DEF g, step
    <3> QED  BY <2>3, <3>1
  <2> HIDE DEF g
  <2> QED  BY <2>4
<1>3. defined(n)
  <2> HIDE DEF defined
  <2>1. 1 \in S /\ \A m \in 1 .. n - 1 : m \in S => m + 1 \in S
    BY <1>1, <1>2
  <2>2. 1 .. n \subseteq S
    <3> HIDE DEF S
    <3> QED  BY <2>1, UpTo
  <2> QED  BY <2>2
<1> QED  BY <1>3

\* Position j of the joined lists is position i of a list w, where the lists
\* before w end at place[w - 1].
Joins(lists, n, place) ==
  /\ Len(FlattenSeq(lists)) = place[n]
  /\ \A j \in 1 .. place[n] : \E w \in 1 .. n : \E i \in 1 .. Len(lists[w]) :
       j = place[w - 1] + i /\ FlattenSeq(lists)[j] = lists[w][i]

LEMMA FlattenJoins ==
  ASSUME NEW S, NEW n \in Nat \ {0}, NEW lists \in [1 .. n -> Seq(S)],
         NEW place \in [0 .. n -> Nat], place[0] = 0,
         \A w \in 1 .. n : place[w] = place[w - 1] + Len(lists[w])
  PROVE  FlattenSeq(lists) \in Seq(S) /\ Joins(lists, n, place)
<1> DEFINE step(f, i) == IF i = 1 THEN lists[i] ELSE f[i - 1] \o lists[i]
           f == CHOOSE g : g = [i \in 1 .. n |-> step(g, i)]
           joined(k) ==
             /\ f[k] \in Seq(S)
             /\ Len(f[k]) = place[k]
             /\ \A j \in 1 .. place[k] : \E w \in 1 .. n : \E i \in 1 .. Len(lists[w]) :
                  j = place[w - 1] + i /\ f[k][j] = lists[w][i]
           J == {k \in 1 .. n : joined(k)}
<1>1. f = [i \in 1 .. n |-> step(f, i)]
  <2>1. \E g : g = [i \in 1 .. n |-> step(g, i)]
    BY FlattenDefined
  <2> HIDE DEF step
  <2> QED  BY <2>1
<1>2. FlattenSeq(lists) = f[n]
  <2>1. Len(lists) = n
    OBVIOUS
  <2> QED  BY <2>1 DEF FlattenSeq
<1> HIDE DEF f
<1>3. /\ f[1] = lists[1]
      /\ \A k \in 1 .. n - 1 : f[k + 1] = f[k] \o lists[k + 1]
  <2>1. \A k \in 1 .. n : f[k] = step(f, k)
    <3> HIDE DEF step
    <3> QED  BY <1>1
  <2>2. f[1] = lists[1]
    BY <2>1
  <2>3. ASSUME NEW k \in 1 .. n - 1
        PROVE  f[k + 1] = f[k] \o lists[k + 1]
    <3>1. k + 1 \in 1 .. n /\ k + 1 # 1 /\ (k + 1) - 1 = k
      OBVIOUS
    <3>2. f[k + 1] = IF k + 1 = 1 THEN lists[k + 1] ELSE f[(k + 1) - 1] \o lists[k + 1]
      BY <2>1, <3>1
    <3> QED  BY <3>1, <3>2
  <2> QED  BY <2>2, <2>3
<1>4. joined(1)
  <2>1. lists[1] \in Seq(S) /\ Len(lists[1]) \in Nat /\ place[1] = Len(lists[1])
    OBVIOUS
  <2>2. \A j \in 1 .. place[1] : j \in 1 .. Len(lists[1]) /\ j = place[1 - 1] + j
    BY <2>1
  <2>3. f[1] \in Seq(S) /\ Len(f[1]) = place[1] /\ 1 \in 1 .. n
    BY <1>3, <2>1
  <2>4. ASSUME NEW j \in 1 .. place[1]
        PROVE  \E w \in 1 .. n : \E i \in 1 .. Len(lists[w]) :
                 j = place[w - 1] + i /\ f[1][j] = lists[w][i]
    BY <1>3, <2>2, <2>3
  <2> QED  BY <2>3, <2>4
<1>5. ASSUME NEW k \in 1 .. n - 1, joined(k)
      PROVE  joined(k + 1)
  <2> DEFINE s == f[k]
             t == lists[k + 1]
  <2>0. k + 1 \in 1 .. n /\ k \in 0 .. n /\ k + 1 \in 0 .. n
    OBVIOUS
  <2>1. /\ s \in Seq(S) /\ t \in Seq(S) /\ f[k + 1] = s \o t
        /\ Len(s) = place[k] /\ Len(t) \in Nat /\ place[k] \in Nat
        /\ k + 1 \in 1 .. n
    <3>1. t \in Seq(S) /\ place[k] \in Nat
      BY <2>0
    <3>2. Len(t) \in Nat
      <4> HIDE DEF t
      <4> QED  BY <3>1
    <3> QED  BY <1>3, <1>5, <2>0, <3>1, <3>2
  <2>2. place[k + 1] = place[k] + Len(t)
    <3>1. (k + 1) - 1 = k
      OBVIOUS
    <3> QED  BY <2>1, <3>1
  <2> DEFINE p == place[k]
  <2>3. /\ p \in Nat /\ Len(s) = p /\ place[k + 1] = p + Len(t)
        /\ \A j \in 1 .. p : \E w \in 1 .. n : \E i \in 1 .. Len(lists[w]) :
             j = place[w - 1] + i /\ s[j] = lists[w][i]
    BY <1>5, <2>1, <2>2
  <2> HIDE DEF s, t, p
  <2>4. /\ s \o t \in Seq(S)
        /\ Len(s \o t) = p + Len(t)
        /\ \A j \in 1 .. p + Len(t) : (s \o t)[j] = IF j <= p THEN s[j] ELSE t[j - p]
    <3>0. s \in Seq(S) /\ t \in Seq(S)
      BY <2>1
    <3>1. /\ s \o t \in Seq(S)
          /\ Len(s \o t) = Len(s) + Len(t)
          /\ \A j \in 1 .. Len(s) + Len(t) :
               (s \o t)[j] = IF j <= Len(s) THEN s[j] ELSE t[j - Len(s)]
      BY ONLY <3>0, ConcatProperties
    <3> QED  BY <2>3, <3>1
  <2>5. ASSUME NEW j \in 1 .. p + Len(t)
        PROVE  \E w \in 1 .. n : \E i \in 1 .. Len(lists[w]) :
                 j = place[w - 1] + i /\ (s \o t)[j] = lists[w][i]
    <3>1. CASE j <= p
      <4>1. j \in 1 .. p /\ (s \o t)[j] = s[j]
        BY <2>1, <2>3, <2>4, <3>1
      <4> QED  BY <2>3, <4>1
    <3>2. CASE ~ (j <= p)
      <4> DEFINE i == j - p
      <4>1. i \in 1 .. Len(t) /\ j = p + i
        BY <2>1, <2>3, <3>2
      <4>3. (s \o t)[j] = t[i]
        BY <2>4, <3>2
      <4>2. (k + 1) - 1 = k
        OBVIOUS
      <4> HIDE DEF i
      <4> QED  BY <2>1, <4>1, <4>2, <4>3 DEF t, p
    <3> QED  BY <3>1, <3>2
  <2>6. f[k + 1] \in Seq(S) /\ Len(f[k + 1]) = place[k + 1]
    BY <2>1, <2>3, <2>4
  <2>7. ASSUME NEW j \in 1 .. place[k + 1]
        PROVE  \E w \in 1 .. n : \E i \in 1 .. Len(lists[w]) :
                 j = place[w - 1] + i /\ f[k + 1][j] = lists[w][i]
    <3>1. j \in 1 .. p + Len(t)
      BY <2>3
    <3>2. PICK w \in 1 .. n : \E i \in 1 .. Len(lists[w]) :
            j = place[w - 1] + i /\ (s \o t)[j] = lists[w][i]
      BY <2>5, <3>1
    <3>3. PICK i \in 1 .. Len(lists[w]) : j = place[w - 1] + i /\ (s \o t)[j] = lists[w][i]
      BY <3>2
    <3>4. f[k + 1][j] = lists[w][i]
      BY <2>1, <3>3
    <3> QED  BY <3>3, <3>4
  <2> QED  BY <2>6, <2>7
<1>6. joined(n)
  <2> HIDE DEF joined
  <2>1. 1 \in J /\ \A k \in 1 .. n - 1 : k \in J => k + 1 \in J
    BY <1>4, <1>5
  <2>2. 1 .. n \subseteq J
    <3> HIDE DEF J
    <3> QED  BY <2>1, UpTo
  <2> QED  BY <2>2
<1>7. /\ f[n] \in Seq(S) /\ Len(f[n]) = place[n]
      /\ \A j \in 1 .. place[n] : \E w \in 1 .. n : \E i \in 1 .. Len(lists[w]) :
           j = place[w - 1] + i /\ f[n][j] = lists[w][i]
  BY <1>6
<1> DEFINE whole == FlattenSeq(lists)
<1>8. /\ whole \in Seq(S) /\ Len(whole) = place[n]
      /\ \A j \in 1 .. place[n] : \E w \in 1 .. n : \E i \in 1 .. Len(lists[w]) :
           j = place[w - 1] + i /\ whole[j] = lists[w][i]
  <2>1. whole = f[n]
    BY <1>2
  <2> HIDE DEF whole, step, joined, J
  <2> QED  BY ONLY <1>7, <2>1
<1> QED  BY ONLY <1>8 DEF Joins

-----------------------------------------------------------------------------
\* The chunks of a list of requests, one after the other.
LEMMA ChunksChain ==
  ASSUME NEW n \in Nat, NEW w \in Workers
  PROVE  /\ ChunkEnd(n, w - 1) \in Nat /\ ChunkEnd(n, w) \in Nat
         /\ ChunkEnd(n, w - 1) <= ChunkEnd(n, w) /\ ChunkEnd(n, w) <= n
         /\ ChunkEnd(n, 0) = 0 /\ ChunkEnd(n, NumWorkers) = n
<1> DEFINE q == n \div NumWorkers
           x == n % NumWorkers
<1>1. q \in Nat /\ x \in Nat /\ x < NumWorkers /\ n = NumWorkers * q + x
  <2>1. NumWorkers \in Nat \ {0}
    BY ServerAssumption
  <2> QED  BY <2>1
<1>2. w \in Nat /\ NumWorkers \in Nat /\ w - 1 \in Nat /\ w <= NumWorkers
  BY ServerAssumption DEF Workers
<1>3. \A k : ChunkEnd(n, k) = k * q + (IF k < x THEN k ELSE x)
  BY DEF ChunkEnd
<1> HIDE DEF q, x
<1>4. /\ \A i, j \in Nat : i <= j => i * q <= j * q
      /\ \A i \in Nat : i * q \in Nat
      /\ 0 * q = 0
  BY <1>1
<1>5. /\ (w - 1) * q <= w * q /\ w * q <= NumWorkers * q
      /\ (w - 1) * q \in Nat /\ w * q \in Nat /\ NumWorkers * q \in Nat
  BY <1>2, <1>4
<1>6. /\ ChunkEnd(n, w - 1) = (w - 1) * q + (IF w - 1 < x THEN w - 1 ELSE x)
      /\ ChunkEnd(n, w) = w * q + (IF w < x THEN w ELSE x)
      /\ ChunkEnd(n, 0) = 0 * q + (IF 0 < x THEN 0 ELSE x)
      /\ ChunkEnd(n, NumWorkers) = NumWorkers * q + (IF NumWorkers < x THEN NumWorkers ELSE x)
  BY <1>3
<1> QED  BY <1>1, <1>2, <1>4, <1>5, <1>6

LEMMA ChunkIs ==
  ASSUME NEW requests, IsSeq(requests), NEW w \in Workers
  PROVE  LET first == ChunkEnd(Len(requests), w - 1)
             c == Chunk(requests, w)
         IN  /\ Len(c) = ChunkEnd(Len(requests), w) - first
             /\ c = [i \in 1 .. Len(c) |-> requests[first + i]]
             /\ c = <<>> <=> Len(c) = 0
<1> DEFINE n == Len(requests)
           a == ChunkEnd(n, w - 1)
           b == ChunkEnd(n, w)
           c == Chunk(requests, w)
           S == {requests[i] : i \in DOMAIN requests}
<1>1. requests \in Seq(S)
  BY DEF IsSeq
<1>2. n \in Nat /\ \A i \in 1 .. n : requests[i] \in S
  BY <1>1
<1>3. a \in Nat /\ b \in Nat /\ a <= b /\ b <= n
  BY <1>2, ChunksChain
<1>4. c = SubSeq(requests, a + 1, b)
  BY DEF Chunk
<1> HIDE DEF n, a, b, c, S
<1>5. /\ c \in Seq(S)
      /\ Len(c) = IF a + 1 <= b THEN b - (a + 1) + 1 ELSE 0
      /\ \A i \in 1 .. b - (a + 1) + 1 : c[i] = requests[(a + 1) + i - 1]
  <2>1. \A i \in a + 1 .. b : requests[i] \in S
    BY <1>2, <1>3
  <2>2. a + 1 \in Int /\ b \in Int
    BY <1>3
  <2> QED  BY <1>4, <2>1, <2>2, SubSeqProperties
<1>6. Len(c) = b - a
  BY <1>3, <1>5
<1>7. \A i \in 1 .. Len(c) : c[i] = requests[a + i]
  BY <1>3, <1>5, <1>6
<1>8. c = [i \in 1 .. Len(c) |-> c[i]]
  BY <1>5, LenProperties
<1>9. c = <<>> <=> Len(c) = 0
  BY <1>5, EmptySeq
<1> QED  BY <1>6, <1>7, <1>8, <1>9 DEF n, a, b, c

\* What the client of /infer/ receives: one output for each of its requests, in
\* their order, and nothing that no worker answered.
LEMMA OutputsFollow ==
  ASSUME InferFacts, NEW client, Answered("infer", client), ~ InferRaised
  PROVE  /\ [i \in DOMAIN Outputs |-> Outputs[i].request] = serving.requests
         /\ \A j \in DOMAIN Outputs : \E w \in Workers :
              /\ reply[w] # <<>> /\ Head(reply[w]) # None
              /\ \E i \in DOMAIN Head(reply[w]) : Outputs[j] = Head(reply[w])[i]
<1> DEFINE requests == serving.requests
           n == Len(requests)
           chunk(w) == Chunk(requests, w)
           lists == [w \in Workers |-> IF chunk(w) = <<>> THEN <<>> ELSE Head(reply[w])]
           place == [k \in 0 .. NumWorkers |-> ChunkEnd(n, k)]
           S == UNION {{lists[w][i] : i \in DOMAIN lists[w]} : w \in Workers}
<1>1. /\ IsSeq(requests) /\ n \in Nat /\ requests = [i \in 1 .. n |-> requests[i]]
      /\ \A w \in Workers : InferOf(w) /\ reply[w] # <<>>
  <2>1. IsSeq(requests) /\ \A w \in Workers : InferOf(w) /\ reply[w] # <<>>
    BY DEF InferFacts, Answered
  <2> DEFINE R == {requests[i] : i \in DOMAIN requests}
  <2>2. requests \in Seq(R)
    BY <2>1 DEF IsSeq
  <2> HIDE DEF requests, R
  <2>3. n \in Nat /\ requests = [i \in 1 .. n |-> requests[i]]
    BY <2>2, LenProperties
  <2> QED  BY <2>1, <2>3
<1>2. Outputs = FlattenSeq(lists)
  BY DEF Outputs
<1> HIDE DEF requests, n
<1>3. ASSUME NEW w \in Workers, chunk(w) # <<>>
      PROVE  /\ Head(reply[w]) # None /\ lists[w] = Head(reply[w])
             /\ lists[w] = [i \in DOMAIN chunk(w) |-> lists[w][i]]
             /\ \A i \in DOMAIN chunk(w) : lists[w][i].request = chunk(w)[i]
  <2>1. Head(reply[w]) # None
    BY <1>3 DEF InferRaised, requests
  <2>2. Answers(Head(reply[w]), chunk(w))
    BY <1>1, <1>3, <2>1 DEF InferOf, Sent, requests
  <2>3. lists[w] = Head(reply[w])
    BY <1>3
  <2> HIDE DEF lists
  <2> QED  BY <2>1, <2>2, <2>3 DEF Answers
<1>4. ASSUME NEW w \in Workers
      PROVE  /\ place[w - 1] \in Nat /\ place[w] = place[w - 1] + Len(chunk(w))
             /\ Len(chunk(w)) \in Nat
             /\ chunk(w) = [i \in 1 .. Len(chunk(w)) |-> requests[place[w - 1] + i]]
             /\ chunk(w) = <<>> <=> Len(chunk(w)) = 0
             /\ w \in 0 .. NumWorkers /\ w - 1 \in 0 .. NumWorkers
  <2>1. w \in 0 .. NumWorkers /\ w - 1 \in 0 .. NumWorkers
    BY ServerAssumption DEF Workers
  <2>2. /\ ChunkEnd(n, w - 1) \in Nat /\ ChunkEnd(n, w) \in Nat
        /\ ChunkEnd(n, w - 1) <= ChunkEnd(n, w)
    BY <1>1, ChunksChain
  <2>3. /\ Len(chunk(w)) = ChunkEnd(n, w) - ChunkEnd(n, w - 1)
        /\ chunk(w) = [i \in 1 .. Len(chunk(w)) |-> requests[ChunkEnd(n, w - 1) + i]]
        /\ chunk(w) = <<>> <=> Len(chunk(w)) = 0
    BY <1>1, ChunkIs DEF n
  <2>4. place[w - 1] = ChunkEnd(n, w - 1) /\ place[w] = ChunkEnd(n, w)
    BY <2>1
  <2> HIDE DEF chunk, place
  <2> QED  BY <2>1, <2>2, <2>3, <2>4
<1>5. ASSUME NEW w \in Workers
      PROVE  /\ lists[w] \in Seq(S) /\ Len(lists[w]) = Len(chunk(w))
             /\ lists[w] # <<>> => chunk(w) # <<>>
  <2>1. CASE chunk(w) = <<>>
    <3>1. lists[w] = <<>>
      BY <2>1
    <3>2. \A X : <<>> \in Seq(X)
      OBVIOUS
    <3> HIDE DEF lists, S, chunk
    <3> QED  BY <2>1, <3>1, <3>2
  <2>2. CASE chunk(w) # <<>>
    <3> DEFINE m == Len(chunk(w))
    <3>1. DOMAIN chunk(w) = 1 .. m /\ m \in Nat
      BY <1>4
    <3>2. lists[w] = [i \in 1 .. m |-> lists[w][i]]
      BY <1>3, <2>2, <3>1
    <3>3. \A i \in 1 .. m : lists[w][i] \in S
      <4>1. DOMAIN lists[w] = 1 .. m
        BY <3>2
      <4> HIDE DEF lists
      <4> QED  BY <4>1
    <3> HIDE DEF lists, S, chunk, m
    <3>4. lists[w] \in [1 .. m -> S]
      BY <3>2, <3>3
    <3>5. lists[w] \in Seq(S) /\ Len(lists[w]) = m
      <4>1. lists[w] \in Seq(S) /\ DOMAIN lists[w] = 1 .. m
        BY <3>1, <3>4, SeqDef
      <4> QED  BY <3>1, <4>1, LenProperties
    <3> QED  BY <2>2, <3>5 DEF m
  <2> QED  BY <2>1, <2>2
<1>6. FlattenSeq(lists) \in Seq(S) /\ Joins(lists, NumWorkers, place)
  <2>1. NumWorkers \in Nat \ {0} /\ Workers = 1 .. NumWorkers
    BY ServerAssumption DEF Workers
  <2>2. lists \in [1 .. NumWorkers -> Seq(S)]
    <3>1. DOMAIN lists = Workers /\ lists = [w \in Workers |-> lists[w]]
      OBVIOUS
    <3> HIDE DEF lists, S
    <3> QED  BY <1>5, <2>1, <3>1
  <2>3. place \in [0 .. NumWorkers -> Nat] /\ place[0] = 0
    <3>1. \A k \in 0 .. NumWorkers : ChunkEnd(n, k) \in Nat
      <4>1. ChunkEnd(n, 0) = 0
        <5>1. 1 \in Workers
          BY <2>1
        <5> QED  BY <1>1, <5>1, ChunksChain
      <4>2. \A k \in Workers : ChunkEnd(n, k) \in Nat
        BY <1>1, ChunksChain
      <4> QED  BY <2>1, <4>1, <4>2
    <3>2. ChunkEnd(n, 0) = 0
      <4>1. 1 \in Workers
        BY <2>1
      <4> QED  BY <1>1, <4>1, ChunksChain
    <3> QED  BY <2>1, <3>1, <3>2
  <2>4. \A w \in 1 .. NumWorkers : place[w] = place[w - 1] + Len(lists[w])
    <3> HIDE DEF lists, place, chunk
    <3> QED  BY <1>4, <1>5, <2>1
  <2> HIDE DEF lists, place, S
  <2> QED  BY <2>1, <2>2, <2>3, <2>4, FlattenJoins
<1>7. place[NumWorkers] = n
  <2>1. 1 \in Workers /\ NumWorkers \in 0 .. NumWorkers
    BY ServerAssumption DEF Workers
  <2>2. ChunkEnd(n, NumWorkers) = n
    BY <1>1, <2>1, ChunksChain
  <2> QED  BY <2>1, <2>2
<1>8. DOMAIN Outputs = 1 .. n
  <2> HIDE DEF lists, place, S
  <2> QED  BY <1>2, <1>6, <1>7 DEF Joins
<1>9. ASSUME NEW j \in 1 .. n
      PROVE  /\ Outputs[j].request = requests[j]
             /\ \E w \in Workers :
                  /\ reply[w] # <<>> /\ Head(reply[w]) # None
                  /\ \E i \in DOMAIN Head(reply[w]) : Outputs[j] = Head(reply[w])[i]
  <2> HIDE DEF lists, place, S, chunk
  <2>1. PICK w \in 1 .. NumWorkers : \E i \in 1 .. Len(lists[w]) :
          j = place[w - 1] + i /\ Outputs[j] = lists[w][i]
    BY <1>2, <1>6, <1>7 DEF Joins
  <2>2. PICK i \in 1 .. Len(lists[w]) : j = place[w - 1] + i /\ Outputs[j] = lists[w][i]
    BY <2>1
  <2>3. w \in Workers
    BY DEF Workers
  <2>4. i \in DOMAIN chunk(w) /\ chunk(w)[i] = requests[j] /\ chunk(w) # <<>>
    <3>1. i \in 1 .. Len(chunk(w)) /\ Len(chunk(w)) \in Nat
      BY <1>4, <1>5, <2>2, <2>3
    <3>2. Len(chunk(w)) # 0
      BY <3>1
    <3>3. chunk(w) = [k \in 1 .. Len(chunk(w)) |-> requests[place[w - 1] + k]]
      BY <1>4, <2>3
    <3>4. chunk(w)[i] = requests[place[w - 1] + i] /\ i \in DOMAIN chunk(w)
      BY <3>1, <3>3
    <3> QED  BY <1>4, <2>2, <2>3, <3>2, <3>4
  <2>5. /\ Head(reply[w]) # None /\ lists[w] = Head(reply[w])
        /\ i \in DOMAIN lists[w] /\ lists[w][i].request = chunk(w)[i]
    BY <1>3, <2>3, <2>4
  <2> QED  BY <1>1, <2>2, <2>3, <2>4, <2>5
<1>10. [i \in DOMAIN Outputs |-> Outputs[i].request] = requests
  BY <1>1, <1>8, <1>9
<1> QED  BY <1>8, <1>9, <1>10 DEF requests

-----------------------------------------------------------------------------
\* A request of /infer/ reaches every worker with its chunk.
LEMMA PostInferSends ==
  ASSUME ServerFacts, NEW client, NEW requests, IsSeq(requests), PostInfer(client, requests)
  PROVE  InferFacts'
<1> DEFINE command(w) == [type |-> "infer", requests |-> Sent(requests, w)]
<1>1. /\ pipe' = [w \in Workers |-> Append(pipe[w], command(w))]
      /\ serving = Idle /\ UNCHANGED reply
      /\ serving' = [kind |-> "infer", client |-> client, requests |-> requests]
  BY DEF PostInfer, Send, Sent
<1>2. ASSUME NEW w \in Workers
      PROVE  InferOf(w)'
  <2>1. IsSeq(pipe[w]) /\ reply[w] = <<>> /\ \A i \in DOMAIN pipe[w] : pipe[w][i].type = "update"
    BY <1>1 DEF ServerFacts, PipeOf, ReplyOf
  <2>2. pipe'[w] = Append(pipe[w], command(w)) /\ reply'[w] = <<>>
    BY <1>1, <2>1
  <2>3. command(w).type = "infer" /\ command(w).requests = Sent(serving'.requests, w)
    BY <1>1
  <2> HIDE DEF command
  <2>4. \A i \in DOMAIN pipe'[w] : pipe'[w][i].type = "update" \/ pipe'[w][i] = command(w)
    BY <2>1, <2>2, SeqAppend
  <2>5. Sent(serving.requests, w)' = Sent(serving'.requests, w)
    BY DEF Sent, Chunk, ChunkEnd
  <2> QED  BY <2>2, <2>3, <2>4, <2>5 DEF InferOf
<1>3. serving'.requests = requests
  BY <1>1
<1>4. IsSeq(serving.requests)'
  BY <1>3 DEF IsSeq
<1>5. Workers' = Workers
  BY DEF Workers
<1> QED  BY <1>2, <1>4, <1>5 DEF InferFacts

\* Whoever does not start a request of /infer/ leaves the workers at theirs.
LEMMA InferFactsKept ==
  ASSUME InferFacts, UNCHANGED <<reply, serving>>,
         \A w \in Workers : \A i \in DOMAIN pipe'[w] :
           \E j \in DOMAIN pipe[w] : pipe'[w][i] = pipe[w][j]
  PROVE  InferFacts'
<1>1. ASSUME NEW w \in Workers, InferOf(w)
      PROVE  InferOf(w)'
  <2>1. Sent(serving.requests, w)' = Sent(serving.requests, w)
    BY DEF Sent, Chunk, ChunkEnd
  <2>2. /\ \A i \in DOMAIN pipe[w] :
             pipe[w][i].type = "infer" => pipe[w][i].requests = Sent(serving.requests, w)
        /\ reply[w] # <<>> /\ Head(reply[w]) # None =>
             Answers(Head(reply[w]), Sent(serving.requests, w))
    BY <1>1 DEF InferOf
  <2>3. \A i \in DOMAIN pipe'[w] :
             pipe'[w][i].type = "infer" => pipe'[w][i].requests = Sent(serving.requests, w)
    BY <2>2
  <2>4. (reply[w] # <<>> /\ Head(reply[w]) # None)' =>
             Answers(Head(reply'[w]), Sent(serving.requests, w))
    BY <2>2
  <2> QED  BY <2>1, <2>3, <2>4 DEF InferOf, Answers
<1>2. Workers' = Workers /\ (IsSeq(serving.requests)' <=> IsSeq(serving.requests))
  BY DEF Workers, IsSeq
<1> QED  BY <1>1, <1>2 DEF InferFacts

LEMMA BroadcastKeepsInfer ==
  ASSUME ServerFacts, InferFacts, Broadcast
  PROVE  InferFacts'
<1>1. ASSUME NEW w \in Workers, NEW i \in DOMAIN pipe'[w]
      PROVE  \E j \in DOMAIN pipe[w] : pipe'[w][i] = pipe[w][j]
  <2>1. pipe'[w] = Tail(pipe[w]) /\ pipe[w] # <<>> /\ IsSeq(pipe[w])
    BY DEF Broadcast, Head1, ServerFacts, PipeOf
  <2>2. /\ Len(pipe[w]) \in Nat \ {0} /\ DOMAIN pipe[w] = 1 .. Len(pipe[w])
        /\ DOMAIN Tail(pipe[w]) = 1 .. Len(pipe[w]) - 1
        /\ \A k \in 1 .. Len(pipe[w]) - 1 : Tail(pipe[w])[k] = pipe[w][k + 1]
    BY <2>1, SeqTail
  <2>3. i + 1 \in DOMAIN pipe[w] /\ pipe'[w][i] = pipe[w][i + 1]
    BY <2>1, <2>2
  <2> QED  BY <2>3
<1>2. UNCHANGED <<reply, serving>>
  BY DEF Broadcast
<1> QED  BY <1>1, <1>2, InferFactsKept

LEMMA LeavesKeepsInfer ==
  ASSUME ServerFacts, InferFacts, NEW w \in Workers, LeavesUpdate(w)
  PROVE  InferFacts'
<1>1. /\ UNCHANGED <<reply, serving>> /\ pipe[w] # <<>>
      /\ pipe'[w] = Tail(pipe[w]) /\ \A v \in Workers \ {w} : pipe'[v] = pipe[v]
  BY LeavesKeeps DEF Head1
<1>2. ASSUME NEW v \in Workers, NEW i \in DOMAIN pipe'[v]
      PROVE  \E j \in DOMAIN pipe[v] : pipe'[v][i] = pipe[v][j]
  <2>1. CASE v # w
    BY <1>1, <1>2, <2>1
  <2>2. CASE v = w
    <3>1. IsSeq(pipe[w])
      BY DEF ServerFacts, PipeOf
    <3>2. /\ Len(pipe[w]) \in Nat \ {0} /\ DOMAIN pipe[w] = 1 .. Len(pipe[w])
          /\ DOMAIN Tail(pipe[w]) = 1 .. Len(pipe[w]) - 1
          /\ \A k \in 1 .. Len(pipe[w]) - 1 : Tail(pipe[w])[k] = pipe[w][k + 1]
      BY <1>1, <3>1, SeqTail
    <3>3. i \in 1 .. Len(pipe[w]) - 1
      BY <1>1, <1>2, <2>2, <3>2
    <3>4. i + 1 \in DOMAIN pipe[w] /\ pipe'[w][i] = pipe[w][i + 1]
      BY <1>1, <3>2, <3>3
    <3> QED  BY <2>2, <3>4
  <2> QED  BY <2>1, <2>2
<1> QED  BY <1>1, <1>2, InferFactsKept

\* The one request that a worker obeys.
LEMMA OneRequest ==
  ASSUME ServerFacts, NEW w \in Workers, NEW type \in {"reset", "infer"}, Head1(w, type)
  PROVE  /\ serving # Idle /\ serving.kind = type /\ reply[w] = <<>>
         /\ 1 \in DOMAIN pipe[w] /\ Head(pipe[w]) = pipe[w][1] /\ pipe[w][1].type = type
         /\ IsSeq(pipe[w]) /\ Len(pipe[w]) = 1 /\ Tail(pipe[w]) = <<>>
<1>1. PipeOf(w) /\ pipe[w] # <<>> /\ Head(pipe[w]).type = type
  BY DEF ServerFacts, Head1
<1>2. /\ IsSeq(Tail(pipe[w])) /\ Len(pipe[w]) \in Nat \ {0} /\ DOMAIN pipe[w] = 1 .. Len(pipe[w])
      /\ Len(Tail(pipe[w])) = Len(pipe[w]) - 1
      /\ Head(pipe[w]) = pipe[w][1]
  BY <1>1, SeqTail DEF PipeOf
<1>3. 1 \in DOMAIN pipe[w] /\ pipe[w][1].type = type /\ type # "update"
  BY <1>1, <1>2
<1>4. 1 = Len(pipe[w]) /\ serving # Idle /\ serving.kind = type /\ reply[w] = <<>>
  BY <1>1, <1>3 DEF PipeOf
<1>5. Tail(pipe[w]) = <<>>
  <2> DEFINE t == Tail(pipe[w])
             T == {t[i] : i \in DOMAIN t}
  <2>1. t \in Seq(T) /\ Len(t) = 0
    BY <1>2, <1>4 DEF IsSeq
  <2> HIDE DEF t, T
  <2> QED  BY <2>1, EmptySeq DEF t
<1> QED  BY <1>1, <1>2, <1>3, <1>4, <1>5 DEF PipeOf

LEMMA WorkerKeepsInfer ==
  ASSUME ServerFacts, InferFacts, NEW w \in Workers, Worker(w)
  PROVE  InferFacts'
<1>1. CASE Load(w)
  <2>1. UNCHANGED <<pipe, reply, serving>>
    BY <1>1 DEF Load
  <2> QED  BY <2>1, InferFactsKept
<1>2. CASE ResetCache(w)
  <2>1. Head1(w, "reset") /\ UNCHANGED serving
    BY <1>2 DEF ResetCache
  <2>2. serving'.kind = "reset"
    BY <2>1, OneRequest
  <2> QED  BY <2>2 DEF InferFacts
<1>3. CASE Infer(w)
  <2> DEFINE r == Sent(serving.requests, w)
             used == cache[w] \cup {model[w]}
             outputs == [i \in DOMAIN r |-> [request |-> r[i], used |-> used]]
  <2>1. Head1(w, "infer") /\ UNCHANGED serving
    BY <1>3 DEF Infer
  <2>2. /\ serving # Idle /\ serving.kind = "infer" /\ reply[w] = <<>>
        /\ 1 \in DOMAIN pipe[w] /\ Head(pipe[w]) = pipe[w][1] /\ pipe[w][1].type = "infer"
        /\ Tail(pipe[w]) = <<>>
    BY <2>1, OneRequest
  <2>3. IsSeq(serving.requests) /\ \A v \in Workers : InferOf(v)
    BY <2>2 DEF InferFacts
  <2>4. Head(pipe[w]).requests = r
    BY <2>2, <2>3 DEF InferOf
  <2>5. PICK result \in {outputs, None} : Answer(w, result)
    BY <1>3, <2>4 DEF Infer
  <2>6. /\ pipe'[w] = <<>> /\ Head(reply'[w]) = result
        /\ \A v \in Workers \ {w} : pipe'[v] = pipe[v] /\ reply'[v] = reply[v]
    <3>1. Append(<<>>, result) = <<result>> /\ Head(<<result>>) = result
      OBVIOUS
    <3>2. pipe = [v \in Workers |-> pipe[v]] /\ reply = [v \in Workers |-> reply[v]]
      BY DEF ServerFacts
    <3> HIDE DEF outputs
    <3> QED  BY <2>2, <2>5, <3>1, <3>2 DEF Answer
  <2>7. \A v : Sent(serving.requests, v)' = Sent(serving.requests, v)
    BY <2>1 DEF Sent, Chunk, ChunkEnd
  <2>8. Answers(outputs, r)
    <3> HIDE DEF r
    <3> QED  BY DEF Answers
  <2>9. InferOf(w)'
    <3>1. Head(reply'[w]) # None => Answers(Head(reply'[w]), r)
      <4> HIDE DEF outputs, r
      <4> QED  BY <2>5, <2>6, <2>8
    <3>2. DOMAIN pipe'[w] = {}
      BY <2>6, EmptyIsSeq
    <3>3. Sent(serving.requests, w)' = r
      BY <2>7
    <3> HIDE DEF r
    <3> QED  BY <3>1, <3>2, <3>3 DEF InferOf, Answers
  <2>10. ASSUME NEW v \in Workers, v # w
         PROVE  InferOf(v)'
    <3>1. pipe'[v] = pipe[v] /\ reply'[v] = reply[v] /\ InferOf(v)
      BY <2>3, <2>6, <2>10
    <3>2. Sent(serving.requests, v)' = Sent(serving.requests, v)
      BY <2>7
    <3> QED  BY <3>1, <3>2 DEF InferOf, Answers
  <2>11. Workers' = Workers /\ IsSeq(serving.requests)'
    BY <2>1, <2>3 DEF Workers, IsSeq
  <2> QED  BY <2>9, <2>10, <2>11 DEF InferFacts
<1> QED  BY <1>1, <1>2, <1>3 DEF Worker
=============================================================================
