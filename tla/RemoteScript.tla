---------------------------- MODULE RemoteScript ----------------------------
(***************************************************************************)
(* One dialogue drives its machine over HTTP: the script is sent in chunks *)
(* to the one file pycodes.py, python is started on it and the request     *)
(* waits for its end, and at last the model is fetched.  Any request can   *)
(* fail for the client without failing on the machine: a chunk is written  *)
(* although, or after, the client gave up; a script goes on while the      *)
(* client posts it again.  The two harnesses differ in three respects, the *)
(* fields of a client:                                                     *)
(*                                                                         *)
(*   timeout   /execute is given up after 120 s  (training; not the tests) *)
(*   attempts  how often /execute is posted      (5; 3)                    *)
(*   checked   a failure ends the process        (tests; not training)     *)
(*                                                                         *)
(* The machine outlives the dialogue: what an earlier one left behind is   *)
(* script 0.                                                               *)
(***************************************************************************)
EXTENDS Integers, Sequences

CONSTANTS Clients,  \* the harnesses
          Steps,    \* steps of the dialogue
          Chunks    \* chunks of 500 characters in a script

ASSUME ScriptAssumption ==
  /\ Steps \in Nat \ {0} /\ Chunks \in Nat \ {0}
  /\ Clients \subseteq [timeout : BOOLEAN, attempts : Nat \ {0}, checked : BOOLEAN]

VARIABLES
  client,   \* the harness
  pc,       \* what it does next
  step,     \* the step of the dialogue
  sent,     \* chunks acknowledged
  attempt,  \* attempts of /execute, this one included
  script,   \* the chunks in pycodes.py
  late,     \* chunk requests that the machine has not handled yet
  copies,   \* the python processes on the machine
  model,    \* the step whose script exported what the download directory holds
  output,   \* output[k]: the script whose terminal output step k returned
  acked,    \* steps whose transfer succeeded
  delayed,  \* some chunk was handled after its request had failed
  lost      \* some answer of /execute did not reach the client

dialogue == <<client, step, sent, attempt, output, acked>>

machine == <<script, late, copies, model, delayed>>

vars == <<pc, dialogue, machine, lost>>

Chunk(k, i) == [of |-> k, i |-> i]

\* The first n chunks of the script of step k.
Part(k, n) == [i \in 1 .. n |-> Chunk(k, i)]

Whole(k) == Part(k, Chunks)

NoModel == -1

Leftover == [script |-> Whole(0), step |-> 0, attempt |-> 1]

Init ==
  /\ client \in Clients
  /\ pc = "reset" /\ step = 1 /\ sent = 0 /\ attempt = 1
  /\ script \in {<<>>, Whole(0)}
  /\ late \in {{}, {Chunk(0, Chunks)}}
  /\ copies \in {{}, {Leftover}}
  /\ model \in {NoModel, 0}
  /\ output = [k \in 1 .. Steps |-> <<>>]
  /\ acked = {} /\ delayed = (late # {}) /\ lost = FALSE

-----------------------------------------------------------------------------
(***************************************************************************)
(* The client.                                                             *)
(***************************************************************************)

\* (Mutant: the tests ignore failures too.)
OnFailureGoOn(next) == next

\* What a failure leads to: exit(0), or no more than a None.
OnFailure(next) == IF client.checked THEN "exited" ELSE next

\* clean_up_files: its success is not looked at.
Reset ==
  /\ pc = "reset" /\ pc' = "turn"
  /\ model' \in {model, NoModel} /\ script' \in {script, <<>>}
  /\ UNCHANGED <<dialogue, late, copies, delayed, lost>>

\* The training side runs nothing when the answer has no code block.
NoCode ==
  /\ pc = "turn" /\ ~ client.checked /\ pc' = "observe"
  /\ UNCHANGED <<dialogue, machine, lost>>

BeginTransfer ==
  /\ pc = "turn" /\ pc' = "send"
  /\ sent' = 0
  /\ UNCHANGED <<client, step, attempt, output, acked, machine, lost>>

\* create_file_b64 on the machine: mode 'w' for the first chunk, 'a' after it.
Written(chunk) == IF chunk.i = 1 THEN <<chunk>> ELSE Append(script, chunk)

\* _send_b64_chunk returns True.
SendChunk ==
  /\ pc = "send" /\ sent' = sent + 1
  /\ script' = Written(Chunk(step, sent'))
  /\ IF sent' = Chunks THEN pc' = "execute" /\ attempt' = 1 /\ acked' = acked \cup {step}
     ELSE UNCHANGED <<pc, attempt, acked>>
  /\ UNCHANGED <<client, step, output, late, copies, model, delayed, lost>>

\* It returns False: create_file stops and returns None.  The machine never
\* saw the chunk, has written it, or will.
TransferFails ==
  /\ pc = "send" /\ pc' = OnFailure("execute")
  /\ attempt' = 1
  /\ LET chunk == Chunk(step, sent + 1)
     IN  \/ UNCHANGED <<script, late, delayed>>
         \/ script' = Written(chunk) /\ UNCHANGED <<late, delayed>>
         \/ late' = late \cup {chunk} /\ delayed' = TRUE /\ UNCHANGED script
  /\ UNCHANGED <<client, step, sent, output, acked, copies, model, lost>>

\* (Mutant: the loop over the attempts has no end.)
AttemptForever ==
  /\ attempt' = 1
  /\ pc' = "execute"

\* (Mutant: one attempt too many, with <= as in get_file.)
NextAttemptLate ==
  IF attempt <= client.attempts
    THEN attempt' = attempt + 1 /\ pc' = "execute"
    ELSE UNCHANGED attempt /\ pc' = OnFailure("observe")

\* The loop of execute_python_command goes on, or gives up with None.
NextAttempt ==
  IF attempt < client.attempts
    THEN attempt' = attempt + 1 /\ pc' = "execute"
    ELSE UNCHANGED attempt /\ pc' = OnFailure("observe")

\* (Mutant: the request does not wait for the script.)
PostAndGoOn ==
  /\ pc = "execute" /\ pc' = "observe"
  /\ copies' = copies \cup {[script |-> script, step |-> step, attempt |-> attempt]}
  /\ UNCHANGED <<dialogue, script, late, model, delayed, lost>>

\* requests.post(.../execute): python reads the file and runs.
Post ==
  /\ pc = "execute" /\ pc' = "waiting"
  /\ copies' = copies \cup {[script |-> script, step |-> step, attempt |-> attempt]}
  /\ UNCHANGED <<dialogue, script, late, model, delayed, lost>>

\* The request fails before anything runs.
PostFails ==
  /\ pc = "execute"
  /\ NextAttempt
  /\ UNCHANGED <<client, step, sent, output, acked, machine, lost>>

\* The answer does not come: the connection breaks, or the timeout is over.
AnswerLost ==
  /\ pc = "waiting"
  /\ NextAttempt
  /\ lost' = TRUE
  /\ UNCHANGED <<client, step, sent, output, acked, machine>>

TimeOut == client.timeout /\ AnswerLost

\* The screenshot after the step; then the next answer of the model, or none.
Observe ==
  /\ pc = "observe"
  /\ \/ step < Steps /\ step' = step + 1 /\ pc' = "turn"
     \/ UNCHANGED step /\ pc' = "fetch"
  /\ UNCHANGED <<client, sent, attempt, output, acked, machine, lost>>

\* get_screenshot gave up.
NoScreenshot ==
  /\ pc \in {"reset", "observe"} /\ client.checked
  /\ pc' = "exited"
  /\ UNCHANGED <<dialogue, machine, lost>>

\* get_file, twice in the tests.
Fetch ==
  /\ pc = "fetch" /\ pc' = "done"
  /\ UNCHANGED <<dialogue, machine, lost>>

-----------------------------------------------------------------------------
(***************************************************************************)
(* The machine.                                                            *)
(***************************************************************************)

\* (Mutant: any answer is taken for the answer.)
AnyAnswer(c) == pc = "waiting"

\* The client still waits for the answer to the request that started c.
Awaited(c) == pc = "waiting" /\ c.step = step /\ c.attempt = attempt

\* A process ends, having exported a model or not, and its request is answered,
\* with a status other than 200 if the handler fails.
CopyEnds(c) ==
  /\ copies' = copies \ {c}
  /\ model' \in {model, c.step}
  /\ IF Awaited(c)
       THEN \/ pc' = "observe" /\ output' = [output EXCEPT ![step] = c.script]
               /\ UNCHANGED attempt
            \/ NextAttempt /\ UNCHANGED output
       ELSE UNCHANGED <<pc, attempt, output>>
  /\ UNCHANGED <<client, step, sent, acked, script, late, delayed, lost>>

\* A chunk whose request the client gave up is written now.
LateChunk(chunk) ==
  /\ late' = late \ {chunk}
  /\ script' = Written(chunk)
  /\ UNCHANGED <<pc, dialogue, copies, model, delayed, lost>>

-----------------------------------------------------------------------------

Client ==
  \/ Reset \/ NoCode \/ BeginTransfer \/ SendChunk \/ TransferFails
  \/ Post \/ PostFails \/ AnswerLost \/ Observe \/ NoScreenshot \/ Fetch

Machine ==
  \/ \E c \in copies : CopyEnds(c)
  \/ \E chunk \in late : LateChunk(chunk)

Next == Client \/ Machine

\* The client's thread posts what it has to, and the timeout of /execute fires.
\* Nothing is assumed of the machine: a script may run, or wait for somebody to
\* close a dialog, for ever, and so may the requests for a screenshot, for a file
\* and for cleaning, which have no timeout.
Fairness == WF_vars(Post \/ PostFails) /\ WF_vars(TimeOut)

Spec == Init /\ [][Next]_vars /\ Fairness

-----------------------------------------------------------------------------

ScriptContents == Seq([of : 0 .. Steps, i : 1 .. Chunks])

Processes == [script : ScriptContents, step : 0 .. Steps, attempt : Nat]

TypeOK ==
  /\ client \in Clients
  /\ pc \in {"reset", "turn", "send", "execute", "waiting", "observe", "fetch", "done",
             "exited"}
  /\ step \in 1 .. Steps
  /\ sent \in 0 .. Chunks /\ (pc = "send" => sent < Chunks)
  /\ attempt \in 1 .. client.attempts
  /\ script \in ScriptContents
  /\ late \subseteq [of : 0 .. Steps, i : 1 .. Chunks]
  /\ copies \subseteq Processes
  /\ model \in NoModel .. Steps
  /\ output \in [1 .. Steps -> ScriptContents]
  /\ acked \subseteq 1 .. step
  /\ delayed \in BOOLEAN /\ lost \in BOOLEAN

OwnCopies == {c \in copies : c.step > 0}

(***************************************************************************)
(* The machine is quiet between two steps and while the model is fetched,  *)
(* unless an answer of /execute was lost: without a timeout or a broken    *)
(* connection no script of this dialogue outlives its step or overlaps     *)
(* another one, in spite of the retries.                                   *)
(***************************************************************************)
QuietUnlessLost ==
  ~ lost =>
    /\ pc # "waiting" => OwnCopies = {}
    /\ \A c, d \in OwnCopies : c = d

(***************************************************************************)
(* The terminal output that a step returns, and the next prompt shows, is  *)
(* that of the whole script of this step and of no other, if its transfer  *)
(* succeeded and no chunk was written behind the client's back.            *)
(***************************************************************************)
OutputOfOwnScript ==
  ~ delayed => \A k \in acked : output[k] \in {<<>>, Whole(k)}

(***************************************************************************)
(* The tests never show or score the output of a step whose script did not *)
(* arrive as a whole: they stop.  (Training goes on and runs what is       *)
(* there, such as half a script or the one before.)                        *)
(***************************************************************************)
TestsRunWhatArrived ==
  client.checked => \A k \in 1 .. Steps : output[k] # <<>> => k \in acked

(***************************************************************************)
(* A model never gives way to one of an earlier step of the dialogue,      *)
(* unless an answer was lost: then the script that was given up may export *)
(* over the result of its successor.                                       *)
(***************************************************************************)
NoOlderModel ==
  [][model' > 0 /\ ~ lost => model' >= model]_vars

(***************************************************************************)
(* Training gets over every script, also over one that never ends, within  *)
(* the attempts.  (Whether the dialogue ends is up to the machine: the     *)
(* requests before and after /execute wait for ever for their answers.)    *)
(***************************************************************************)
ScriptsGotOver ==
  client.timeout => (pc \in {"execute", "waiting"} ~> pc \in {"observe", "exited"})

-----------------------------------------------------------------------------
(***************************************************************************)
(* The inductive invariant: which processes can run, and what is in the    *)
(* file, at each point of a step.                                          *)
(***************************************************************************)

\* No process and no model is of a later step; a step that has sent nothing
\* yet has no process, no transfer and no output.
StepOrder ==
  /\ model <= step
  /\ \A c \in copies : c.step <= step
  /\ \A k \in 1 .. Steps : k > step => output[k] = <<>>
  /\ pc \in {"reset", "turn", "send"} =>
       /\ step \notin acked /\ output[step] = <<>>
       /\ \A c \in copies : c.step < step

OnlyAwaitedRuns ==
  ~ lost =>
    /\ \A c \in OwnCopies : Awaited(c)
    /\ \A c, d \in OwnCopies : c = d

FileFollowsTransfer ==
  ~ delayed =>
    /\ late = {}
    /\ pc = "send" /\ sent > 0 => script = Part(step, sent)
    /\ pc \in {"execute", "waiting"} /\ step \in acked => script = Whole(step)
    /\ \A c \in copies : c.step \in acked => c.script = Whole(c.step)
    /\ \A k \in acked : output[k] \in {<<>>, Whole(k)}

TestsArrive ==
  client.checked =>
    /\ pc \in {"execute", "waiting"} => step \in acked
    /\ \A k \in 1 .. Steps : output[k] # <<>> => k \in acked

ScriptInv ==
  /\ TypeOK /\ StepOrder /\ OnlyAwaitedRuns /\ FileFollowsTransfer /\ TestsArrive
=============================================================================
