---------------------------- MODULE ClientProofs ----------------------------
(***************************************************************************)
(* The safety of wss::client and of the HTTP command interface client for  *)
(* every set of objects and commands and every number of attempts: no HTTP *)
(* object works for nobody, no attempt waits for nobody except in the three *)
(* known ways, and no handler is called twice.                             *)
(***************************************************************************)
EXTENDS Client, TLAPS

\* An object has a chain exactly if it has an operation, and a handler only then.
AtWork ==
  \A h \in Objects : /\ chain[h] = "idle" <=> op[h] = "none"
                     /\ handler[h] => chain[h] # "idle"

\* A behaviour has one of the two users.
OneUser ==
  /\ user = "connect" => owner = "none" /\ inFlight = {} /\ answered = {}
  /\ user = "command" => busy = "no" /\ direct = "idle"

\* A forsaken attempt stays in progress for ever; without one, every object of
\* the client that is at work will call a handler.
Forsaken ==
  /\ busy = "no" => forsaken = "no"
  /\ busy = "wss" => secured # "none"
  /\ user = "connect" /\ forsaken = "no" => \A h \in Objects : chain[h] # "idle" => handler[h]

\* One call is due while an attempt is in progress, and none otherwise.
CallDue == started = calls + IF busy = "no" THEN 0 ELSE 1

\* The inductive invariant.  That a forsaken attempt is never followed by
\* another is what keeps the handlers apart.
IInv ==
  /\ TypeOK /\ AttemptOwned /\ CommandsAccounted
  /\ AtWork /\ OneUser /\ Forsaken /\ CallDue

\* The part of TypeOK that is about the HTTP objects.
ObjectsTyped ==
  /\ chain \in [Objects -> Step] /\ op \in [Objects -> OpState]
  /\ handler \in [Objects -> BOOLEAN]
  /\ deadline \in [Objects -> {"off", "running", "past"}]
  /\ stream \in [Objects -> {"fresh", "session", "spent", "moved"}]

\* A step of an object's chain keeps who is at work.
KeepsAtWork ==
  \A h \in Objects : chain'[h] = "idle" <=> chain[h] = "idle"
-----------------------------------------------------------------------------
(* The operators of HttpClient. *)

LEMMA TypedObjects == TypeOK => ObjectsTyped
BY DEF TypeOK, ObjectsTyped

\* The library reports something of an operation or of the deadline.
LEMMA ReportedObjects ==
  ASSUME ObjectsTyped, AtWork, NEW h \in Objects,
         OpSucceeds(h) \/ OpFails(h) \/ OpTimesOut(h) \/ DeadlineExpires(h)
  PROVE  ObjectsTyped' /\ AtWork' /\ KeepsAtWork /\ handler' = handler
<1> USE DEF OpSucceeds, OpFails, OpTimesOut, DeadlineExpires
<1>1. ObjectsTyped'
  BY DEF ObjectsTyped, OpState, Failure
<1>2. \A g \in Objects : /\ chain'[g] = chain[g] /\ handler'[g] = handler[g]
                         /\ op'[g] = op[g] \/ (op[g] = "pending" /\ op'[g] \in {"done", "error", "timeout"})
  BY DEF ObjectsTyped
<1>3. AtWork' /\ KeepsAtWork
  BY <1>2 DEF AtWork, KeepsAtWork
<1> QED BY <1>1, <1>3

\* The next operation of the chain starts.
LEMMA FinishStepObjects ==
  ASSUME ObjectsTyped, AtWork, NEW h \in Objects, FinishStep(h)
  PROVE  ObjectsTyped' /\ AtWork' /\ KeepsAtWork /\ handler' = handler
<1> USE DEF FinishStep
<1> DEFINE next == CASE chain[h] = "resolve"   -> "connect"
                     [] chain[h] = "connect"   -> IF h \in TlsObjects THEN "handshake" ELSE "write"
                     [] chain[h] = "handshake" -> "write"
                     [] chain[h] = "write"     -> "read"
<1>1. chain[h] \in {"resolve", "connect", "handshake", "write"}
  BY DEF ObjectsTyped, AtWork, Step
<1>2. next \in Step \ {"idle"}
  BY <1>1 DEF Step
<1>3. chain' = [chain EXCEPT ![h] = next]
  OBVIOUS
<1> HIDE DEF next
<1>4. chain' \in [Objects -> Step] /\ op' \in [Objects -> OpState] /\ handler' = handler
  BY <1>2, <1>3 DEF ObjectsTyped, OpState
<1>5. /\ deadline' \in [Objects -> {"off", "running", "past"}]
      /\ stream' \in [Objects -> {"fresh", "session", "spent", "moved"}]
  BY DEF ObjectsTyped
<1>6. \A g \in Objects : /\ chain'[g] = (IF g = h THEN next ELSE chain[g])
                         /\ op'[g] = (IF g = h THEN "pending" ELSE op[g])
  BY <1>3 DEF ObjectsTyped
<1>7. AtWork' /\ KeepsAtWork
  BY <1>1, <1>2, <1>4, <1>6 DEF AtWork, KeepsAtWork
<1> QED BY <1>4, <1>5, <1>7 DEF ObjectsTyped

\* A request starts on an object that has none.
LEMMA AsyncRequestObjects ==
  ASSUME ObjectsTyped, AtWork, NEW h \in Objects, AsyncRequest(h)
  PROVE  /\ ObjectsTyped' /\ AtWork'
         /\ \A g \in Objects : /\ chain'[g] = (IF g = h THEN "resolve" ELSE chain[g])
                               /\ handler'[g] <=> g = h \/ handler[g]
                               /\ op'[g] = (IF g = h THEN "pending" ELSE op[g])
<1> USE DEF AsyncRequest
<1>1. \A g \in Objects : /\ chain'[g] = (IF g = h THEN "resolve" ELSE chain[g])
                         /\ handler'[g] <=> g = h \/ handler[g]
                         /\ op'[g] = (IF g = h THEN "pending" ELSE op[g])
  BY DEF ObjectsTyped
<1>2. ObjectsTyped'
  BY DEF ObjectsTyped, Step, OpState, Reused
<1>3. AtWork'
  BY <1>1 DEF AtWork
<1> QED BY <1>1, <1>2, <1>3

\* A cancel ends what it reaches with operation_aborted, and nobody's work.
LEMMA CancelObjects ==
  ASSUME ObjectsTyped, AtWork, NEW S \in SUBSET Objects, CancelAll(S),
         UNCHANGED <<chain, handler, deadline, stream>>
  PROVE  ObjectsTyped' /\ AtWork' /\ KeepsAtWork
<1>1. PICK reached \in SUBSET Cancellable(S) :
        op' = [h \in Objects |-> IF h \in reached THEN "aborted" ELSE op[h]]
  BY DEF CancelAll
<1>2. \A h \in reached : h \in Objects /\ op[h] = "pending"
  BY DEF Cancellable
<1>3. ObjectsTyped'
  BY <1>1 DEF ObjectsTyped, OpState, Failure
<1>4. AtWork' /\ KeepsAtWork
  BY <1>1, <1>2 DEF AtWork, KeepsAtWork
<1> QED BY <1>3, <1>4

\* The end of the chain, with or without a request that follows on the object.
LEMMA CompleteObjects ==
  ASSUME ObjectsTyped, AtWork, NEW h \in Objects, NEW again \in BOOLEAN, Complete(h, again)
  PROVE  /\ chain' \in [Objects -> Step] /\ op' \in [Objects -> OpState]
         /\ handler' \in [Objects -> BOOLEAN] /\ AtWork'
         /\ \A g \in Objects :
              /\ chain'[g] = (IF g = h THEN IF again THEN "resolve" ELSE "idle" ELSE chain[g])
              /\ op'[g] = (IF g = h THEN IF again THEN "pending" ELSE "none" ELSE op[g])
              /\ handler'[g] <=> g # h /\ handler[g]
<1> USE DEF Complete
<1>1. \A g \in Objects :
        /\ chain'[g] = (IF g = h THEN IF again THEN "resolve" ELSE "idle" ELSE chain[g])
        /\ op'[g] = (IF g = h THEN IF again THEN "pending" ELSE "none" ELSE op[g])
        /\ handler'[g] <=> g # h /\ handler[g]
  BY DEF ObjectsTyped
<1>2. chain' \in [Objects -> Step] /\ op' \in [Objects -> OpState] /\ handler' \in [Objects -> BOOLEAN]
  BY DEF ObjectsTyped, Step, OpState
<1>3. AtWork'
  BY <1>1 DEF AtWork
<1> QED BY <1>1, <1>2, <1>3
-----------------------------------------------------------------------------
LEMMA InitIInv == Init => IInv
<1> SUFFICES ASSUME Init PROVE IInv
  OBVIOUS
<1> USE ClientAssumption DEF Init, HttpInit
<1>1. TypeOK
  <2>1. ObjectsTyped
    BY DEF ObjectsTyped, Step, OpState
  <2>2. undefined \in BOOLEAN
    OBVIOUS
  <2>3. started \in 0 .. MaxAttempts /\ calls \in 0 .. started
    OBVIOUS
  <2>4. /\ user \in {"connect", "command"} /\ busy \in {"no", "ws", "wss", "tcp"}
        /\ forsaken \in {"no", "replaced", "endpoint", "reentrant"} /\ last \in Result
        /\ secured \in {"none"} \cup TlsObjects /\ direct \in {"idle", "resolve", "connect"}
        /\ owner \in {"none", "alive", "gone"} /\ port \in {"none", "offered", "1"}
        /\ inFlight \subseteq Commands /\ answered \subseteq Commands
    BY DEF Result
  <2> HIDE DEF Init, HttpInit
  <2> QED BY <2>1, <2>2, <2>3, <2>4 DEF ObjectsTyped, TypeOK
<1>2. AttemptOwned /\ CommandsAccounted /\ AtWork /\ Forsaken
  BY DEF AttemptOwned, CommandsAccounted, AtWork, Forsaken
<1>3. OneUser
  BY DEF OneUser
<1>4. CallDue
  BY DEF CallDue
<1> QED BY <1>1, <1>2, <1>3, <1>4 DEF IInv

LEMMA StutterIInv == IInv /\ UNCHANGED vars => IInv'
BY DEF IInv, vars, httpVars, attemptVars, commandVars, TypeOK, AttemptOwned, CommandsAccounted,
       AtWork, OneUser, Forsaken, CallDue, ObjectOf

\* A step of an object that neither starts nor ends a request.
LEMMA ChainStep ==
  ASSUME IInv, ObjectsTyped', AtWork', KeepsAtWork, handler' = handler, undefined' \in BOOLEAN,
         UNCHANGED <<user, attemptVars, commandVars>>
  PROVE  IInv'
<1> USE ClientAssumption DEF attemptVars, commandVars
<1>0. /\ TypeOK /\ AttemptOwned /\ CommandsAccounted
      /\ OneUser /\ Forsaken /\ CallDue
  BY DEF IInv
<1>1. TypeOK'
  BY <1>0 DEF TypeOK, ObjectsTyped
<1>2. AttemptOwned' /\ Forsaken'
  BY <1>0 DEF KeepsAtWork, AttemptOwned, Forsaken, ObjectOf
<1>3. CommandsAccounted'
  BY <1>0 DEF TypeOK, KeepsAtWork, CommandsAccounted
<1>4. OneUser' /\ CallDue'
  BY <1>0 DEF OneUser, CallDue
<1> QED BY <1>1, <1>2, <1>3, <1>4 DEF IInv

\* The object of an attempt is one of the objects.
LEMMA ObjectOfObjects ==
  ASSUME TypeOK, NEW scheme \in {"ws", "wss"}, scheme = "wss" => secured # "none"
  PROVE  /\ ObjectOf(scheme) \in Objects /\ ObjectOf(scheme) \notin Commands
         /\ ObjectOf(scheme) \in TlsObjects <=> scheme = "wss"
BY ClientAssumption, TlsObjectsAssumption DEF TypeOK, ObjectOf

LEMMA ProceedIInv ==
  ASSUME IInv, NEW h \in Objects, Proceed(h)
  PROVE  IInv'
<1>0. TypeOK /\ ObjectsTyped /\ AtWork
  BY TypedObjects DEF IInv
<1>1. undefined' \in BOOLEAN
  BY <1>0 DEF Proceed, FinishStep, TypeOK
<1> QED BY <1>0, <1>1, ReportedObjects, FinishStepObjects, ChainStep DEF Proceed

LEMMA CommandStepIInv ==
  ASSUME IInv, NEW k \in Commands, CommandStep(k)
  PROVE  IInv'
<1>0. TypeOK /\ ObjectsTyped /\ AtWork /\ k \in Objects
  BY TypedObjects, ClientAssumption DEF IInv
<1>1. undefined' \in BOOLEAN
  BY <1>0 DEF CommandStep, FinishStep, TypeOK
<1> QED BY <1>0, <1>1, ReportedObjects, FinishStepObjects, ChainStep DEF CommandStep

\* Replacing the https_client ends an attempt that uses it.
LEMMA EnableTlsIInv ==
  ASSUME IInv, NEW h \in TlsObjects, EnableTls(h)
  PROVE  IInv'
<1> USE ClientAssumption, TlsObjectsAssumption DEF EnableTls, commandVars
<1>0. /\ TypeOK /\ AttemptOwned /\ CommandsAccounted
      /\ AtWork /\ OneUser /\ Forsaken /\ CallDue /\ ObjectsTyped
  BY TypedObjects DEF IInv
<1>1. CASE secured = "none"
  <2>1. UNCHANGED <<chain, op, handler, deadline, stream, forsaken>> /\ busy # "wss"
    BY <1>0, <1>1 DEF httpVars, Forsaken
  <2>2. TypeOK'
    BY <1>0, <2>1 DEF TypeOK
  <2>3. AttemptOwned'
    BY <1>0, <2>1 DEF AttemptOwned, ObjectOf
  <2>4. Forsaken' /\ CommandsAccounted' /\ AtWork' /\ OneUser' /\ CallDue'
    BY <1>0, <2>1 DEF CommandsAccounted, AtWork, OneUser, CallDue, Forsaken
  <2> QED BY <2>2, <2>3, <2>4 DEF IInv
<1>2. CASE secured # "none"
  <2>1. secured \in TlsObjects /\ secured \in Objects /\ secured # "http" /\ secured \notin Commands
    BY <1>0, <1>2 DEF TypeOK
  <2>2. forsaken' = IF busy = "wss" /\ forsaken = "no" THEN "replaced" ELSE forsaken
    BY <1>2
  <2>3. \A g \in Objects : /\ chain'[g] = (IF g = secured THEN "idle" ELSE chain[g])
                           /\ op'[g] = (IF g = secured THEN "none" ELSE op[g])
                           /\ handler'[g] <=> g # secured /\ handler[g]
    BY <1>0, <1>2, <2>1 DEF ObjectsTyped
  <2>4. ObjectsTyped'
    BY <1>0, <1>2, <2>1 DEF ObjectsTyped, Step, OpState
  <2>5. TypeOK'
    BY <1>0, <2>2, <2>4 DEF TypeOK, ObjectsTyped
  <2>6. ASSUME NEW g \in Objects, handler'[g]
        PROVE  chain'[g] # "idle" /\ busy' = "ws" /\ g = "http" /\ forsaken' = "no"
    BY <1>0, <2>1, <2>2, <2>3, <2>6 DEF AttemptOwned, ObjectOf
  <2>7. busy' = "ws" /\ forsaken' = "no" => handler'["http"]
    BY <1>0, <2>1, <2>2, <2>3 DEF AttemptOwned, ObjectOf
  <2>8. busy' = "wss" => forsaken' # "no"
    BY <2>2
  <2>9. AttemptOwned'
    BY <1>0, <2>2, <2>6, <2>7, <2>8 DEF AttemptOwned, ObjectOf
  <2>10. CommandsAccounted' /\ AtWork'
    BY <1>0, <2>1, <2>3 DEF TypeOK, CommandsAccounted, AtWork
  <2>11. Forsaken'
    BY <1>0, <2>2, <2>3 DEF Forsaken
  <2>12. OneUser' /\ CallDue'
    BY <1>0 DEF OneUser, CallDue
  <2> QED BY <2>5, <2>9, <2>10, <2>11, <2>12 DEF IInv
<1> QED BY <1>1, <1>2

\* An attempt starts on its object; there was none before.
LEMMA ConnectHttpIInv ==
  ASSUME IInv, NEW scheme \in {"ws", "wss"}, ConnectHttp(scheme)
  PROVE  IInv'
<1> USE ClientAssumption, TlsObjectsAssumption DEF ConnectHttp, Begin, commandVars
<1> DEFINE h == ObjectOf(scheme)
<1>0. /\ TypeOK /\ AttemptOwned /\ CommandsAccounted
      /\ AtWork /\ OneUser /\ Forsaken /\ CallDue /\ ObjectsTyped
  BY TypedObjects DEF IInv
<1>1. h \in Objects /\ h \notin Commands
  BY <1>0, ObjectOfObjects
<1>2. /\ ObjectsTyped' /\ AtWork'
      /\ \A g \in Objects : /\ chain'[g] = (IF g = h THEN "resolve" ELSE chain[g])
                            /\ handler'[g] <=> g = h \/ handler[g]
                            /\ op'[g] = (IF g = h THEN "pending" ELSE op[g])
  BY <1>0, <1>1, AsyncRequestObjects
<1>3. /\ forsaken = "no" /\ forsaken' = "no" /\ busy' = scheme /\ user = "connect"
      /\ ObjectOf(busy)' = h /\ direct' = direct /\ direct = "idle"
      /\ \A g \in Objects : ~handler[g] /\ chain[g] = "idle"
  BY <1>0 DEF Forsaken, AttemptOwned, ObjectOf
<1>4. started = calls /\ started' = calls' + 1 /\ calls' = calls /\ started' \in 0 .. MaxAttempts
      /\ calls' \in 0 .. started'
  BY <1>0 DEF CallDue, TypeOK
<1>5. TypeOK'
  BY <1>0, <1>2, <1>3, <1>4 DEF TypeOK, ObjectsTyped
<1>6. AttemptOwned'
  BY <1>1, <1>2, <1>3, <1>4, <1>0 DEF AttemptOwned, TypeOK
<1>7. Forsaken'
  BY <1>0, <1>1, <1>2, <1>3 DEF Forsaken
<1>8. CommandsAccounted'
  BY <1>0, <1>1, <1>2 DEF TypeOK, CommandsAccounted
<1>9. OneUser'
  BY <1>0, <1>3 DEF OneUser
<1>10. CallDue'
  BY <1>3, <1>4 DEF CallDue
<1> QED BY <1>2, <1>5, <1>6, <1>7, <1>8, <1>9, <1>10 DEF IInv

LEMMA ConnectDirectIInv ==
  ASSUME IInv, ConnectDirect
  PROVE  IInv'
<1> USE ClientAssumption DEF ConnectDirect, Begin, commandVars, httpVars
<1>0. /\ TypeOK /\ AttemptOwned /\ CommandsAccounted
      /\ AtWork /\ OneUser /\ Forsaken /\ CallDue
  BY DEF IInv
<1>1. started = calls /\ started' = calls' + 1 /\ started' \in 0 .. MaxAttempts
      /\ calls' \in 0 .. started'
  BY <1>0 DEF CallDue, TypeOK
<1>2. TypeOK'
  BY <1>0, <1>1 DEF TypeOK
<1>3. forsaken = "no" /\ forsaken' = "no" /\ \A g \in Objects : ~handler'[g]
  BY <1>0 DEF Forsaken, AttemptOwned
<1>4. AttemptOwned'
  BY <1>0, <1>1, <1>3 DEF AttemptOwned, TypeOK
<1>5. CommandsAccounted' /\ AtWork' /\ OneUser' /\ Forsaken'
  BY <1>0 DEF CommandsAccounted, AtWork, OneUser, Forsaken
<1>6. CallDue'
  BY <1>1 DEF CallDue
<1> QED BY <1>2, <1>4, <1>5, <1>6 DEF IInv

\* A cancel reaches operations or misses them; the attempt stays in progress.
LEMMA CancelIInv ==
  ASSUME IInv, Cancel
  PROVE  IInv'
<1> USE ClientAssumption, TlsObjectsAssumption
<1> DEFINE S == {"http"} \cup ({secured} \cap Objects)
<1>0. /\ TypeOK /\ AttemptOwned /\ CommandsAccounted
      /\ AtWork /\ OneUser /\ Forsaken /\ CallDue /\ ObjectsTyped
  BY TypedObjects DEF IInv
<1>1. /\ user = "connect" /\ CancelAll(S)
      /\ undefined' = (undefined \/ \E h \in S : stream[h] = "moved")
      /\ UNCHANGED <<chain, handler, deadline, stream, user, busy, forsaken, started, calls, last,
                     secured, direct, owner, port, inFlight, answered>>
  BY DEF Cancel, commandVars
<1>2. S \in SUBSET Objects
  OBVIOUS
<1> HIDE DEF S
<1>3. ObjectsTyped' /\ AtWork' /\ KeepsAtWork
  BY <1>0, <1>1, <1>2, CancelObjects
<1>4. TypeOK'
  <2>1. undefined' \in BOOLEAN
    BY <1>1
  <2> QED BY <1>0, <1>1, <1>3, <2>1 DEF TypeOK, ObjectsTyped
<1>5. AttemptOwned' /\ Forsaken'
  BY <1>0, <1>1 DEF AttemptOwned, Forsaken, ObjectOf
<1>6. CommandsAccounted' /\ OneUser' /\ CallDue'
  BY <1>0, <1>1 DEF CommandsAccounted, OneUser, CallDue
<1> QED BY <1>3, <1>4, <1>5, <1>6 DEF IInv

\* What the end of an attempt's request leaves: nobody holds a handler, and only
\* a request made inside the handler is still at work.
LEMMA EndOfAttempt ==
  ASSUME IInv, NEW h \in Objects, user = "connect", handler[h], NEW again \in BOOLEAN, Complete(h, again)
  PROVE  /\ busy \in {"ws", "wss"} /\ h = ObjectOf(busy) /\ forsaken = "no" /\ direct = "idle"
         /\ h \notin Commands
         /\ chain' \in [Objects -> Step] /\ op' \in [Objects -> OpState]
         /\ handler' \in [Objects -> BOOLEAN] /\ AtWork'
         /\ \A g \in Objects : ~handler'[g] /\ (~again => chain'[g] = "idle")
         /\ started = calls + 1 /\ started \in 0 .. MaxAttempts /\ calls \in Nat
         /\ inFlight = {} /\ answered = {}
<1>0. /\ TypeOK /\ AttemptOwned /\ AtWork /\ OneUser /\ Forsaken /\ CallDue /\ ObjectsTyped
  BY TypedObjects DEF IInv
<1>1. busy \in {"ws", "wss"} /\ h = ObjectOf(busy) /\ forsaken = "no" /\ direct = "idle"
  BY <1>0 DEF AttemptOwned
<1>2. h \notin Commands
  BY <1>0, <1>1, ObjectOfObjects DEF Forsaken
<1>3. /\ chain' \in [Objects -> Step] /\ op' \in [Objects -> OpState]
      /\ handler' \in [Objects -> BOOLEAN] /\ AtWork'
      /\ \A g \in Objects :
           /\ chain'[g] = (IF g = h THEN IF again THEN "resolve" ELSE "idle" ELSE chain[g])
           /\ op'[g] = (IF g = h THEN IF again THEN "pending" ELSE "none" ELSE op[g])
           /\ handler'[g] <=> g # h /\ handler[g]
  BY <1>0, CompleteObjects
<1>4. \A g \in Objects : g # h => ~handler[g] /\ chain[g] = "idle"
  BY <1>0, <1>1 DEF AttemptOwned, Forsaken
<1>5. started = calls + 1 /\ started \in 0 .. MaxAttempts /\ calls \in Nat
  BY <1>0, <1>1, ClientAssumption DEF TypeOK, CallDue
<1>6. inFlight = {} /\ answered = {}
  BY <1>0 DEF OneUser
<1> QED BY <1>1, <1>2, <1>3, <1>4, <1>5, <1>6

\* The handler was called, and may have started the next attempt.
LEMMA AnsweredIInv ==
  ASSUME IInv, NEW h \in Objects, user = "connect", handler[h], NEW again \in BOOLEAN, Complete(h, again),
         NEW result \in Result, Report(result), Follow(again),
         forsaken' = IF again THEN "reentrant" ELSE forsaken,
         deadline' \in [Objects -> {"off", "running", "past"}],
         stream' \in [Objects -> {"fresh", "session", "spent", "moved"}],
         UNCHANGED <<undefined, user, secured, direct, commandVars>>
  PROVE  IInv'
<1> USE ClientAssumption, TlsObjectsAssumption DEF commandVars
<1>0. /\ TypeOK /\ CommandsAccounted /\ OneUser /\ Forsaken
  BY DEF IInv
<1>1. /\ busy \in {"ws", "wss"} /\ h = ObjectOf(busy) /\ forsaken = "no" /\ direct = "idle"
      /\ h \notin Commands
      /\ chain' \in [Objects -> Step] /\ op' \in [Objects -> OpState]
      /\ handler' \in [Objects -> BOOLEAN] /\ AtWork'
      /\ \A g \in Objects : ~handler'[g] /\ (~again => chain'[g] = "idle")
      /\ started = calls + 1 /\ started \in 0 .. MaxAttempts /\ calls \in Nat
      /\ inFlight = {} /\ answered = {}
  BY EndOfAttempt
<1>2. /\ calls' = calls + 1 /\ last' = result
      /\ again => started' = started + 1 /\ started < MaxAttempts /\ busy' = busy
      /\ ~again => started' = started /\ busy' = "no"
  BY DEF Report, Follow, Begin
<1>3. /\ calls' \in 0 .. started' /\ started' \in 0 .. MaxAttempts /\ CallDue'
      /\ busy' = "no" <=> calls' = started'
  BY <1>1, <1>2 DEF CallDue
<1>4. TypeOK'
  BY <1>0, <1>1, <1>2, <1>3 DEF TypeOK
<1>5. AttemptOwned'
  BY <1>1, <1>2, <1>3 DEF AttemptOwned, ObjectOf
<1>6. Forsaken'
  BY <1>0, <1>1, <1>2 DEF Forsaken
<1>7. CommandsAccounted' /\ OneUser'
  BY <1>0, <1>1 DEF CommandsAccounted, OneUser
<1> QED BY <1>1, <1>3, <1>4, <1>5, <1>6, <1>7 DEF IInv

LEMMA DoneIInv ==
  ASSUME IInv, NEW h \in Objects, Done(h)
  PROVE  IInv'
<1>0. TypeOK
  BY DEF IInv
<1>1. PICK result \in Failure \cup {"bad_status"}, again \in BOOLEAN :
        /\ Complete(h, again) /\ Report(result) /\ Follow(again)
        /\ forsaken' = IF again THEN "reentrant" ELSE forsaken
        /\ stream' = IF again THEN Reused(h) ELSE stream
  BY DEF Done
<1>2. /\ user = "connect" /\ handler[h]
      /\ UNCHANGED <<deadline, undefined, user, secured, direct, commandVars>>
  BY DEF Done
<1>3. stream' \in [Objects -> {"fresh", "session", "spent", "moved"}]
  BY <1>0, <1>1 DEF TypeOK, Reused
<1>4. deadline' \in [Objects -> {"off", "running", "past"}]
  BY <1>0, <1>2 DEF TypeOK
<1>5. result \in Result
  BY DEF Result
<1> QED BY <1>1, <1>2, <1>3, <1>4, <1>5, AnsweredIInv

\* The hand-over of the stream to a connection.
LEMMA ConnectedIInv ==
  ASSUME IInv, NEW h \in Objects, Connected(h)
  PROVE  IInv'
<1> USE ClientAssumption, TlsObjectsAssumption
<1>0. TypeOK /\ CommandsAccounted /\ OneUser /\ Forsaken
  BY DEF IInv
<1>1. /\ user = "connect" /\ handler[h]
      /\ UNCHANGED <<undefined, user, secured, direct, commandVars>>
  BY DEF Connected
<1>3. CASE /\ Complete(h, FALSE) /\ forsaken' = "endpoint"
           /\ UNCHANGED <<busy, started, calls, last, deadline, stream>>
  <2>1. /\ busy \in {"ws", "wss"} /\ h = ObjectOf(busy) /\ forsaken = "no" /\ direct = "idle"
        /\ h \notin Commands
        /\ chain' \in [Objects -> Step] /\ op' \in [Objects -> OpState]
        /\ handler' \in [Objects -> BOOLEAN] /\ AtWork'
        /\ \A g \in Objects : ~handler'[g] /\ (~FALSE => chain'[g] = "idle")
        /\ started = calls + 1 /\ started \in 0 .. MaxAttempts /\ calls \in Nat
        /\ inFlight = {} /\ answered = {}
    BY <1>1, <1>3, EndOfAttempt
  <2>3. TypeOK'
    BY <1>0, <1>1, <1>3, <2>1 DEF TypeOK, commandVars
  <2>4. AttemptOwned'
    <3>1. busy' # "no" /\ calls' # started'
      BY <1>3, <2>1
    <3> QED BY <1>1, <1>3, <2>1, <3>1 DEF AttemptOwned
  <2>5. CommandsAccounted' /\ OneUser' /\ Forsaken'
    BY <1>0, <1>1, <1>3, <2>1
    DEF CommandsAccounted, OneUser, Forsaken, commandVars
  <2>6. CallDue'
    BY <1>3, <2>1 DEF CallDue
  <2> QED BY <2>1, <2>3, <2>4, <2>5, <2>6 DEF IInv
<1>4. ASSUME NEW again \in BOOLEAN, Complete(h, again), Report("connected"), Follow(again),
             forsaken' = IF again THEN "reentrant" ELSE forsaken,
             IF h \in TlsObjects
               THEN /\ deadline' = [deadline EXCEPT ![h] = "off"]
                    /\ stream' = [stream EXCEPT ![h] = "moved"]
               ELSE UNCHANGED <<deadline, stream>>
      PROVE  IInv'
  <2>1. /\ deadline' \in [Objects -> {"off", "running", "past"}]
        /\ stream' \in [Objects -> {"fresh", "session", "spent", "moved"}]
    BY <1>0, <1>4 DEF TypeOK
  <2>3. "connected" \in Result
    BY DEF Result
  <2> QED BY <1>1, <1>4, <2>1, <2>3, AnsweredIInv
<1> QED BY <1>3, <1>4 DEF Connected

\* A request that lost its handler ends unheard: the attempt is forsaken.
LEMMA UnheardIInv ==
  ASSUME IInv, NEW h \in Objects, Unheard(h)
  PROVE  IInv'
<1>0. /\ TypeOK /\ AttemptOwned /\ CommandsAccounted
      /\ AtWork /\ OneUser /\ Forsaken /\ CallDue /\ ObjectsTyped
  BY TypedObjects DEF IInv
<1>1. /\ user = "connect" /\ ~handler[h] /\ Complete(h, FALSE)
      /\ UNCHANGED <<deadline, stream, undefined, user, attemptVars, commandVars>>
  BY DEF Unheard
<1>2. /\ chain' \in [Objects -> Step] /\ op' \in [Objects -> OpState]
      /\ handler' \in [Objects -> BOOLEAN] /\ AtWork'
      /\ \A g \in Objects :
           /\ chain'[g] = (IF g = h THEN IF FALSE THEN "resolve" ELSE "idle" ELSE chain[g])
           /\ op'[g] = (IF g = h THEN IF FALSE THEN "pending" ELSE "none" ELSE op[g])
           /\ handler'[g] <=> g # h /\ handler[g]
  BY <1>0, <1>1, CompleteObjects
<1>3. forsaken # "no"
  <2>1. chain[h] # "idle"
    BY <1>0, <1>1 DEF AtWork, Complete, Completes, Failure
  <2> QED BY <1>0, <1>1, <2>1 DEF Forsaken
<1>4. TypeOK'
  BY <1>0, <1>1, <1>2 DEF TypeOK, attemptVars, commandVars
<1>5. AttemptOwned' /\ Forsaken'
  BY <1>0, <1>1, <1>2, <1>3 DEF AttemptOwned, Forsaken, attemptVars
<1>6. CommandsAccounted' /\ OneUser' /\ CallDue'
  BY <1>0, <1>1, <1>2 DEF CommandsAccounted, OneUser, CallDue, attemptVars, commandVars
<1> QED BY <1>2, <1>4, <1>5, <1>6 DEF IInv

LEMMA DirectStepIInv ==
  ASSUME IInv, DirectStep
  PROVE  IInv'
<1> USE ClientAssumption DEF commandVars, httpVars
<1>0. /\ TypeOK /\ AttemptOwned /\ CommandsAccounted
      /\ AtWork /\ OneUser /\ Forsaken /\ CallDue
  BY DEF IInv
<1>1. /\ direct # "idle"
      /\ UNCHANGED <<httpVars, undefined, user, started, secured, commandVars>>
  BY DEF DirectStep
<1>2. user = "connect" /\ busy = "tcp" /\ forsaken = "no" /\ \A g \in Objects : ~handler[g]
  BY <1>0, <1>1 DEF TypeOK, OneUser, AttemptOwned
<1>3. started = calls + 1 /\ calls \in Nat /\ started \in 0 .. MaxAttempts
  BY <1>0, <1>2 DEF CallDue, TypeOK
<1>4. \/ /\ direct' = "connect" /\ UNCHANGED <<busy, forsaken, calls, last>>
      \/ /\ direct' = "idle" /\ busy' = "no" /\ calls' = calls + 1
         /\ last' \in {"error", "connected"} /\ forsaken' = forsaken
      \/ /\ direct' = "idle" /\ forsaken' = "endpoint" /\ UNCHANGED <<busy, calls, last>>
  BY DEF DirectStep, Report
<1>5. /\ calls' \in 0 .. started' /\ started' \in 0 .. MaxAttempts
      /\ busy' = "no" <=> calls' = started'
      /\ CallDue'
  BY <1>1, <1>2, <1>3, <1>4 DEF CallDue
<1>6. TypeOK'
  <2>1. last' \in Result
    BY <1>0, <1>4 DEF TypeOK, Result, Failure
  <2>2. /\ direct' \in {"idle", "resolve", "connect"} /\ busy' \in {"no", "ws", "wss", "tcp"}
        /\ forsaken' \in {"no", "replaced", "endpoint", "reentrant"}
    BY <1>2, <1>4
  <2> QED BY <1>0, <1>1, <1>5, <2>1, <2>2 DEF TypeOK
<1>7. AttemptOwned'
  BY <1>1, <1>2, <1>4, <1>5 DEF AttemptOwned
<1>8. Forsaken'
  BY <1>0, <1>1, <1>2, <1>4 DEF Forsaken
<1>9. CommandsAccounted' /\ AtWork' /\ OneUser'
  BY <1>0, <1>1, <1>2 DEF CommandsAccounted, AtWork, OneUser
<1> QED BY <1>5, <1>6, <1>7, <1>8, <1>9 DEF IInv

LEMMA CreateClientIInv ==
  ASSUME IInv, NEW offer \in Offer, CreateClient(offer)
  PROVE  IInv'
<1> USE DEF CreateClient, httpVars, attemptVars
<1>0. /\ TypeOK /\ AttemptOwned /\ CommandsAccounted
      /\ AtWork /\ OneUser /\ Forsaken /\ CallDue
  BY DEF IInv
<1>1. TypeOK'
  BY <1>0 DEF TypeOK
<1>2. AttemptOwned' /\ Forsaken' /\ CallDue'
  BY <1>0 DEF AttemptOwned, Forsaken, CallDue, ObjectOf
<1>3. CommandsAccounted' /\ AtWork' /\ OneUser'
  BY <1>0 DEF CommandsAccounted, AtWork, OneUser
<1> QED BY <1>1, <1>2, <1>3 DEF IInv

\* For the steps of the command interface client the attempts stand still.
LEMMA CommandsOnly ==
  ASSUME IInv, user = "command", user' = user, UNCHANGED attemptVars, TypeOK', AtWork', CommandsAccounted'
  PROVE  IInv'
BY DEF IInv, attemptVars, AttemptOwned, OneUser, Forsaken, CallDue

LEMMA SendCommandIInv ==
  ASSUME IInv, NEW k \in Commands, SendCommand(k)
  PROVE  IInv'
<1> USE ClientAssumption DEF SendCommand
<1>0. /\ TypeOK /\ CommandsAccounted /\ AtWork /\ OneUser /\ ObjectsTyped /\ k \in Objects
  BY TypedObjects DEF IInv
<1>1. user = "command"
  BY <1>0 DEF TypeOK, OneUser
<1>2. /\ ObjectsTyped' /\ AtWork'
      /\ \A g \in Objects : /\ chain'[g] = (IF g = k THEN "resolve" ELSE chain[g])
                            /\ handler'[g] <=> g = k \/ handler[g]
                            /\ op'[g] = (IF g = k THEN "pending" ELSE op[g])
  BY <1>0, AsyncRequestObjects
<1>3. TypeOK'
  BY <1>0, <1>2 DEF TypeOK, ObjectsTyped, attemptVars
<1>4. CommandsAccounted'
  BY <1>0, <1>2 DEF TypeOK, CommandsAccounted
<1> QED BY <1>1, <1>2, <1>3, <1>4, CommandsOnly

LEMMA CommandDoneIInv ==
  ASSUME IInv, NEW k \in Commands, CommandDone(k)
  PROVE  IInv'
<1> USE ClientAssumption DEF CommandDone
<1>0. /\ TypeOK /\ AttemptOwned /\ CommandsAccounted /\ AtWork /\ OneUser /\ Forsaken
      /\ ObjectsTyped /\ k \in Objects
  BY TypedObjects DEF IInv
<1>1. user = "command"
  <2>1. user = "connect" => busy \in {"ws", "wss"} /\ k = ObjectOf(busy)
    BY <1>0 DEF AttemptOwned
  <2>2. busy \in {"ws", "wss"} => ObjectOf(busy) \notin Commands
    BY <1>0, ObjectOfObjects DEF Forsaken
  <2> QED BY <1>0, <2>1, <2>2 DEF TypeOK
<1>2. /\ chain' \in [Objects -> Step] /\ op' \in [Objects -> OpState]
      /\ handler' \in [Objects -> BOOLEAN] /\ AtWork'
      /\ \A g \in Objects :
           /\ chain'[g] = (IF g = k THEN IF FALSE THEN "resolve" ELSE "idle" ELSE chain[g])
           /\ op'[g] = (IF g = k THEN IF FALSE THEN "pending" ELSE "none" ELSE op[g])
           /\ handler'[g] <=> g # k /\ handler[g]
  BY <1>0, CompleteObjects
<1>3. TypeOK'
  <2>1. undefined' \in BOOLEAN
    BY <1>0 DEF TypeOK
  <2> QED BY <1>0, <1>2, <2>1 DEF TypeOK, attemptVars
<1>4. CommandsAccounted'
  BY <1>0, <1>2 DEF TypeOK, CommandsAccounted
<1> QED BY <1>1, <1>2, <1>3, <1>4, CommandsOnly

LEMMA CancelCommandsIInv ==
  ASSUME IInv, CancelCommands
  PROVE  IInv'
<1> USE ClientAssumption DEF CancelCommands
<1>0. /\ TypeOK /\ CommandsAccounted /\ AtWork /\ OneUser /\ ObjectsTyped
  BY TypedObjects DEF IInv
<1>1. user = "command" /\ inFlight \in SUBSET Objects
  BY <1>0 DEF TypeOK, OneUser
<1>2. ObjectsTyped' /\ AtWork'
  BY <1>0, <1>1, CancelObjects
<1>3. TypeOK'
  BY <1>0, <1>2 DEF TypeOK, ObjectsTyped, attemptVars
<1>4. CommandsAccounted'
  BY <1>0 DEF CommandsAccounted
<1> QED BY <1>1, <1>2, <1>3, <1>4, CommandsOnly

LEMMA DropOwnerIInv ==
  ASSUME IInv, DropOwner
  PROVE  IInv'
<1> USE DEF DropOwner, httpVars
<1>0. TypeOK /\ CommandsAccounted /\ AtWork /\ OneUser
  BY DEF IInv
<1>1. user = "command"
  BY <1>0 DEF TypeOK, OneUser
<1>2. TypeOK'
  BY <1>0 DEF TypeOK, attemptVars
<1>3. CommandsAccounted' /\ AtWork'
  BY <1>0 DEF CommandsAccounted, AtWork
<1> QED BY <1>1, <1>2, <1>3, CommandsOnly

LEMMA NextIInv == IInv /\ [Next]_vars => IInv'
<1> SUFFICES ASSUME IInv, [Next]_vars PROVE IInv'
  OBVIOUS
<1>1. CASE UNCHANGED vars
  BY <1>1, StutterIInv
<1>2. CASE Next
  <2>1. {"http"} \cup TlsObjects \subseteq Objects
    BY ClientAssumption, TlsObjectsAssumption
  <2> QED
    BY <1>2, <2>1, EnableTlsIInv, ConnectHttpIInv, ConnectDirectIInv, CancelIInv, DirectStepIInv,
       ProceedIInv, DoneIInv, ConnectedIInv, UnheardIInv, CreateClientIInv, SendCommandIInv,
       CommandStepIInv, CommandDoneIInv, CancelCommandsIInv, DropOwnerIInv
    DEF Next, Operations
<1> QED BY <1>1, <1>2

\* The invariant of the clients holds in every reachable state.
THEOREM ClientInvariant == Spec => []IInv
BY InitIInv, NextIInv, PTL DEF Spec
-----------------------------------------------------------------------------
\* Every HTTP object that holds a handler works for the attempt in progress or
\* for a command in flight; an attempt has somebody who will call its handler
\* unless its client was replaced, its endpoint is unknown or it was started
\* inside the handler of the one before; handlers are called once.
THEOREM ObjectsOwnedTheorem == Spec => []ObjectsOwned
<1>1. IInv => ObjectsOwned
  BY DEF IInv, ObjectsOwned
<1> QED BY <1>1, ClientInvariant, PTL
=============================================================================
