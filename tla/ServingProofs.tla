---------------------------- MODULE ServingProofs ----------------------------
(***************************************************************************)
(* Proofs about Serving, for any number of requests, calls and failures.   *)
(* IInv of Serving is inductive; the properties follow from it.            *)
(***************************************************************************)
EXTENDS Serving, TLAPS

(* The slot of a call that nobody makes. *)
LEMMA NoCallType ==
    /\ NoCall \in Call /\ NoCall.by = Nobody /\ NoCall.answer = "none"
    /\ NoCall.step = "none"
<1>1. Path("mutate", "cluster", "create") \in Configured
  BY DEF Configured, MutatingWebhooks, Operations
<1>. QED BY <1>1 DEF NoCall, Call, CallSteps, Answers

(* An answer keeps the call in its slot, or frees the slot. *)
LEMMA AnswerType ==
    ASSUME NEW k \in Call, NEW a \in Answers
    PROVE  /\ AnswerOf(k, a) \in Call
           /\ AnswerOf(k, a).step \in {"answered", "none"}
           /\ AnswerOf(k, a).step # "answered" => AnswerOf(k, a).answer = "none"
           /\ AnswerOf(k, a).by = k.by
           /\ k.by # Nobody => /\ AnswerOf(k, a).step = "answered"
                               /\ AnswerOf(k, a).answer = a
                               /\ AnswerOf(k, a).hook = k.hook
                               /\ AnswerOf(k, a).dryRun = k.dryRun
<1>1. CASE k.by = Nobody
  BY <1>1, NoCallType DEF AnswerOf
<1>2. CASE k.by # Nobody
  BY <1>2 DEF AnswerOf, Call, CallSteps
<1>. QED BY <1>1, <1>2

(* A step of the call c, or of the handler that it is in: other calls and the
   requests stay, and an outcome is recorded for the caller only.          *)
LEMMA CallStep ==
    ASSUME IInv, NEW c \in Calls, NEW k \in Call, calls' = [calls EXCEPT ![c] = k],
           k.by = calls[c].by,
           k.step # "answered" => k.answer = "none",
           k.step \in {"decide", "respond"} => phase \in {"listening", "closing"},
           decided' \in [Requests -> [Verbs -> Outcomes]],
           \A r \in Requests :
              IF calls[c].by = r THEN /\ CallOK(k, reqs[r], decided'[r])
                                      /\ RequestOK(reqs[r], decided'[r])
                                 ELSE decided'[r] = decided[r],
           UNCHANGED <<processVars, reqs>>
    PROVE  IInv'
<1>1. calls \in [Calls -> Call]
  BY DEF IInv, TypeOK
<1>2. \A d \in Calls : calls'[d] = IF d = c THEN k ELSE calls[d]
  BY <1>1
<1>3. TypeOK'
  <2>1. calls' \in [Calls -> Call]
    BY <1>1
  <2>. QED BY <1>2, <2>1 DEF IInv, TypeOK, processVars
<1>4. RequestInv'
  BY DEF IInv, RequestInv
<1>5. CallInv'
  <2>. SUFFICES ASSUME NEW d \in Calls, NEW r \in Requests, calls'[d].by = r
                PROVE  /\ CallOK(calls'[d], reqs[r], decided'[r])
                       /\ \A e \in Calls : calls'[e].by = r => e = d
    BY DEF CallInv
  <2>1. \A e \in Calls : calls'[e].by = calls[e].by
    BY <1>2
  <2>2. /\ CallOK(calls[d], reqs[r], decided[r])
        /\ \A e \in Calls : calls[e].by = r => e = d
    BY <2>1 DEF IInv, CallInv
  <2>3. CallOK(calls'[d], reqs[r], decided'[r])
    BY <1>2, <2>1, <2>2
  <2>. QED BY <2>1, <2>2, <2>3
<1>. QED BY <1>3, <1>4, <1>5 DEF IInv

(* A step of the API server after which the request r waits for no call. *)
LEMMA RequestStep ==
    ASSUME IInv, NEW r \in Requests, NEW q \in Request, reqs' = [reqs EXCEPT ![r] = q],
           decided' \in [Requests -> [Verbs -> Outcomes]],
           \A p \in Requests \ {r} : decided'[p] = decided[p],
           RequestOK(q, decided'[r]),
           calls' \in [Calls -> Call],
           \A c \in Calls :
              /\ calls'[c].by # r
              /\ \/ calls'[c] = calls[c]
                 \/ /\ calls'[c].by = Nobody
                    /\ calls'[c].step # "answered" => calls'[c].answer = "none"
                    /\ calls'[c].step \in {"decide", "respond"}
                       => phase \in {"listening", "closing"},
           UNCHANGED processVars
    PROVE  IInv'
<1>1. reqs' \in [Requests -> Request] /\ reqs'[r] = q
      /\ \A p \in Requests \ {r} : reqs'[p] = reqs[p]
  BY DEF IInv, TypeOK
<1>2. TypeOK'
  BY <1>1 DEF IInv, TypeOK, processVars
<1>3. RequestInv'
  BY <1>1 DEF IInv, RequestInv
<1>4. CallInv'
  <2>. SUFFICES ASSUME NEW d \in Calls, NEW p \in Requests, calls'[d].by = p
                PROVE  /\ CallOK(calls'[d], reqs'[p], decided'[p])
                       /\ \A e \in Calls : calls'[e].by = p => e = d
    BY DEF CallInv
  <2>1. p # r /\ reqs'[p] = reqs[p] /\ decided'[p] = decided[p]
    BY <1>1
  <2>2. \A e \in Calls : calls'[e].by = p => calls'[e] = calls[e]
    BY ServingAssumption
  <2>3. /\ CallOK(calls[d], reqs[p], decided[p])
        /\ \A e \in Calls : calls[e].by = p => e = d
    BY <2>2 DEF IInv, CallInv
  <2>. QED BY <2>1, <2>2, <2>3
<1>. QED BY <1>2, <1>3, <1>4 DEF IInv

(* A step of the process in which it does not end and the calls it handles
   may go on.                                                              *)
LEMMA ProcessStep ==
    ASSUME IInv, phase' \in Phases, informer' \in {"off", "running", "failed"},
           failures' \in 0..MaxFailures, sigterm' \in BOOLEAN,
           phase \in {"listening", "closing"} => phase' \in {"listening", "closing"},
           UNCHANGED <<reqs, calls, decided>>
    PROVE  IInv'
<1>1. TypeOK'
  BY DEF IInv, TypeOK
<1>2. RequestInv' /\ CallInv'
  BY DEF IInv, RequestInv, CallInv
<1>. QED BY <1>1, <1>2 DEF IInv

(* The end of the process cuts off the calls in it, which denies. *)
LEMMA EndStep ==
    ASSUME IInv, ProcessEnds, failures' \in 0..MaxFailures
    PROVE  IInv'
<1>1. calls \in [Calls -> Call]
      /\ \A c \in Calls : calls[c].step # "answered" => calls[c].answer = "none"
  BY DEF IInv, TypeOK
<1>2. \A c \in Calls :
         /\ calls'[c] \in Call /\ calls'[c].by = calls[c].by
         /\ calls'[c].step # "answered" => calls'[c].answer = "none"
         /\ calls'[c].step \notin {"decide", "respond"}
         /\ \/ calls'[c] = calls[c]
            \/ /\ calls[c].by # Nobody
               => /\ calls'[c].step = "answered" /\ calls'[c].answer = "denied"
                  /\ calls'[c].hook = calls[c].hook /\ calls'[c].dryRun = calls[c].dryRun
  <2>. SUFFICES ASSUME NEW c \in Calls
                PROVE  /\ calls'[c] \in Call /\ calls'[c].by = calls[c].by
                       /\ calls'[c].step # "answered" => calls'[c].answer = "none"
                       /\ calls'[c].step \notin {"decide", "respond"}
                       /\ \/ calls'[c] = calls[c]
                          \/ /\ calls[c].by # Nobody
                             => /\ calls'[c].step = "answered" /\ calls'[c].answer = "denied"
                                /\ calls'[c].hook = calls[c].hook
                                /\ calls'[c].dryRun = calls[c].dryRun
    OBVIOUS
  <2>1. CASE calls[c].step \in {"decide", "respond"}
    <3>1. calls'[c] = AnswerOf(calls[c], "denied")
      BY <2>1 DEF ProcessEnds, CutOff
    <3>. QED BY <1>1, <3>1, AnswerType DEF Answers
  <2>2. CASE calls[c].step \notin {"decide", "respond"}
    <3>1. calls'[c] = calls[c]
      BY <2>2 DEF ProcessEnds, CutOff
    <3>. QED BY <1>1, <2>2, <3>1
  <2>. QED BY <2>1, <2>2
<1>3. TypeOK'
  <2>1. calls' \in [Calls -> Call]
    BY <1>2 DEF ProcessEnds, CutOff
  <2>. QED BY <1>2, <2>1 DEF IInv, TypeOK, ProcessEnds, Phases
<1>4. RequestInv'
  BY DEF IInv, RequestInv, ProcessEnds
<1>5. CallInv'
  <2>. SUFFICES ASSUME NEW d \in Calls, NEW r \in Requests, calls'[d].by = r
                PROVE  /\ CallOK(calls'[d], reqs[r], decided[r])
                       /\ \A e \in Calls : calls'[e].by = r => e = d
    BY DEF CallInv, ProcessEnds
  <2>1. /\ CallOK(calls[d], reqs[r], decided[r])
        /\ \A e \in Calls : calls[e].by = r => e = d
    BY <1>2 DEF IInv, CallInv
  <2>2. CASE calls'[d] = calls[d]
    BY <1>2, <2>1, <2>2
  <2>3. CASE calls'[d] # calls[d]
    <3>1. /\ calls'[d].step = "answered" /\ calls'[d].answer = "denied"
          /\ calls'[d].hook = calls[d].hook /\ calls'[d].dryRun = calls[d].dryRun
      BY <1>2, <2>3, ServingAssumption
    <3>. QED BY <1>2, <2>1, <3>1 DEF CallOK
  <2>. QED BY <2>2, <2>3
<1>. QED BY <1>3, <1>4, <1>5 DEF IInv

LEMMA StartingStep ==
    ASSUME IInv, Starting
    PROVE  IInv'
<1>1. failures \in 0..MaxFailures
  BY DEF IInv, TypeOK
<1>2. CASE StartProcess
  BY <1>2, ProcessStep DEF StartProcess, Phases, IInv, TypeOK
<1>3. CASE StartCache
  BY <1>3, ProcessStep DEF StartCache, Phases, IInv, TypeOK
<1>4. CASE CacheSynced
  BY <1>4, ProcessStep DEF CacheSynced, Phases, IInv, TypeOK
<1>5. CASE Register
  <2>1. CASE MuxPanics
    BY <1>1, <1>5, <2>1, EndStep DEF Register
  <2>2. CASE ~MuxPanics
    BY <1>5, <2>2, ProcessStep DEF Register, Phases, IInv, TypeOK
  <2>. QED BY <2>1, <2>2
<1>6. CASE LoadCertificates
  BY <1>6, ProcessStep DEF LoadCertificates, Phases, IInv, TypeOK
<1>7. CASE Listen
  BY <1>7, ProcessStep DEF Listen, Phases, IInv, TypeOK
<1>. QED BY <1>2, <1>3, <1>4, <1>5, <1>6, <1>7 DEF Starting

LEMMA StoppingStep ==
    ASSUME IInv, Stopping
    PROVE  IInv'
<1>1. failures \in 0..MaxFailures
  BY DEF IInv, TypeOK
<1>2. CASE CachePanics
  BY <1>1, <1>2, EndStep DEF CachePanics
<1>3. CASE Shutdown
  BY <1>3, ProcessStep DEF Shutdown, Phases, IInv, TypeOK
<1>4. CASE Exit
  BY <1>1, <1>4, EndStep DEF Exit
<1>. QED BY <1>2, <1>3, <1>4 DEF Stopping

LEMMA FailsStep ==
    ASSUME IInv, Fails
    PROVE  IInv'
<1>1. /\ failures \in 0..MaxFailures
      /\ failures < MaxFailures => failures + 1 \in 0..MaxFailures
  BY ServingAssumption DEF IInv, TypeOK
<1>2. CASE CacheFails
  BY <1>1, <1>2, ProcessStep DEF CacheFails, IInv, TypeOK
<1>3. CASE Sigterm
  <2>1. CASE ProcessEnds
    BY <1>1, <1>3, <2>1, EndStep DEF Sigterm
  <2>2. CASE sigterm' = TRUE /\ UNCHANGED <<phase, informer, reqs, calls, decided>>
    BY <1>1, <1>3, <2>2, ProcessStep DEF Sigterm, IInv, TypeOK
  <2>. QED BY <1>3, <2>1, <2>2 DEF Sigterm
<1>4. CASE Die
  BY <1>1, <1>4, EndStep DEF Die
<1>. QED BY <1>2, <1>3, <1>4 DEF Fails

-----------------------------------------------------------------------------
(* A client's request takes a slot that no call is made for. *)
LEMMA SubmitStep ==
    ASSUME IInv, NEW r \in Requests, NEW a \in Asked, NEW o \in Operations, NEW d \in BOOLEAN,
           Submit(r, a, o, d)
    PROVE  IInv'
<1>1. /\ reqs \in [Requests -> Request] /\ calls \in [Calls -> Call]
      /\ decided \in [Requests -> [Verbs -> Outcomes]]
  BY DEF IInv, TypeOK
<1>2. PICK q \in Request : q = [resource |-> a, operation |-> o, dryRun |-> d,
                                step |-> "mutate"]
  BY ServingAssumption DEF Request, ReqSteps
<1>3. /\ reqs' = [reqs EXCEPT ![r] = q] /\ decided' = [decided EXCEPT ![r] = Open]
      /\ calls' = calls /\ UNCHANGED processVars /\ q.step = "mutate"
  BY <1>2 DEF Submit
<1>4. \A c \in Calls : calls[c].by # r
  <2>. SUFFICES ASSUME NEW c \in Calls, calls[c].by = r PROVE FALSE
    OBVIOUS
  <2>1. CallOK(calls[c], reqs[r], decided[r]) /\ calls[c].hook \in Configured
    BY <1>1 DEF IInv, CallInv, Call
  <2>2. calls[c].hook.verb \in Verbs
    BY <2>1 DEF Configured, MutatingWebhooks, ValidatingWebhooks, Path, Verbs
  <2>. QED BY <2>1, <2>2 DEF Submit, CallOK, Verbs
<1>5. RequestOK(q, Open)
  BY <1>3 DEF RequestOK
<1>6. Open \in [Verbs -> Outcomes]
  BY DEF Open, Outcomes
<1>. QED BY <1>1, <1>3, <1>4, <1>5, <1>6, RequestStep

(* What a request may go on with when a webhook has allowed it, or none is
   configured.                                                             *)
LEMMA PastWebhook ==
    ASSUME IInv, NEW r \in Requests, reqs[r].step \in Verbs,
           NEW q \in Request, q = [reqs[r] EXCEPT !.step = NextStep(reqs[r].step)],
           Needed(reqs[r], reqs[r].step) => decided[r][reqs[r].step] # "open"
    PROVE  RequestOK(q, decided[r])
<1>1. reqs[r] \in Request /\ RequestOK(reqs[r], decided[r])
  BY DEF IInv, TypeOK, RequestInv
<1>2. /\ q.resource = reqs[r].resource /\ q.operation = reqs[r].operation
      /\ q.dryRun = reqs[r].dryRun
      /\ q.step = IF reqs[r].step = "mutate" THEN "validate" ELSE "write"
  BY <1>1 DEF Request, NextStep, Verbs
<1>. QED BY <1>1, <1>2 DEF RequestOK, Needed, Verbs

LEMMA APIServerStep ==
    ASSUME IInv, NEW r \in Requests, APIServer(r)
    PROVE  IInv'
<1>1. /\ reqs \in [Requests -> Request] /\ calls \in [Calls -> Call]
      /\ decided \in [Requests -> [Verbs -> Outcomes]]
      /\ \A c \in Calls : calls[c].step # "answered" => calls[c].answer = "none"
      /\ \A c \in Calls : calls[c].step \in {"decide", "respond"}
                          => phase \in {"listening", "closing"}
  BY DEF IInv, TypeOK
<1>2. \A c \in Calls : calls[c].by = r =>
         /\ CallOK(calls[c], reqs[r], decided[r]) /\ calls[c].hook \in Configured
         /\ \A d \in Calls : calls[d].by = r => d = c
  BY <1>1 DEF IInv, CallInv, Call
<1>3. RequestOK(reqs[r], decided[r])
  BY DEF IInv, RequestInv
<1>4. CASE SkipWebhook(r)
  <2>1. PICK q \in Request : q = [reqs[r] EXCEPT !.step = NextStep(reqs[r].step)]
    BY <1>1, <1>4 DEF SkipWebhook, Request, NextStep, Verbs, ReqSteps
  <2>2. reqs' = [reqs EXCEPT ![r] = q] /\ UNCHANGED <<processVars, calls, decided>>
    BY <1>4, <2>1 DEF SkipWebhook
  <2>3. \A c \in Calls : calls[c].by # r
    BY <1>2, <1>4 DEF SkipWebhook, CallOK, PathOf
  <2>4. RequestOK(q, decided[r])
    BY <1>4, <2>1, PastWebhook DEF SkipWebhook, Needed, PathOf
  <2>. QED BY <1>1, <2>2, <2>3, <2>4, RequestStep
<1>5. ASSUME NEW c \in Calls, CallWebhook(r, c) PROVE IInv'
  <2>1. PICK k \in Call : k = [step |-> "connect", by |-> r, hook |-> PathOf(r),
                               dryRun |-> reqs[r].dryRun, answer |-> "none"]
    BY <1>1, <1>5 DEF CallWebhook, Call, CallSteps, Answers, Request
  <2>2. /\ calls' = [calls EXCEPT ![c] = k] /\ UNCHANGED <<processVars, reqs, decided>>
        /\ k.step = "connect" /\ k.answer = "none" /\ k.by = r /\ k.dryRun = reqs[r].dryRun
        /\ k.hook = PathOf(r)
    BY <1>5, <2>1 DEF CallWebhook
  <2>3. calls' \in [Calls -> Call] /\ \A d \in Calls : calls'[d] = IF d = c THEN k ELSE calls[d]
    BY <1>1, <2>2
  <2>4. TypeOK'
    BY <2>2, <2>3 DEF IInv, TypeOK, processVars
  <2>5. RequestInv'
    BY <2>2 DEF IInv, RequestInv
  <2>6. CallOK(k, reqs[r], decided[r])
    <3>1. k.hook.verb = reqs[r].step
      BY <2>2 DEF PathOf, Path
    <3>. QED BY <2>2, <3>1 DEF CallOK, PathOf
  <2>7. CallInv'
    <3>. SUFFICES ASSUME NEW d \in Calls, NEW p \in Requests, calls'[d].by = p
                  PROVE  /\ CallOK(calls'[d], reqs[p], decided[p])
                         /\ \A e \in Calls : calls'[e].by = p => e = d
      BY <2>2 DEF CallInv
    <3>1. CASE d = c
      BY <1>5, <2>2, <2>3, <2>6, <3>1 DEF CallWebhook
    <3>2. CASE d # c
      <4>1. calls[d].by = p /\ p # r
        BY <1>5, <2>3, <3>2 DEF CallWebhook
      <4>2. /\ CallOK(calls[d], reqs[p], decided[p])
            /\ \A e \in Calls : calls[e].by = p => e = d
        BY <4>1 DEF IInv, CallInv
      <4>. QED BY <2>2, <2>3, <3>2, <4>1, <4>2
    <3>. QED BY <3>1, <3>2
  <2>. QED BY <2>4, <2>5, <2>7 DEF IInv
<1>6. ASSUME NEW c \in Calls, TakeAnswer(r, c) PROVE IInv'
  <2>1. calls' = [calls EXCEPT ![c] = NoCall] /\ UNCHANGED <<processVars, decided>>
    BY <1>6 DEF TakeAnswer
  <2>2. /\ calls' \in [Calls -> Call]
        /\ \A d \in Calls : calls'[d] = IF d = c THEN NoCall ELSE calls[d]
    BY <1>1, <2>1, NoCallType
  <2>3. \A d \in Calls : calls'[d].by # r
    BY <1>2, <1>6, <2>2, NoCallType, ServingAssumption DEF TakeAnswer
  <2>4. PICK q \in Request :
           /\ reqs' = [reqs EXCEPT ![r] = q] /\ RequestOK(q, decided[r])
    <3>1. CallOK(calls[c], reqs[r], decided[r]) /\ reqs[r].step \in Verbs
      <4>1. CallOK(calls[c], reqs[r], decided[r]) /\ calls[c].hook \in Configured
        BY <1>2, <1>6 DEF TakeAnswer
      <4>2. calls[c].hook.verb \in Verbs
        BY <4>1 DEF Configured, MutatingWebhooks, ValidatingWebhooks, Path, Verbs
      <4>. QED BY <4>1, <4>2 DEF CallOK
    <3>2. CASE calls[c].answer = "allowed"
      <4>1. PICK q \in Request : q = [reqs[r] EXCEPT !.step = NextStep(reqs[r].step)]
        BY <1>1, <3>1 DEF Request, NextStep, Verbs, ReqSteps
      <4>2. reqs' = [reqs EXCEPT ![r] = q]
        BY <1>6, <3>2, <4>1 DEF TakeAnswer
      <4>3. RequestOK(q, decided[r])
        BY <3>1, <3>2, <4>1, PastWebhook DEF Needed, CallOK
      <4>. QED BY <4>2, <4>3
    <3>3. CASE calls[c].answer # "allowed"
      <4>1. PICK q \in Request : q = [reqs[r] EXCEPT !.step = "ended"]
        BY <1>1 DEF Request, ReqSteps
      <4>2. reqs' = [reqs EXCEPT ![r] = q] /\ q.step = "ended"
        BY <1>1, <1>6, <3>3, <4>1 DEF TakeAnswer, Request
      <4>. QED BY <4>2 DEF RequestOK
    <3>. QED BY <3>2, <3>3
  <2>. QED BY <1>1, <2>1, <2>2, <2>3, <2>4, NoCallType, RequestStep
<1>7. ASSUME NEW c \in Calls, TimeOut(r, c) PROVE IInv'
  <2>1. PICK k \in Call : k = [calls[c] EXCEPT !.by = Nobody]
    BY <1>1 DEF Call
  <2>2. /\ calls' = [calls EXCEPT ![c] = k] /\ UNCHANGED <<processVars, decided>>
        /\ k.by = Nobody /\ k.step = calls[c].step /\ k.answer = calls[c].answer
    BY <1>1, <1>7, <2>1 DEF TimeOut, Call
  <2>3. /\ calls' \in [Calls -> Call]
        /\ \A d \in Calls : calls'[d] = IF d = c THEN k ELSE calls[d]
    BY <1>1, <2>2
  <2>4. \A d \in Calls : calls'[d].by # r
    BY <1>2, <1>7, <2>2, <2>3, ServingAssumption DEF TimeOut
  <2>5. PICK q \in Request : q = [reqs[r] EXCEPT !.step = "ended"]
    BY <1>1 DEF Request, ReqSteps
  <2>6. reqs' = [reqs EXCEPT ![r] = q] /\ q.step = "ended"
    BY <1>1, <1>7, <2>5 DEF TimeOut, Request
  <2>7. RequestOK(q, decided[r])
    BY <2>6 DEF RequestOK
  <2>. QED BY <1>1, <2>2, <2>3, <2>4, <2>6, <2>7, RequestStep
<1>8. CASE Store(r)
  <2>1. PICK q \in Request :
           q = [reqs[r] EXCEPT !.step = IF reqs[r].dryRun THEN "ended" ELSE "stored"]
    BY <1>1 DEF Request, ReqSteps
  <2>2. reqs' = [reqs EXCEPT ![r] = q] /\ UNCHANGED <<processVars, calls, decided>>
    BY <1>8, <2>1 DEF Store
  <2>3. /\ q.resource = reqs[r].resource /\ q.operation = reqs[r].operation
        /\ q.dryRun = reqs[r].dryRun /\ q.step = IF reqs[r].dryRun THEN "ended" ELSE "stored"
    BY <1>1, <2>1 DEF Request
  <2>4. \A c \in Calls : calls[c].by # r
    <3>. SUFFICES ASSUME NEW c \in Calls, calls[c].by = r PROVE FALSE
      OBVIOUS
    <3>1. calls[c].hook.verb \in Verbs
      BY <1>2 DEF Configured, MutatingWebhooks, ValidatingWebhooks, Path, Verbs
    <3>. QED BY <1>2, <1>8, <3>1 DEF CallOK, Store, Verbs
  <2>5. RequestOK(q, decided[r])
    BY <1>3, <1>8, <2>3 DEF Store, RequestOK, Needed
  <2>. QED BY <1>1, <2>2, <2>4, <2>5, RequestStep
<1>. QED BY <1>4, <1>5, <1>6, <1>7, <1>8 DEF APIServer

-----------------------------------------------------------------------------
(* An answer allows only when the handler has gone through its decision. *)
LEMMA AnsweredStep ==
    ASSUME IInv, NEW c \in Calls, NEW a \in Answers,
           calls[c].step # "none", a = "allowed" => calls[c].step = "respond",
           Answered(c, a), UNCHANGED decided
    PROVE  IInv'
<1>1. calls \in [Calls -> Call] /\ decided \in [Requests -> [Verbs -> Outcomes]]
  BY DEF IInv, TypeOK
<1>2. PICK k \in Call : k = AnswerOf(calls[c], a)
  BY <1>1, AnswerType
<1>3. calls' = [calls EXCEPT ![c] = k] /\ UNCHANGED <<processVars, reqs, decided>>
  BY <1>2 DEF Answered
<1>4. /\ k.by = calls[c].by /\ k.step \in {"answered", "none"}
      /\ k.step # "answered" => k.answer = "none"
      /\ calls[c].by # Nobody => /\ k.step = "answered" /\ k.answer = a
                                 /\ k.hook = calls[c].hook /\ k.dryRun = calls[c].dryRun
  BY <1>1, <1>2, AnswerType
<1>5. ASSUME NEW r \in Requests, calls[c].by = r
      PROVE  CallOK(k, reqs[r], decided[r]) /\ RequestOK(reqs[r], decided[r])
  <2>1. CallOK(calls[c], reqs[r], decided[r]) /\ RequestOK(reqs[r], decided[r])
    BY <1>5 DEF IInv, CallInv, RequestInv
  <2>. QED BY <1>4, <1>5, <2>1, ServingAssumption DEF CallOK
<1>. QED BY <1>1, <1>3, <1>4, <1>5, CallStep

(* The handler goes on, with an outcome for its caller when it has one. *)
LEMMA AdvanceStep ==
    ASSUME IInv, NEW c \in Calls, NEW from \in CallSteps, NEW to \in {"decide", "respond"},
           from \notin {"none", "answered"}, Advance(c, from, to),
           phase \in {"listening", "closing"},
           decided' \in [Requests -> [Verbs -> Outcomes]],
           \A r \in Requests :
              IF calls[c].by = r
              THEN /\ RequestOK(reqs[r], decided'[r])
                   /\ to = "respond" => decided'[r][reqs[r].step] # "open" \/ reqs[r].dryRun
              ELSE decided'[r] = decided[r]
    PROVE  IInv'
<1>1. calls \in [Calls -> Call] /\ calls[c].answer = "none"
  BY DEF IInv, TypeOK, Advance
<1>2. PICK k \in Call : k = [calls[c] EXCEPT !.step = to]
  <2>1. to \in CallSteps
    BY DEF CallSteps
  <2>2. calls[c] \in Call
    BY <1>1
  <2>3. [calls[c] EXCEPT !.step = to] \in Call
    BY <2>1, <2>2 DEF Call
  <2>. QED BY <2>3
<1>3. /\ calls' = [calls EXCEPT ![c] = k] /\ UNCHANGED <<processVars, reqs>>
      /\ k.step = to /\ k.by = calls[c].by /\ k.answer = "none"
      /\ k.hook = calls[c].hook /\ k.dryRun = calls[c].dryRun
  BY <1>1, <1>2 DEF Advance, Call
<1>4. ASSUME NEW r \in Requests, calls[c].by = r
      PROVE  CallOK(k, reqs[r], decided'[r])
  <2>1. CallOK(calls[c], reqs[r], decided[r])
    BY <1>4 DEF IInv, CallInv
  <2>. QED BY <1>3, <1>4, <2>1 DEF CallOK
<1>. QED BY <1>3, <1>4, CallStep

(* The handler records an outcome in a call that is no skipped dry run. *)
LEMMA RecordStep ==
    ASSUME IInv, NEW c \in Calls, NEW outcome \in {"exempt", "decided"},
           Advance(c, "decide", "respond"), Record(c, outcome)
    PROVE  IInv'
<1>1. /\ calls \in [Calls -> Call] /\ decided \in [Requests -> [Verbs -> Outcomes]]
      /\ phase \in {"listening", "closing"}
  BY DEF IInv, TypeOK, Advance
<1>2. calls[c].hook.verb \in Verbs
  BY <1>1 DEF Call, Configured, MutatingWebhooks, ValidatingWebhooks, Path, Verbs
<1>3. decided' \in [Requests -> [Verbs -> Outcomes]]
  BY <1>1, <1>2 DEF Record, Outcomes
<1>4. ASSUME NEW r \in Requests
      PROVE  IF calls[c].by = r
             THEN /\ RequestOK(reqs[r], decided'[r])
                  /\ decided'[r][reqs[r].step] # "open"
             ELSE decided'[r] = decided[r]
  <2>1. CASE calls[c].by = r
    <3>1. /\ decided'[r] = [decided[r] EXCEPT ![calls[c].hook.verb] = outcome]
          /\ decided[r] \in [Verbs -> Outcomes]
      BY <1>1, <2>1 DEF Record
    <3>2. /\ decided'[r][calls[c].hook.verb] # "open"
          /\ \A v \in Verbs : decided[r][v] # "open" => decided'[r][v] # "open"
      BY <1>2, <3>1
    <3>3. reqs[r].step = calls[c].hook.verb /\ RequestOK(reqs[r], decided[r])
      BY <2>1 DEF IInv, CallInv, CallOK, RequestInv
    <3>. QED BY <2>1, <3>2, <3>3 DEF RequestOK, Verbs
  <2>2. CASE calls[c].by # r
    BY <2>2 DEF Record
  <2>. QED BY <2>1, <2>2
<1>. QED BY <1>1, <1>3, <1>4, AdvanceStep DEF CallSteps

LEMMA HandleStep ==
    ASSUME IInv, NEW c \in Calls, Handle(c)
    PROVE  IInv'
<1>1. /\ decided \in [Requests -> [Verbs -> Outcomes]]
      /\ calls[c].step \in {"decide", "respond"} => phase \in {"listening", "closing"}
      /\ \A r \in Requests : RequestOK(reqs[r], decided[r])
      /\ \A r \in Requests : calls[c].by = r => CallOK(calls[c], reqs[r], decided[r])
  BY DEF IInv, TypeOK, RequestInv, CallInv
<1>2. CASE Refused(c)
  BY <1>2, AnsweredStep DEF Refused, Answers
<1>3. CASE Accept(c)
  <2>1. CASE calls[c].hook \in Routes
    BY <1>1, <1>3, <2>1, AdvanceStep DEF Accept, CallSteps
  <2>2. CASE calls[c].hook \notin Routes
    BY <1>3, <2>2, AnsweredStep DEF Accept, Answers
  <2>. QED BY <2>1, <2>2
<1>4. CASE ReadFails(c)
  BY <1>4, AnsweredStep DEF ReadFails, Answers
<1>5. CASE DryRun(c)
  <2>1. \A r \in Requests : calls[c].by = r => reqs[r].dryRun
    BY <1>1, <1>5 DEF DryRun, SkippedAsDryRun, CallOK
  <2>. QED BY <1>1, <1>5, <2>1, AdvanceStep DEF DryRun, Advance, CallSteps
<1>6. CASE LeaveAlone(c)
  BY <1>6, RecordStep DEF LeaveAlone
<1>7. CASE Decide(c)
  BY <1>7, RecordStep DEF Decide
<1>8. CASE DecideFails(c)
  BY <1>8, AnsweredStep DEF DecideFails, Answers
<1>9. CASE writeResponse(c)
  BY <1>9, AnsweredStep DEF writeResponse, Answers
<1>. QED BY <1>2, <1>3, <1>4, <1>5, <1>6, <1>7, <1>8, <1>9 DEF Handle

-----------------------------------------------------------------------------
(* The invariant of the process, the API server and the handlers together:
   for any number of requests and calls open at a time, whatever the handlers
   answer and whenever, and however often the process stops, dies or is
   started again.                                                          *)
THEOREM InductiveInvariant == Spec => []IInv
<1>1. Init => IInv
  <2>. SUFFICES ASSUME Init PROVE IInv
    OBVIOUS
  <2>1. NoRequest \in Request
    <3>1. Path("mutate", "cluster", "create") \in Configured
      BY DEF Configured, MutatingWebhooks, Operations
    <3>2. "cluster" \in Resources
      BY <3>1 DEF Resources, Path
    <3>. QED BY <3>2 DEF NoRequest, Request, Operations, ReqSteps
  <2>2. TypeOK
    <3>1. failures \in 0..MaxFailures /\ phase \in Phases
      BY ServingAssumption DEF Init, Phases
    <3>2. \A c \in Calls : calls[c] = NoCall
      BY DEF Init
    <3>3. calls \in [Calls -> Call]
      BY NoCallType DEF Init
    <3>4. decided \in [Requests -> [Verbs -> Outcomes]]
      BY DEF Init, Open, Outcomes
    <3>. QED BY <2>1, <3>1, <3>2, <3>3, <3>4, NoCallType DEF Init, TypeOK
  <2>3. RequestInv /\ CallInv
    BY NoCallType, ServingAssumption DEF Init, RequestInv, RequestOK, CallInv, NoRequest
  <2>. QED BY <2>2, <2>3 DEF IInv
<1>2. IInv /\ [Next]_vars => IInv'
  <2>. SUFFICES ASSUME IInv, [Next]_vars PROVE IInv'
    OBVIOUS
  <2>1. CASE Starting
    BY <2>1, StartingStep
  <2>2. CASE Stopping
    BY <2>2, StoppingStep
  <2>3. CASE Fails
    BY <2>3, FailsStep
  <2>4. ASSUME NEW r \in Requests,
               NEW a \in Asked, NEW o \in Operations, NEW d \in BOOLEAN, Submit(r, a, o, d)
        PROVE  IInv'
    BY <2>4, SubmitStep
  <2>5. ASSUME NEW r \in Requests, APIServer(r) PROVE IInv'
    BY <2>5, APIServerStep
  <2>6. ASSUME NEW c \in Calls, Handle(c) PROVE IInv'
    BY <2>6, HandleStep
  <2>7. CASE UNCHANGED vars
    BY <2>7, ProcessStep DEF vars, IInv, TypeOK
  <2>. QED BY <2>1, <2>2, <2>3, <2>4, <2>5, <2>6, <2>7 DEF Next
<1>. QED BY <1>1, <1>2, PTL DEF Spec

(* Type correctness of the process and its calls: a handler runs only while
   the process listens or closes.                                          *)
THEOREM TypeCorrect == Spec => []TypeOK
<1>1. IInv => TypeOK
  BY DEF IInv
<1>. QED BY <1>1, InductiveInvariant, PTL

(* Whatever is stored went through every webhook configured for it, in a call
   that was made for this very request.                                    *)
THEOREM DecidedCorrect == Spec => []StoredWasDecided
<1>1. IInv => StoredWasDecided
  <2>. SUFFICES ASSUME IInv, NEW r \in Requests, reqs[r].step = "stored", NEW v \in Verbs,
                       Path(v, reqs[r].resource, reqs[r].operation) \in Configured
                PROVE  decided[r][v] # "open"
    BY DEF StoredWasDecided
  <2>1. RequestOK(reqs[r], decided[r])
    BY DEF IInv, RequestInv
  <2>. QED BY <2>1 DEF RequestOK, Needed, Verbs
<1>. QED BY <1>1, InductiveInvariant, PTL
=============================================================================
