------------------------------- MODULE Serving -------------------------------
(***************************************************************************)
(* The process and its webhooks as the API server sees them: main.go       *)
(* (start, shutdown), pkg/app (which paths are served) and the HTTP        *)
(* handlers of pkg/mutator and pkg/validator, against the webhooks that    *)
(* helm/azure-admission-controller/templates/webhook.yaml configures.      *)
(*                                                                         *)
(* A request of a client makes the API server call the mutating webhooks   *)
(* of its resource and operation, then the validating ones, and store the  *)
(* object if each answered "allowed"; any other answer, none in time, or   *)
(* no process to answer denies it (failure policy Fail).  The process may  *)
(* be stopped by SIGTERM, or die: a panic outside a handler, the fatal     *)
(* error of a concurrent map access (VMCapabilities), the liveness probe.  *)
(* The deployment has one replica, which is started again.                 *)
(*                                                                         *)
(* What a handler decides is the business of the other modules; here the   *)
(* filter may leave the object alone, or the handler may allow, fail or    *)
(* panic.  A handler whose caller has given up goes on.                    *)
(***************************************************************************)
EXTENDS Naturals, Sequences

CONSTANTS
    Requests,     \* requests of clients that are open at a time
    Calls,        \* calls of webhooks that are open at a time
    Nobody,       \* the API server has given up on the call
    Asked,        \* the resources the clients write
    MaxFailures   \* bound on SIGTERMs and deaths of the process

Operations == {"create", "update"}
Verbs == {"mutate", "validate"}

-----------------------------------------------------------------------------
(* pkg/app: the handlers, each with the methods it has *)

Handler(resource, methods) == [resource |-> resource, methods |-> methods]

AllMethods == {"OnCreateValidate", "OnUpdateValidate", "OnCreateMutate", "OnUpdateMutate"}

getAllHandlers ==
    << Handler("azureconfig", {"OnUpdateValidate"}),
       Handler("azurecluster", AllMethods),
       Handler("azureclusterconfig", {"OnUpdateValidate"}),
       Handler("azuremachine", AllMethods),
       Handler("azuremachinepool", AllMethods),
       Handler("cluster", AllMethods),
       Handler("machinepool", AllMethods),
       Handler("spark", {"OnCreateMutate"}) >>

Path(verb, resource, operation) ==
    [verb |-> verb, resource |-> resource, operation |-> operation]

\* The path under which a handler is registered for one of its methods.
PatternOf(h, method) ==
    CASE method = "OnCreateValidate" -> Path("validate", h.resource, "create")
      [] method = "OnUpdateValidate" -> Path("validate", h.resource, "update")
      [] method = "OnCreateMutate"   -> Path("mutate", h.resource, "create")
      [] method = "OnUpdateMutate"   -> Path("mutate", h.resource, "update")

\* RegisterWebhookHandlers calls Handle for every handler and method of it.
RegisterWebhookHandlers ==
    {x \in (DOMAIN getAllHandlers) \X AllMethods : x[2] \in getAllHandlers[x[1]].methods}

Pattern(x) == PatternOf(getAllHandlers[x[1]], x[2])

Routes == {Pattern(x) : x \in RegisterWebhookHandlers}

\* http.ServeMux panics when a pattern is registered a second time.
MuxPanics == \E x, y \in RegisterWebhookHandlers : x # y /\ Pattern(x) = Pattern(y)

-----------------------------------------------------------------------------
(* webhook.yaml *)

MutatingWebhooks ==
    {Path("mutate", r, o) :
        r \in {"azurecluster", "azuremachine", "azuremachinepool", "cluster", "machinepool"},
        o \in Operations}
    \cup {Path("mutate", "spark", "create")}

ValidatingWebhooks ==
    {Path("validate", r, o) :
        r \in {"azurecluster", "azuremachine", "azuremachinepool", "cluster", "machinepool"},
        o \in Operations}
    \cup {Path("validate", r, "update") : r \in {"azureconfig", "azureclusterconfig"}}

Configured == MutatingWebhooks \cup ValidatingWebhooks

Resources == {p.resource : p \in Configured}

ASSUME ServingAssumption ==
    /\ MaxFailures \in Nat
    /\ Asked \subseteq Resources
    /\ Nobody \notin Requests

-----------------------------------------------------------------------------
\* The start of the process, in the order of mainError and serve.
Phases == {"down", "clients", "syncing", "registering", "certificates", "armed",
           "listening", "closing"}

\* A call of a webhook: it waits for a connection, the handler reads and
\* decides, it responds, or there is an answer that was not read yet.
CallSteps == {"none", "connect", "decide", "respond", "answered"}

\* What the answer says to the API server: a review that allows, or one that
\* denies, a bare status (400, 404, 500) or a closed connection.
Answers == {"none", "allowed", "denied"}

ReqSteps == {"idle", "mutate", "validate", "write", "stored", "ended"}

VARIABLES
    phase,      \* of the process
    informer,   \* the goroutine that runs the informer cache
    failures,   \* SIGTERMs and deaths so far
    sigterm,    \* a signal is in the channel
    reqs,       \* the API server's side of the requests
    calls,      \* the calls of webhooks
    \* history variable, read by the properties only
    decided     \* what became of a request in each of its webhooks

processVars == <<phase, informer, failures, sigterm>>
vars == <<phase, informer, failures, sigterm, reqs, calls, decided>>

Request == [resource : Resources, operation : Operations,
            dryRun : BOOLEAN, step : ReqSteps]

Call == [step : CallSteps, by : Requests \cup {Nobody},
         hook : Configured, dryRun : BOOLEAN, answer : Answers]

Outcomes == {"open", "exempt", "decided"}

NoRequest == [resource |-> "cluster", operation |-> "create", dryRun |-> FALSE,
              step |-> "idle"]
NoCall == [step |-> "none", by |-> Nobody, hook |-> Path("mutate", "cluster", "create"),
           dryRun |-> FALSE, answer |-> "none"]

Open == [v \in Verbs |-> "open"]

TypeOK ==
    /\ phase \in Phases
    /\ informer \in {"off", "running", "failed"}
    /\ failures \in 0..MaxFailures
    /\ sigterm \in BOOLEAN
    /\ reqs \in [Requests -> Request]
    /\ calls \in [Calls -> Call]
    /\ \A c \in Calls :
          /\ calls[c].step # "answered" => calls[c].answer = "none"
          /\ calls[c].step \in {"decide", "respond"} => phase \in {"listening", "closing"}
    /\ decided \in [Requests -> [Verbs -> Outcomes]]

Init ==
    /\ phase = "down" /\ informer = "off" /\ failures = 0 /\ sigterm = FALSE
    /\ reqs = [r \in Requests |-> NoRequest]
    /\ calls = [c \in Calls |-> NoCall]
    /\ decided = [r \in Requests |-> Open]

-----------------------------------------------------------------------------
(* main.go *)

\* The call k with an answer, which goes nowhere when the API server has
\* given up on the call.
AnswerOf(k, answer) ==
    IF k.by = Nobody THEN NoCall
    ELSE [k EXCEPT !.step = "answered", !.answer = answer]

\* Calls that are in the process when it ends get no answer.
CutOff == [c \in Calls |-> IF calls[c].step \in {"decide", "respond"}
                           THEN AnswerOf(calls[c], "denied") ELSE calls[c]]

ProcessEnds ==
    /\ phase' = "down" /\ informer' = "off" /\ sigterm' = FALSE
    /\ calls' = CutOff
    /\ UNCHANGED <<reqs, decided>>

\* The kubelet starts the container; clients are built.
StartProcess ==
    /\ phase = "down"
    /\ phase' = "clients"
    /\ UNCHANGED <<informer, failures, sigterm, reqs, calls, decided>>

\* cache.New, and the goroutine with Start.
StartCache ==
    /\ phase = "clients"
    /\ phase' = "syncing" /\ informer' = "running"
    /\ UNCHANGED <<failures, sigterm, reqs, calls, decided>>

\* WaitForCacheSync returns; the environment variables are there.
CacheSynced ==
    /\ phase = "syncing" /\ informer = "running"
    /\ phase' = "registering"
    /\ UNCHANGED <<informer, failures, sigterm, reqs, calls, decided>>

Register ==
    /\ phase = "registering"
    /\ UNCHANGED failures
    /\ IF MuxPanics THEN ProcessEnds
       ELSE phase' = "certificates" /\ UNCHANGED <<informer, sigterm, reqs, calls, decided>>

\* certman.New and Watch, then signal.Notify.
LoadCertificates ==
    /\ phase = "certificates"
    /\ phase' = "armed"
    /\ UNCHANGED <<informer, failures, sigterm, reqs, calls, decided>>

\* ListenAndServeTLS.
Listen ==
    /\ phase = "armed"
    /\ phase' = "listening"
    /\ UNCHANGED <<informer, failures, sigterm, reqs, calls, decided>>

\* Fault: the error of the informer cache is only logged.
FaultyCacheFails ==
    /\ informer = "failed"
    /\ UNCHANGED vars

\* The goroutine of the cache panics when Start returns an error.
CachePanics ==
    /\ informer = "failed"
    /\ UNCHANGED failures
    /\ ProcessEnds

\* Start of the informer cache returns an error.
CacheFails ==
    /\ informer = "running" /\ failures < MaxFailures
    /\ informer' = "failed" /\ failures' = failures + 1
    /\ UNCHANGED <<phase, sigterm, reqs, calls, decided>>

\* SIGTERM: without a handler it ends the process, with one it is put in the
\* channel.
Sigterm ==
    /\ phase # "down" /\ failures < MaxFailures
    /\ failures' = failures + 1
    /\ \/ /\ phase \in {"clients", "syncing", "registering", "certificates"}
          /\ ProcessEnds
       \/ /\ phase \in {"armed", "listening", "closing"}
          /\ sigterm' = TRUE
          /\ UNCHANGED <<phase, informer, reqs, calls, decided>>

\* Fault: the server is started again instead of ending the process.
FaultyShutdown ==
    /\ sigterm /\ phase \in {"armed", "listening"}
    /\ sigterm' = FALSE /\ phase' = "armed"
    /\ UNCHANGED <<informer, failures, reqs, calls, decided>>

\* The goroutine calls Shutdown, which closes the listener; a server that is
\* shut down before it listens returns from ListenAndServeTLS at once.
Shutdown ==
    /\ sigterm /\ phase \in {"armed", "listening"}
    /\ sigterm' = FALSE /\ phase' = "closing"
    /\ UNCHANGED <<informer, failures, reqs, calls, decided>>

\* ListenAndServeTLS has returned ErrServerClosed: serve, mainError and main
\* return, whether or not Shutdown is still waiting for handlers.
Exit ==
    /\ phase = "closing"
    /\ UNCHANGED failures
    /\ ProcessEnds

\* A failing start, a fatal error of the Go runtime, the liveness probe, the node.
Die ==
    /\ phase # "down" /\ failures < MaxFailures
    /\ failures' = failures + 1
    /\ ProcessEnds

-----------------------------------------------------------------------------
(* The API server *)

PathOf(r) == Path(reqs[r].step, reqs[r].resource, reqs[r].operation)

\* A client creates or updates an object, over one of a few connections.
Submit(r, resource, operation, dryRun) ==
    /\ reqs[r].step \in {"idle", "stored", "ended"}
    /\ reqs' = [reqs EXCEPT ![r] = [resource |-> resource, operation |-> operation,
                                    dryRun |-> dryRun, step |-> "mutate"]]
    /\ decided' = [decided EXCEPT ![r] = Open]
    /\ UNCHANGED <<processVars, calls>>

NextStep(step) == CASE step = "mutate" -> "validate" [] step = "validate" -> "write"

\* No webhook is configured for the resource and the operation.
SkipWebhook(r) ==
    /\ reqs[r].step \in Verbs /\ PathOf(r) \notin Configured
    /\ reqs' = [reqs EXCEPT ![r].step = NextStep(@)]
    /\ UNCHANGED <<processVars, calls, decided>>

CallWebhook(r, c) ==
    /\ reqs[r].step \in Verbs /\ PathOf(r) \in Configured
    /\ \A d \in Calls : calls[d].by # r
    /\ calls[c].step = "none"
    /\ calls' = [calls EXCEPT ![c] = [step |-> "connect", by |-> r, hook |-> PathOf(r),
                                      dryRun |-> reqs[r].dryRun, answer |-> "none"]]
    /\ UNCHANGED <<processVars, reqs, decided>>

\* The call is answered; anything but a review that allows denies.
TakeAnswer(r, c) ==
    /\ calls[c].step = "answered" /\ calls[c].by = r
    /\ reqs' = [reqs EXCEPT ![r].step = IF calls[c].answer = "allowed" THEN NextStep(@)
                                                                     ELSE "ended"]
    /\ calls' = [calls EXCEPT ![c] = NoCall]
    /\ UNCHANGED <<processVars, decided>>

\* The call takes too long and the API server gives up on it.  The handler
\* goes on; the client may repeat its request meanwhile.
TimeOut(r, c) ==
    /\ calls[c].step # "answered" /\ calls[c].by = r
    /\ reqs' = [reqs EXCEPT ![r].step = "ended"]
    /\ calls' = [calls EXCEPT ![c].by = Nobody]
    /\ UNCHANGED <<processVars, decided>>

\* A dry run is not stored.
Store(r) ==
    /\ reqs[r].step = "write"
    /\ reqs' = [reqs EXCEPT ![r].step = IF reqs[r].dryRun THEN "ended" ELSE "stored"]
    /\ UNCHANGED <<processVars, calls, decided>>

-----------------------------------------------------------------------------
(* pkg/mutator, pkg/validator: newHttpHandler *)

Advance(c, from, to) ==
    /\ calls[c].step = from
    /\ calls' = [calls EXCEPT ![c].step = to]
    /\ UNCHANGED <<processVars, reqs>>

Answered(c, answer) ==
    /\ calls' = [calls EXCEPT ![c] = AnswerOf(@, answer)]
    /\ UNCHANGED <<processVars, reqs>>

\* No process listens.
Refused(c) ==
    /\ calls[c].step = "connect" /\ phase # "listening"
    /\ Answered(c, "denied")
    /\ UNCHANGED decided

\* The server accepts the call and the mux finds its handler, or does not.
Accept(c) ==
    /\ phase = "listening"
    /\ IF calls[c].hook \in Routes
       THEN Advance(c, "connect", "decide")
       ELSE calls[c].step = "connect" /\ Answered(c, "denied")
    /\ UNCHANGED decided

\* The content type (400), the body (500) or the review (400) is not right.
ReadFails(c) ==
    /\ calls[c].step = "decide"
    /\ Answered(c, "denied")
    /\ UNCHANGED decided

\* The mutator leaves a dry run alone, the validator does not.
SkippedAsDryRun(c) == calls[c].hook.verb = "mutate" /\ calls[c].dryRun

DryRun(c) ==
    /\ SkippedAsDryRun(c)
    /\ Advance(c, "decide", "respond")
    /\ UNCHANGED decided

\* The call c ends with the outcome for the request it was made for.
Record(c, outcome) ==
    decided' = [r \in Requests |->
                   IF calls[c].by = r THEN [decided[r] EXCEPT ![calls[c].hook.verb] = outcome]
                                      ELSE decided[r]]

\* The filter takes the object for one that is not its business: neither the
\* mutation nor the checks run.
LeaveAlone(c) ==
    /\ ~SkippedAsDryRun(c)
    /\ Advance(c, "decide", "respond")
    /\ Record(c, "exempt")

\* OnCreate..., OnUpdate... run and return without an error.
Decide(c) ==
    /\ ~SkippedAsDryRun(c)
    /\ Advance(c, "decide", "respond")
    /\ Record(c, "decided")

\* Fault: no return after the error response is written.
FaultyDecideFails(c) ==
    /\ calls[c].step = "decide" /\ ~SkippedAsDryRun(c)
    /\ \E answer \in {"denied", "allowed"} : Answered(c, answer)
    /\ UNCHANGED decided

\* They return an error, which is answered as a denial, or panic (a nil
\* owner, for one): net/http closes the connection and the process goes on.
DecideFails(c) ==
    /\ calls[c].step = "decide" /\ ~SkippedAsDryRun(c)
    /\ Answered(c, "denied")
    /\ UNCHANGED decided

\* The answer is serialised and written; the patch or the review may fail to
\* serialise, the connection may be gone.
writeResponse(c) ==
    /\ calls[c].step = "respond"
    /\ \E answer \in {"allowed", "denied"} : Answered(c, answer)
    /\ UNCHANGED decided

-----------------------------------------------------------------------------
Starting ==
    \/ StartProcess \/ StartCache \/ CacheSynced \/ Register
    \/ LoadCertificates \/ Listen

Stopping == CachePanics \/ Shutdown \/ Exit

Fails == CacheFails \/ Sigterm \/ Die

APIServer(r) ==
    \/ SkipWebhook(r) \/ Store(r)
    \/ \E c \in Calls : CallWebhook(r, c) \/ TakeAnswer(r, c) \/ TimeOut(r, c)

Handle(c) ==
    \/ Refused(c) \/ Accept(c) \/ ReadFails(c) \/ DryRun(c) \/ LeaveAlone(c)
    \/ Decide(c) \/ DecideFails(c) \/ writeResponse(c)

Next ==
    \/ Starting \/ Stopping \/ Fails
    \/ \E r \in Requests :
          \/ \E a \in Asked, o \in Operations, d \in BOOLEAN : Submit(r, a, o, d)
          \/ APIServer(r)
    \/ \E c \in Calls : Handle(c)

\* The process takes its own steps, and the kubelet starts it again.  The
\* failures are bounded, and nothing is assumed of clients or handlers.
Spec == Init /\ [][Next]_vars /\ WF_vars(Starting) /\ WF_vars(Stopping)

-----------------------------------------------------------------------------
(* Whatever is stored went through every webhook that is configured for it,
   in a call made for this very request: its mutation or its checks ran to
   the end without an error, or the filter took the object for one that is
   not the controller's.  Failing handlers, calls that time out and answer
   when the client has already repeated the request, dry runs, panics and a
   process that ends between the two calls or during one never let an object
   through without that.                                                   *)
StoredWasDecided ==
    \A r \in Requests :
        reqs[r].step = "stored" =>
            \A v \in Verbs :
                Path(v, reqs[r].resource, reqs[r].operation) \in Configured
                => decided[r][v] # "open"

(* After every signal, death and failure of the informer cache the process
   comes back and listens with a running cache: it never goes on with a
   cache that has stopped, and never stops half-way.                       *)
KeepsServing == []<>(phase = "listening" /\ informer = "running")

-----------------------------------------------------------------------------
(* The inductive invariant behind the two invariants above. *)

\* A webhook has to decide before the object is stored.
Needed(q, verb) == ~q.dryRun /\ Path(verb, q.resource, q.operation) \in Configured

\* A request q with the outcomes d of its webhooks: one that is past a webhook
\* went through it.
RequestOK(q, d) ==
    /\ (q.step \in {"validate", "write", "stored"} /\ Needed(q, "mutate"))
       => d["mutate"] # "open"
    /\ (q.step \in {"write", "stored"} /\ Needed(q, "validate")) => d["validate"] # "open"
    /\ q.step = "stored" => ~q.dryRun

\* A call k made for the request q with the outcomes d: it is the call of the
\* webhook that the request waits for, and allows only after an outcome.
CallOK(k, q, d) ==
    /\ k.step # "none"
    /\ q.step = k.hook.verb /\ k.hook = Path(q.step, q.resource, q.operation)
    /\ k.dryRun = q.dryRun
    /\ (k.step = "respond" \/ k.answer = "allowed") => d[q.step] # "open" \/ q.dryRun

RequestInv == \A r \in Requests : RequestOK(reqs[r], decided[r])

CallInv ==
    \A c \in Calls : \A r \in Requests :
        calls[c].by = r => /\ CallOK(calls[c], reqs[r], decided[r])
                           /\ \A d \in Calls : calls[d].by = r => d = c

IInv == TypeOK /\ RequestInv /\ CallInv
=============================================================================
