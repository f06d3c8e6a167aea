------------------------------- MODULE Server -------------------------------
(***************************************************************************)
(* The server (cmd/server/main.go and pkg/ingestion/handler.go): requests   *)
(* whose handlers add entries to the running processor, and runServer,      *)
(* which starts the processor and the HTTP server and, on a signal, stops   *)
(* the processor first and the HTTP server after it.                        *)
(*                                                                          *)
(* A request is one of Processor's adders.  Main is the only caller of      *)
(* Start and Stop.  Time is not modelled: a handler may be slow.            *)
(***************************************************************************)
EXTENDS Processor

CONSTANTS
  Main,     \* the goroutine of runServer
  MaxLogs   \* bound: entries in one request

ASSUME ServerAssumption ==
  /\ Callers = {Main}
  /\ MaxStarts = 1
  /\ MaxLogs \in Nat \ {0}

Requests == Adders

\* What a request may hold: the length of its "logs", and whether it has a "log".
Bodies == [logs : 0..MaxLogs, log : BOOLEAN]

VARIABLES
  main,       \* where runServer is
  exit,       \* what it returned
  accepting,  \* the HTTP server takes new requests
  handler,    \* handler[r]: where r's HandleIngest is, or its answer
  logs,       \* logs[r]: the number of entries in r
  processed,  \* processed[r], errors[r]: HandleIngest's counters
  errors,
  mine        \* history: the entries of r that the buffer accepted

mainVars    == <<main, exit, accepting>>
requestVars == <<handler, logs, processed, errors, mine>>
processorVars == vars
serverVars  == <<processorVars, mainVars, requestVars>>

Alive == main # "exited"

ServerInit ==
  /\ Init
  /\ main = "starting"
  /\ exit = "none"
  /\ accepting = FALSE
  /\ handler = [r \in Requests |-> "none"]
  /\ logs = [r \in Requests |-> 0]
  /\ processed = [r \in Requests |-> 0]
  /\ errors = [r \in Requests |-> 0]
  /\ mine = [r \in Requests |-> {}]

-----------------------------------------------------------------------------
(* HandleIngest *)

\* The entries that Parser.Parse finds: those in "logs", else the one in "log".
Parse(body) == IF body.logs > 0 THEN body.logs ELSE IF body.log THEN 1 ELSE 0

\* A request arrives.  One that is too large or no JSON is turned away, and so is one
\* without entries.
RequestArrives(r, body) ==
  /\ accepting
  /\ handler[r] = "none"
  /\ \E readable \in BOOLEAN :
       LET n == IF readable THEN Parse(body) ELSE 0
       IN /\ handler' = [handler EXCEPT ![r] = IF n = 0 THEN "rejected" ELSE "adding"]
          /\ logs' = [logs EXCEPT ![r] = n]
  /\ UNCHANGED <<processorVars, mainVars, processed, errors, mine>>

\* Mutant of Account: an error is counted, but the entry as well.
Account_NoContinue(r, res) ==
  /\ processed' = [processed EXCEPT ![r] = @ + 1]
  /\ errors' = [errors EXCEPT ![r] = IF res = "ok" THEN @ ELSE @ + 1]
  /\ mine' = [mine EXCEPT ![r] = IF res = "ok" THEN @ \cup {accepted'} ELSE @]
  /\ handler' = [handler EXCEPT ![r] = IF res = "panic" THEN "failed" ELSE @]

\* What the handler makes of the end of AddEntry: a panic leaves HandleIngest, and
\* gin.Recovery answers with status 500.
Account(r, res) ==
  /\ processed' = [processed EXCEPT ![r] = IF res = "ok" THEN @ + 1 ELSE @]
  /\ errors' = [errors EXCEPT ![r] = IF res \in {"full", "closed"} THEN @ + 1 ELSE @]
  /\ mine' = [mine EXCEPT ![r] = IF res = "ok" THEN @ \cup {accepted'} ELSE @]
  /\ handler' = [handler EXCEPT ![r] = IF res = "panic" THEN "failed" ELSE @]

\* AddEntry for the next entry, or its second half.
HandlerAdds(r) ==
  /\ handler[r] = "adding"
  /\ processed[r] + errors[r] < logs[r]
  /\ AddEntry(r)
  /\ IF adding'[r] = "checked"
     THEN UNCHANGED <<processed, errors, mine, handler>>
     ELSE Account(r, result'[r])
  /\ UNCHANGED <<mainVars, logs>>

\* Every entry was offered: status 200, whatever became of them.
HandlerAnswers(r) ==
  /\ handler[r] = "adding"
  /\ processed[r] + errors[r] >= logs[r]
  /\ handler' = [handler EXCEPT ![r] = IF errors[r] > 0 THEN "partial" ELSE "success"]
  /\ UNCHANGED <<processorVars, mainVars, logs, processed, errors, mine>>

-----------------------------------------------------------------------------
(* runServer *)

\* Start.
MainStarts ==
  /\ main = "starting"
  /\ StartBegins(Main, 1) \/ StartReturns(Main, 1)
  /\ UNCHANGED <<mainVars, requestVars>>

\* The goroutine of ListenAndServe.
MainListens ==
  /\ main = "starting"
  /\ loop[1] \notin {"none", "starting"}
  /\ main' = "serving"
  /\ accepting' = TRUE
  /\ UNCHANGED <<processorVars, exit, requestVars>>

\* A server ends by itself: runServer returns its error and the process is over.
ServerFails ==
  /\ main = "serving"
  /\ main' = "exited"
  /\ exit' = "error"
  /\ UNCHANGED <<processorVars, accepting, requestVars>>

\* SIGINT or SIGTERM: the context is cancelled.
SignalArrives ==
  /\ main = "serving"
  /\ Cancel
  /\ main' = "stopping"
  /\ UNCHANGED <<exit, accepting, requestVars>>

\* Mutant of MainStops: the cancelled context is taken for a stop.
MainStops_Skipped ==
  /\ main = "stopping"
  /\ main' = "stopped"
  /\ UNCHANGED <<processorVars, exit, accepting, requestVars>>

\* logProcessor.Stop, with its own steps.
MainStops ==
  /\ main = "stopping"
  /\ StopBegins(Main) \/ StopStep(Main)
  /\ main' = IF call'[Main] = "idle" THEN "stopped" ELSE "stopping"
  /\ UNCHANGED <<exit, accepting, requestVars>>

\* server.Shutdown closes the listeners.
ShutdownBegins ==
  /\ main = "stopped"
  /\ main' = "waiting"
  /\ accepting' = FALSE
  /\ UNCHANGED <<processorVars, exit, requestVars>>

MainReturns(e) ==
  /\ main' = "exited"
  /\ exit' = e
  /\ UNCHANGED <<processorVars, accepting, requestVars>>

\* Mutant of ShutdownReturns: the HTTP server is closed under its handlers.
ShutdownReturns_NoWait == main = "waiting" /\ MainReturns("ok")

\* Shutdown waits for the handlers, for 30 seconds at most.
ShutdownReturns ==
  /\ main = "waiting"
  /\ \A r \in Requests : handler[r] # "adding"
  /\ MainReturns("ok")

ShutdownTimesOut ==
  /\ main = "waiting"
  /\ \E r \in Requests : handler[r] = "adding"
  /\ MainReturns("error")

-----------------------------------------------------------------------------

Handler(r) == Alive /\ (HandlerAdds(r) \/ HandlerAnswers(r))

\* processingLoop, batchProcessor and the cache's clock run until the process ends.
Background ==
  /\ Alive
  /\ BatchProcessor \/ LoopStep(1) \/ \E c \in Contents : Expire(c)
  /\ UNCHANGED <<mainVars, requestVars>>

MainStep == MainStarts \/ MainListens \/ MainStops \/ ShutdownBegins \/ ShutdownReturns

ServerNext ==
  \/ \E r \in Requests, body \in Bodies : Alive /\ RequestArrives(r, body)
  \/ \E r \in Requests : Handler(r)
  \/ Background
  \/ MainStep
  \/ ServerFails
  \/ SignalArrives
  \/ ShutdownTimesOut

ServerSpec == ServerInit /\ [][ServerNext]_serverVars

\* Goroutines run.  Nothing is assumed of clients and signals, and the time-out of
\* Shutdown is not relied on.
ServerLiveSpec ==
  /\ ServerSpec
  /\ WF_serverVars(MainStep)
  /\ WF_serverVars(Background /\ BatchProcessor)
  /\ WF_serverVars(Background /\ LoopStep(1))
  /\ SF_serverVars(Background /\ LoopExits(1))
  /\ \A r \in Requests : WF_serverVars(Handler(r))

-----------------------------------------------------------------------------
(* Properties. *)

\* The processor keeps its shape, HandleIngest counts no entry twice, and a handler that
\* is not at work on an entry holds no place in an AddEntry.
ServerTypeOK ==
  /\ TypeOK
  /\ main \in {"starting", "serving", "stopping", "stopped", "waiting", "exited"}
  /\ exit \in {"none", "ok", "error"}
  /\ accepting \in BOOLEAN
  /\ handler \in [Requests -> {"none", "adding", "rejected", "success", "partial", "failed"}]
  /\ logs \in [Requests -> 0..MaxLogs]
  /\ \A r \in Requests : handler[r] = "none" => logs[r] = 0
  /\ processed \in [Requests -> 0..MaxLogs] /\ errors \in [Requests -> 0..MaxLogs]
  /\ \A r \in Requests : processed[r] + errors[r] <= logs[r]
  /\ \A r \in Requests :
       adding[r] = "checked" => handler[r] = "adding" /\ processed[r] + errors[r] < logs[r]
  /\ mine \in [Requests -> SUBSET (1..MaxEntries)]

\* The answer tells the client how many of its entries the buffer accepted, and says
\* success only if it accepted all: however handlers, batching and Close interleave.
AnswerIsAccurate ==
  \A r \in Requests :
    handler[r] \in {"success", "partial"} =>
      /\ processed[r] = Cardinality(mine[r])
      /\ errors[r] = logs[r] - Cardinality(mine[r])
      /\ handler[r] = "success" <=> Cardinality(mine[r]) = logs[r]

\* The HTTP server outlives the processor, but once Stop has returned no entry is
\* accepted any more: it would be acknowledged and never be processed.
NothingAcceptedAfterStop ==
  [][accepted' # accepted => main \notin {"stopped", "waiting"}]_serverVars

\* When runServer returns nil, every request has its answer and every accepted entry
\* was processed or counted as dropped, or sits in a batch nobody will receive.
CleanExitSettles ==
  exit = "ok" =>
    /\ \A r \in Requests : handler[r] # "adding"
    /\ 1..accepted = Processed \cup dropped \cup B!Queued

\* A signal ends the process, without the help of Shutdown's time-out.
ShutdownEnds == main = "stopping" ~> main = "exited"
=============================================================================
