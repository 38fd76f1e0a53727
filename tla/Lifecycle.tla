------------------------------ MODULE Lifecycle ------------------------------
(***************************************************************************)
(* The life of an engine process, as runWithContext of                     *)
(* cmd/ruptura/main.go orders it: the store is opened, the listeners of    *)
(* the receivers start one after the other, goroutines run beside it until *)
(* the context is done, and what was deferred runs in reverse when it      *)
(* returns.  Stop of internal/ingest/engine.go closes the receivers, HTTP  *)
(* before gRPC, each once its requests are answered; FlushSnapshots of     *)
(* internal/storage/storage.go writes what is in memory.                   *)
(*                                                                         *)
(* A request carries one log line, which SaveLog writes with its error     *)
(* ignored.  A snapshot is the number of the tick that stored it.          *)
(***************************************************************************)
EXTENDS Integers, Sequences

CONSTANTS
  Lines,         \* log lines that clients send
  Monitored,     \* workloads with a snapshot
  MaxTicks       \* bound: ticks of the analyzer

ASSUME LifecycleAssumption == MaxTicks \in Nat

Doors == {"http", "grpc"}

VARIABLES
  stage,       \* where runWithContext is
  deferred,    \* the calls it has deferred, the last one first
  signalled,   \* SIGTERM was received
  cancelled,   \* cancel() was called
  store,       \* "unopened", "open", "closed"
  collector,   \* the goroutine of RunGC: "none", "waiting", "collecting", "stopped"
  ticker,      \* the goroutine of the analyzer: its step, its tick, the hosts left
  open,        \* the receivers that accept requests
  line,        \* each line: "unsent", in a request at a door, or what became of it
  memory,      \* the tick of the snapshot in memory, 0 for none
  disk,        \* the tick of the snapshot in the database
  flush,       \* the snapshots FlushSnapshots has yet to write
  failed,      \* a write of the flush failed
  owed         \* ghost: the snapshots in memory when the signal arrived

processVars == <<stage, deferred, signalled, cancelled, store, collector, ticker, open,
                 line, memory, disk, flush, failed, owed>>

NoSnapshots == [h \in Monitored |-> 0]

LifecycleInit ==
  /\ stage = "opening" /\ deferred = <<>>
  /\ signalled = FALSE /\ cancelled = FALSE
  /\ store = "unopened" /\ collector = "none"
  /\ ticker = [at |-> "none", tick |-> 0, left |-> {}]
  /\ open = {}
  /\ line = [l \in Lines |-> "unsent"]
  /\ memory = NoSnapshots /\ disk = NoSnapshots /\ owed = NoSnapshots
  /\ flush = {} /\ failed = FALSE

ContextDone == signalled \/ cancelled
Running == stage # "exited"

----------------------------------------------------------------------------
(***************************************************************************)
(* runWithContext, from its first line to the select.                      *)
(***************************************************************************)
Defer(call) == deferred' = <<call>> \o deferred
LifeRest == <<signalled, cancelled, line, memory, disk, flush, failed, owed>>

(* storage.Open, cancel and Close deferred, the collector started, the bus *)
OpenStore ==
  /\ stage = "opening"
  /\ \/ /\ stage' = "listening"
        /\ store' = "open"
        /\ deferred' = <<"closeBus", "closeStore", "cancel">>
        /\ collector' = "waiting"
     \/ /\ stage' = "returning"
        /\ UNCHANGED <<store, deferred, collector>>
  /\ UNCHANGED <<ticker, open, LifeRest>>

(* StartHTTP listens in a goroutine: a port that is taken is only logged.   *)
(* A certificate that cannot be read ends the process.                     *)
StartHTTP ==
  /\ stage = "listening"
  /\ \/ stage' = "grpc" /\ open' \in {open, open \cup {"http"}}
     \/ stage' = "returning" /\ UNCHANGED open
  /\ UNCHANGED <<deferred, store, collector, ticker, LifeRest>>

(* StartOTLPGRPC listens itself: a port that is taken ends the process,     *)
(* before Stop is deferred.  The ticker of the analyzer starts after it.   *)
StartOTLPGRPC ==
  /\ stage = "grpc"
  /\ \/ /\ stage' = "rules"
        /\ open' = open \cup {"grpc"}
        /\ Defer("stopIngest")
        /\ ticker' = [ticker EXCEPT !.at = "waiting"]
     \/ stage' = "returning" /\ UNCHANGED <<open, deferred, ticker>>
  /\ UNCHANGED <<store, collector, LifeRest>>

(* engine.New: rules that cannot be parsed end the process. *)
StartActions ==
  /\ stage = "rules"
  /\ stage' \in {"serving", "returning"}
  /\ UNCHANGED <<deferred, store, collector, ticker, open, LifeRest>>

(* The select: the API server fails, and the process returns at once, or   *)
(* the context is done.                                                    *)
ServerFails ==
  /\ stage = "serving"
  /\ stage' = "returning"
  /\ UNCHANGED <<deferred, store, collector, ticker, open, LifeRest>>

Signal ==
  /\ Running /\ ~signalled
  /\ signalled' = TRUE
  /\ owed' = memory
  /\ UNCHANGED <<stage, deferred, cancelled, store, collector, ticker, open, line, memory, disk, flush, failed>>

BeginShutdown ==
  /\ stage = "serving" /\ ContextDone
  /\ stage' = "draining"
  /\ UNCHANGED <<deferred, store, collector, ticker, open, LifeRest>>

----------------------------------------------------------------------------
(***************************************************************************)
(* The way out.  srv.Shutdown ends within ten seconds whatever the API's   *)
(* clients do; then FlushSnapshots takes its copy under the lock.          *)
(***************************************************************************)
Snapshots == {<<h, memory[h]>> : h \in {m \in Monitored : memory[m] > 0}}

(* Faulty variant: the snapshot of one workload is left out of the copy.    *)
BeginFlushOfOne ==
  /\ stage = "draining"
  /\ stage' = "flushing"
  /\ flush' \in {{s} : s \in Snapshots} \cup {f \in {{}} : Snapshots = {}}
  /\ UNCHANGED <<deferred, signalled, cancelled, store, collector, ticker, open, line, memory, disk, failed, owed>>

BeginFlush ==
  /\ stage = "draining"
  /\ stage' = "flushing"
  /\ flush' = Snapshots
  /\ UNCHANGED <<deferred, signalled, cancelled, store, collector, ticker, open, line, memory, disk, failed, owed>>

(* The first write that fails ends the flush. *)
FlushOne ==
  /\ stage = "flushing"
  /\ \E s \in flush :
       \/ /\ disk' = [disk EXCEPT ![s[1]] = s[2]]
          /\ flush' = flush \ {s}
          /\ UNCHANGED failed
       \/ flush' = {} /\ failed' = TRUE /\ UNCHANGED disk
  /\ UNCHANGED <<stage, deferred, signalled, cancelled, store, collector, ticker, open, line, memory, owed>>

FlushEnds ==
  /\ stage = "flushing" /\ flush = {}
  /\ stage' = "returning"
  /\ UNCHANGED <<deferred, store, collector, ticker, open, LifeRest>>

(* Stop: Shutdown of the HTTP receiver accepts nothing more and waits for   *)
(* its requests, without a limit; gRPC accepts until then.                 *)
InFlight(door) == {l \in Lines : line[l] = door}

ReceiverCloses(door, next) ==
  IF door \in open
  THEN open' = open \ {door} /\ UNCHANGED deferred
  ELSE /\ InFlight(door) = {}
       /\ deferred' = <<next>> \o Tail(deferred)
       /\ UNCHANGED open

StopReceiver ==
  /\ stage = "returning" /\ deferred # <<>>
  /\ \/ Head(deferred) = "stopIngest" /\ ReceiverCloses("http", "stopGRPC")
     \/ Head(deferred) = "stopGRPC" /\ ReceiverCloses("grpc", "stopped")
  /\ UNCHANGED <<stage, store, collector, ticker, LifeRest>>

Unwind(call) ==
  /\ stage = "returning" /\ deferred # <<>> /\ Head(deferred) = call
  /\ deferred' = Tail(deferred)

CloseStore ==
  /\ Unwind("closeStore")
  /\ store' = "closed"
  /\ UNCHANGED <<stage, collector, ticker, open, LifeRest>>

Cancel ==
  /\ Unwind("cancel")
  /\ cancelled' = TRUE
  /\ UNCHANGED <<stage, signalled, store, collector, ticker, open, line, memory, disk, flush, failed, owed>>

OtherDeferred ==
  /\ Unwind("stopped") \/ Unwind("closeBus")
  /\ UNCHANGED <<stage, store, collector, ticker, open, LifeRest>>

Exit ==
  /\ stage = "returning" /\ deferred = <<>>
  /\ stage' = "exited"
  /\ UNCHANGED <<deferred, store, collector, ticker, open, LifeRest>>

----------------------------------------------------------------------------
(***************************************************************************)
(* What runs beside it, until the process is gone.                         *)
(***************************************************************************)
Beside == <<stage, deferred, signalled, cancelled, store, disk, flush, failed, owed>>

(* A select with two ready cases takes either. *)
CollectorTurn ==
  /\ Running
  /\ \/ collector = "waiting" /\ collector' = "collecting"
     \/ collector = "waiting" /\ ContextDone /\ collector' = "stopped"
     \/ collector = "collecting" /\ collector' = "waiting"
  /\ UNCHANGED <<ticker, open, line, memory, Beside>>

Tick ==
  /\ Running /\ ticker.at = "waiting" /\ ticker.tick < MaxTicks
  /\ ticker' = [at |-> "storing", tick |-> ticker.tick + 1, left |-> Monitored]
  /\ UNCHANGED <<collector, open, line, memory, Beside>>

StoreSnapshot ==
  /\ Running /\ ticker.at = "storing"
  /\ \E h \in ticker.left :
       /\ memory' = [memory EXCEPT ![h] = ticker.tick]
       /\ ticker' = [ticker EXCEPT !.left = @ \ {h},
                                   !.at = IF ticker.left = {h} THEN "waiting" ELSE @]
  /\ UNCHANGED <<collector, open, line, Beside>>

TickerStops ==
  /\ Running /\ ticker.at = "waiting" /\ ContextDone
  /\ ticker' = [ticker EXCEPT !.at = "stopped"]
  /\ UNCHANGED <<collector, open, line, memory, Beside>>

(* A request over the rate is refused and sent again. *)
Send ==
  /\ Running
  /\ \E l \in Lines, door \in open : line[l] = "unsent" /\ line' = [line EXCEPT ![l] = door]
  /\ UNCHANGED <<collector, ticker, open, memory, Beside>>

(* ingestLogs and the answer: SaveLog may fail, on a closed store it does. *)
Answer ==
  /\ Running
  /\ \E l \in Lines :
       /\ line[l] \in Doors
       /\ line' = [line EXCEPT ![l] = IF store = "closed" THEN "late" ELSE "kept"]
  /\ UNCHANGED <<collector, ticker, open, memory, Beside>>

AnswerUnwritten ==
  /\ Running /\ store = "open"
  /\ \E l \in Lines : line[l] \in Doors /\ line' = [line EXCEPT ![l] = "unwritten"]
  /\ UNCHANGED <<collector, ticker, open, memory, Beside>>

Main ==
  \/ OpenStore \/ StartHTTP \/ StartOTLPGRPC \/ StartActions
  \/ ServerFails \/ BeginShutdown
  \/ BeginFlush \/ FlushOne \/ FlushEnds
  \/ StopReceiver \/ CloseStore \/ Cancel \/ OtherDeferred \/ Exit

LifecycleNext ==
  \/ Main \/ Signal
  \/ CollectorTurn \/ Tick \/ StoreSnapshot \/ TickerStops
  \/ Send \/ Answer \/ AnswerUnwritten

LifecycleSpec == LifecycleInit /\ [][LifecycleNext]_processVars

----------------------------------------------------------------------------
(***************************************************************************)
(* Properties                                                              *)
(***************************************************************************)

(* Once Stop is deferred, no request is answered whose log line a closed   *)
(* store refused: Stop waits for both receivers, and the store closes      *)
(* after it.  (Stop of ingest/engine.go, the defers of main.go)            *)
AnsweredIsWritten == ticker.at # "none" => \A l \in Lines : line[l] # "late"

(* When the flush ends without a failed write, the database holds, of each *)
(* workload, the snapshot that was in memory when the signal arrived, or a *)
(* later one, whatever the ticker stored meanwhile.  (FlushSnapshots)      *)
FlushKeepsWhatWasOwed ==
  [][stage = "flushing" /\ stage' = "returning" /\ ~failed =>
       \A h \in Monitored : disk[h] >= owed[h]]_processVars

(* A process that gets the signal exits, at whatever step it was. *)
SignalIsObeyed == signalled ~> stage = "exited"

(* The comment on the defers of runWithContext: the goroutine of the       *)
(* garbage collection has stopped when the database is closed.             *)
CollectorStopsFirst == store = "closed" => collector = "stopped"
==============================================================================
