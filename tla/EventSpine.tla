----------------------------- MODULE EventSpine -----------------------------
(***************************************************************************)
(* The worker process of services/workers: the outbox relay, the event bus *)
(* (one Redis stream per event type), the consumer of booking.confirmed    *)
(* and the workflow engine it calls.                                       *)
(*                                                                         *)
(* The relay is a timer: a tick may begin while earlier ones still run, so *)
(* up to Ticks of them interleave at every await.  The consumer is a loop: *)
(* its batch, and the workflow run in progress, are its local variables.   *)
(* Every database or bus call is one action, and the process can stop      *)
(* between any two of them (Crash), losing everything but the two stores.  *)
(***************************************************************************)
EXTENDS Integers, Sequences, FiniteSets

CONSTANTS
  Rows,        \* ids of the outbox rows the API commits
  TypeOf,      \* the event type of each row
  Ticks,       \* relay ticks that can be in progress at once
  RelayLimit,  \* rows one tick selects (100 in the code)
  ReadCount,   \* entries one read of the stream returns (10 in the code)
  Workflows,
  Definition,  \* the actions of each workflow, in order
  MaxFaults,   \* bound on failed database calls and process stops together
  None

Consumed == "booking.confirmed"
EventTypes == {TypeOf[r] : r \in Rows} \cup {Consumed}

(* The actions that insert a row; the others are stubs or unknown names. *)
Effective == {"tasks.createCleaning", "access.issueCredential"}

ASSUME LimitsAssumption == RelayLimit \in Nat \ {0} /\ ReadCount \in Nat \ {0}
ASSUME TicksAssumption == IsFiniteSet(Rows) /\ IsFiniteSet(Ticks)
ASSUME DefinitionAssumption ==
  /\ DOMAIN Definition = Workflows
  /\ \A w \in Workflows : Definition[w] \in Seq(STRING) \ {<<>>}
ASSUME BoundsAssumption == MaxFaults \in Nat
ASSUME NoneAssumption == None \notin Rows \cup Workflows

VARIABLES
  status,    \* outbox.status of each row
  tick,      \* each relay tick: the rows left of its batch, the one just streamed
  stream,    \* the entries of each stream, oldest first
  pos,       \* last entry the consumer group has been given
  pel,       \* entries given to the group and not acknowledged
  batch,     \* entries the consumer still has to handle; the first is current
  cpc,       \* where the consumer and the engine are
  todo,      \* enabled workflows read for the current entry and not run yet
  wf, k,     \* the workflow and the step the engine is in
  workflow,  \* workflows: "absent", "enabled" or "disabled"
  run,       \* workflow_runs: status of the run of a workflow for an entry
  effect,    \* rows the actions inserted: entry, workflow, step
  step,      \* run_steps rows: entry, workflow, step
  taken,     \* history: the workflows read for each entry
  faults, crashes

relay == <<status, tick>>
engine == <<todo, wf, k, run, effect, step, taken>>
consumer == <<pos, pel, batch, cpc, engine>>
vars == <<relay, stream, consumer, workflow, faults, crashes>>

Smaller(a, b) == IF a < b THEN a ELSE b
Idle == [rows |-> {}, sent |-> None]
Pending == {r \in Rows : status[r] = "pending"}

Init ==
  /\ status = [r \in Rows |-> "absent"]
  /\ tick = [t \in Ticks |-> Idle]
  /\ stream = [e \in EventTypes |-> <<>>]
  /\ pos = 0
  /\ pel = {}
  /\ batch = <<>>
  /\ cpc = "read"
  /\ todo = {}
  /\ wf = None
  /\ k = 0
  /\ workflow \in [Workflows -> {"absent", "enabled"}]
  /\ run = << >>
  /\ effect = {}
  /\ step = {}
  /\ taken = << >>
  /\ faults = 0
  /\ crashes = 0

----------------------------------------------------------------------------
(* The API. *)

(* A business transaction commits, and its outbox row with it. *)
CommitRow(r) ==
  /\ status[r] = "absent"
  /\ status' = [status EXCEPT ![r] = "pending"]
  /\ UNCHANGED <<tick, stream, consumer, workflow, faults, crashes>>

CreateWorkflow(w) ==
  /\ workflow[w] = "absent"
  /\ workflow' = [workflow EXCEPT ![w] = "enabled"]
  /\ UNCHANGED <<relay, stream, consumer, faults, crashes>>

SetEnabled(w, enabled) ==
  /\ workflow[w] # "absent"
  /\ workflow' = [workflow EXCEPT ![w] = IF enabled THEN "enabled" ELSE "disabled"]
  /\ UNCHANGED <<relay, stream, consumer, faults, crashes>>

----------------------------------------------------------------------------
(* The relay: relayOnce, one await at a time. *)

SelectFrom(t, rows) ==
  /\ tick[t] = Idle
  /\ rows # {}
  /\ \E some \in SUBSET rows :
       /\ Cardinality(some) = Smaller(RelayLimit, Cardinality(rows))
       /\ tick' = [tick EXCEPT ![t].rows = some]
  /\ UNCHANGED <<status, stream, consumer, workflow, faults, crashes>>

(* Mutants: rows are marked when they are selected; the filter on status is
   lost. *)
SelectClaiming(t) ==
  /\ tick[t] = Idle
  /\ Pending # {}
  /\ tick' = [tick EXCEPT ![t].rows = Pending]
  /\ status' = [r \in Rows |-> IF r \in Pending THEN "published" ELSE status[r]]
  /\ UNCHANGED <<stream, consumer, workflow, faults, crashes>>
SelectAll(t) == SelectFrom(t, {r \in Rows : status[r] # "absent"})

(* No ORDER BY: any RelayLimit of the pending rows, in any order. *)
RelaySelect(t) == SelectFrom(t, Pending)

RelayPublish(t) ==
  /\ tick[t].sent = None
  /\ \E r \in tick[t].rows :
       /\ stream' = [stream EXCEPT ![TypeOf[r]] = Append(@, r)]
       /\ tick' = [tick EXCEPT ![t].sent = r]
  /\ UNCHANGED <<status, consumer, workflow, faults, crashes>>

RelayMark(t) ==
  /\ tick[t].sent # None
  /\ status' = [status EXCEPT ![tick[t].sent] = "published"]
  /\ tick' = [tick EXCEPT ![t] = [rows |-> @.rows \ {@.sent}, sent |-> None]]
  /\ UNCHANGED <<stream, consumer, workflow, faults, crashes>>

(* An exception ends the tick; the rest of its batch waits for another one. *)
RelayFails(t) ==
  /\ tick[t] # Idle
  /\ faults + crashes < MaxFaults
  /\ faults' = faults + 1
  /\ tick' = [tick EXCEPT ![t] = Idle]
  /\ UNCHANGED <<status, stream, consumer, workflow, crashes>>

----------------------------------------------------------------------------
(* consumeBookingConfirmed and runWorkflowsFor. *)

Entry == batch[1]
Key == <<Entry, wf>>
Here == <<Entry, wf, k>>
Outside == <<relay, stream, workflow, crashes>>

(* XREADGROUP with ">": entries the group was never given, and only those. *)
ReadBatch ==
  LET n == Smaller(ReadCount, Len(stream[Consumed]) - pos) IN
  /\ cpc = "read"
  /\ n > 0
  /\ batch' = [i \in 1 .. n |-> pos + i]
  /\ pel' = pel \cup {pos + i : i \in 1 .. n}
  /\ pos' = pos + n
  /\ cpc' = "select"
  /\ UNCHANGED <<Outside, engine, faults>>

(* The workflows of the trigger, with the enabled flag they have now. *)
SelectWorkflows ==
  LET enabled == {w \in Workflows : workflow[w] = "enabled"} IN
  /\ cpc = "select"
  /\ todo' = enabled
  /\ taken' = [i \in DOMAIN taken \cup {Entry} |-> IF i = Entry THEN enabled ELSE taken[i]]
  /\ cpc' = IF enabled = {} THEN "ack" ELSE "start"
  /\ UNCHANGED <<Outside, pos, pel, batch, wf, k, run, effect, step, faults>>

StartRun(w) ==
  /\ cpc = "start"
  /\ w \in todo
  /\ run' = [key \in DOMAIN run \cup {<<Entry, w>>} |->
               IF key = <<Entry, w>> THEN "running" ELSE run[key]]
  /\ wf' = w
  /\ k' = 1
  /\ cpc' = "act"
  /\ UNCHANGED <<Outside, pos, pel, batch, todo, effect, step, taken, faults>>

(* The action of a step, in a transaction of its own. *)
Act ==
  /\ cpc = "act"
  /\ effect' = IF Definition[wf][k] \in Effective THEN effect \cup {Here} ELSE effect
  /\ cpc' = "record"
  /\ UNCHANGED <<Outside, pos, pel, batch, todo, wf, k, run, step, taken, faults>>

(* The run_steps row of that step, in the next transaction. *)
RecordStep ==
  /\ cpc = "record"
  /\ step' = step \cup {Here}
  /\ k' = k + 1
  /\ cpc' = IF k < Len(Definition[wf]) THEN "act" ELSE "finish"
  /\ UNCHANGED <<Outside, pos, pel, batch, todo, wf, run, effect, taken, faults>>

EndRun(outcome, next) ==
  /\ run' = [run EXCEPT ![Key] = outcome]
  /\ todo' = todo \ {wf}
  /\ wf' = None
  /\ k' = 0
  /\ cpc' = next
  /\ UNCHANGED <<Outside, pos, pel, batch, effect, step, taken, faults>>

NextRun == IF todo = {wf} THEN "ack" ELSE "start"

(* Mutants: a failure skips the other workflows; an exception in a step is
   swallowed. *)
FailAndReturn == cpc = "fail" /\ EndRun("failed", "ack")
StepErrorSwallowed ==
  /\ cpc \in {"act", "record", "finish"}
  /\ cpc' = "finish"
  /\ UNCHANGED <<Outside, pos, pel, batch, engine, faults>>

Finish == cpc = "finish" /\ EndRun("completed", NextRun)
Fail == cpc = "fail" /\ EndRun("failed", NextRun)

(* An action, a step row or the final update throws; nothing is undone. *)
StepError ==
  /\ cpc \in {"act", "record", "finish"}
  /\ cpc' = "fail"
  /\ UNCHANGED <<Outside, pos, pel, batch, engine, faults>>

(* Mutant of Ack: the loop over the batch ends after its first entry. *)
AckAndRead ==
  /\ cpc = "ack"
  /\ pel' = pel \ {Entry}
  /\ batch' = <<>>
  /\ cpc' = "read"
  /\ UNCHANGED <<Outside, pos, engine, faults>>

Ack ==
  /\ cpc = "ack"
  /\ pel' = pel \ {Entry}
  /\ batch' = Tail(batch)
  /\ cpc' = IF Len(batch) = 1 THEN "read" ELSE "select"
  /\ UNCHANGED <<Outside, pos, engine, faults>>

(* Control goes back to the top of the loop with an empty batch. *)
Restart ==
  /\ batch' = <<>>
  /\ cpc' = "read"
  /\ todo' = {}
  /\ wf' = None
  /\ k' = 0
  /\ UNCHANGED <<pos, pel, run, effect, step, taken>>

(* What no inner catch handles ends the batch: log, sleep, read again. *)
ConsumerThrows ==
  /\ cpc \in {"select", "start", "fail", "ack"}
  /\ faults + crashes < MaxFaults
  /\ faults' = faults + 1
  /\ Restart
  /\ UNCHANGED Outside

----------------------------------------------------------------------------
(* The process stops and is started again; the group it finds keeps its pos
   and its pending entries. *)
Crash ==
  /\ faults + crashes < MaxFaults
  /\ crashes' = crashes + 1
  /\ tick' = [t \in Ticks |-> Idle]
  /\ Restart
  /\ UNCHANGED <<status, stream, workflow, faults>>

RelayStep(t) == RelaySelect(t) \/ RelayPublish(t) \/ RelayMark(t)

ConsumerStep ==
  \/ ReadBatch \/ SelectWorkflows
  \/ \E w \in Workflows : StartRun(w)
  \/ Act \/ RecordStep \/ Finish \/ Fail \/ Ack

Next ==
  \/ \E r \in Rows : CommitRow(r)
  \/ \E w \in Workflows : CreateWorkflow(w) \/ \E b \in BOOLEAN : SetEnabled(w, b)
  \/ \E t \in Ticks : RelayStep(t) \/ RelayFails(t)
  \/ ConsumerStep \/ StepError \/ ConsumerThrows
  \/ Crash

(* The timer keeps firing and the loop keeps running: whatever the process is
   waiting for is answered.  Nothing is assumed of the API or of faults. *)
Fairness == (\A t \in Ticks : WF_vars(RelayStep(t))) /\ WF_vars(ConsumerStep)

Spec == Init /\ [][Next]_vars /\ Fairness

----------------------------------------------------------------------------
Copies(r) == {i \in DOMAIN stream[TypeOf[r]] : stream[TypeOf[r]][i] = r}
Entries == DOMAIN stream[Consumed]
Keys == Entries \X Workflows

(* Every row, entry and run has one of the values the schema and the loops
   give it. *)
TypeOK ==
  /\ status \in [Rows -> {"absent", "pending", "published"}]
  /\ tick \in [Ticks -> [rows : SUBSET Rows, sent : Rows \cup {None}]]
  /\ DOMAIN stream = EventTypes
  /\ \A e \in EventTypes : stream[e] \in Seq({r \in Rows : TypeOf[r] = e})
  /\ pos \in 0 .. Len(stream[Consumed])
  /\ pel \subseteq 1 .. pos
  /\ batch \in Seq(1 .. pos)
  /\ cpc \in {"read", "select", "start", "act", "record", "finish", "fail", "ack"}
  /\ todo \subseteq Workflows
  /\ wf \in Workflows \cup {None}
  /\ k \in Nat
  /\ workflow \in [Workflows -> {"absent", "enabled", "disabled"}]
  /\ DOMAIN run \subseteq Keys
  /\ \A key \in DOMAIN run : run[key] \in {"running", "completed", "failed"}
  /\ DOMAIN taken \subseteq Entries
  /\ faults \in Nat /\ crashes \in Nat /\ faults + crashes <= MaxFaults

(* How often the relay repeats itself: once for each tick that runs at the same
   time, and again for each failure between streaming a row and marking it. *)
CopiesBounded ==
  \A r \in Rows :
    Cardinality(Copies(r)) <= (crashes + 1) * Cardinality(Ticks) + faults

(* Entries the group waits for that the consumer has let go of: as it reads
   only ">", nobody will ever handle them. *)
Stranded == {i \in pel : \A j \in DOMAIN batch : batch[j] # i}

(* What a failure or a crash costs for good: the rest of the batch the consumer
   had in hand, one read at most.  Nothing else strands an entry. *)
StrandedOnlyByFaults == Cardinality(Stranded) <= (faults + crashes) * ReadCount

(* The run tables can be believed.  A completed run has every step and every
   effect of its definition; in any other run the recorded steps are the first
   ones, and at most one effect more than them has happened. *)
RunsTellTheTruth ==
  \A key \in DOMAIN run :
    LET def == Definition[key[2]]
        Done(n) == {<<key[1], key[2], j>> : j \in 1 .. n}
        Worked(n) == {<<key[1], key[2], j>> : j \in {i \in 1 .. n : def[i] \in Effective}}
        steps == {s \in step : <<s[1], s[2]>> = key}
        effects == {s \in effect : <<s[1], s[2]>> = key}
    IN \E n \in 0 .. Len(def) :
         /\ steps = Done(n)
         /\ \/ effects = Worked(n)
            \/ n < Len(def) /\ effects = Worked(n + 1)
         /\ run[key] = "completed" => n = Len(def)

(* A committed row reaches its stream and is marked, whatever fails: none is
   marked and then not published. *)
PendingIsPublished ==
  \A r \in Rows :
    status[r] = "pending" ~> (status[r] = "published" /\ Copies(r) # {})

(* While nothing fails, every published booking.confirmed is acknowledged, and
   not before each workflow that was enabled when the engine looked is run. *)
EntriesAcknowledged ==
  \A r \in Rows :
    (status[r] = "published" /\ TypeOf[r] = Consumed)
      ~> (faults + crashes > 0 \/ \A i \in Copies(r) :
            /\ i <= pos /\ i \notin pel
            /\ \A w \in taken[i] : <<i, w>> \in DOMAIN run /\ run[<<i, w>>] # "running")
=============================================================================
