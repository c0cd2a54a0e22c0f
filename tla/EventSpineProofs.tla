-------------------------- MODULE EventSpineProofs --------------------------
(***************************************************************************)
(* Theorems about EventSpine, for any rows, ticks, workflows, limits and   *)
(* faults.                                                                 *)
(*                                                                         *)
(* The consumer's batch is the last entries it was given (BatchIsLast), so *)
(* an entry is handled once at most, and the engine meets neither a run    *)
(* nor a step of an entry or a workflow it has not come to (Untouched).    *)
(* The relay repeats a row only while the row is pending: each tick that   *)
(* has the row in its batch can stream it once (MayCopy).  What a fault    *)
(* strands lies below the batch, one read at most (StrandInv).  At the     *)
(* end, the safety halves of two liveness properties of EventSpine.        *)
(***************************************************************************)
EXTENDS EventSpine, FiniteSetTheorems, SequenceTheorems, TLAPS

Working == {"act", "record", "finish", "fail"}

BatchIsLast ==
  /\ cpc = "read" <=> batch = <<>>
  /\ \A j \in DOMAIN batch : batch[j] = pos - Len(batch) + j

(* Where the engine is. *)
Control ==
  /\ cpc = "start" => todo # {}
  /\ cpc \in Working => wf \in todo
  /\ cpc \in {"act", "record"} => k \in 1 .. Len(Definition[wf])

(* Entries and workflows the engine has not come to. *)
Untouched(i, w) ==
  \/ i > pos
  \/ cpc # "read" /\ i > Entry
  \/ cpc = "select" /\ i = Entry
  \/ cpc = "start" /\ i = Entry /\ w \in todo
  \/ cpc \in Working /\ i = Entry /\ w \in todo \ {wf}

KeyOf(s) == <<s[1], s[2]>>
Touched == DOMAIN run \cup {KeyOf(s) : s \in step \cup effect}

RowsAreOfRuns ==
  /\ Touched \subseteq Nat \X Workflows
  /\ \A key \in Touched : ~ Untouched(key[1], key[2])

Steps(key) == {s \in step : KeyOf(s) = key}
Effects(key) == {s \in effect : KeyOf(s) = key}
Done(key, n) == {<<key[1], key[2], j>> : j \in 1 .. n}
Worked(key, n) ==
  {<<key[1], key[2], j>> : j \in {i \in 1 .. n : Definition[key[2]][i] \in Effective}}

(* What the rows of a run say, n steps recorded and m of them in effect. *)
Says(key, n, m) == Steps(key) = Done(key, n) /\ Effects(key) = Worked(key, m)

CurrentRun ==
  cpc \in Working =>
    /\ Key \in DOMAIN run /\ run[Key] = "running"
    /\ cpc = "act" => Says(Key, k - 1, k - 1)
    /\ cpc = "record" => Says(Key, k - 1, k)
    /\ cpc = "finish" => Says(Key, Len(Definition[wf]), Len(Definition[wf]))

Truthful(key) ==
  LET len == Len(Definition[key[2]]) IN
  \E n \in 0 .. len :
    /\ Says(key, n, n) \/ (n < len /\ Says(key, n, n + 1))
    /\ run[key] = "completed" => n = len

EngineInv ==
  /\ TypeOK /\ BatchIsLast /\ Control /\ RowsAreOfRuns /\ CurrentRun
  /\ \A key \in DOMAIN run : Truthful(key)

(* The ticks that have streamed a row and not marked it, and those that have
   selected it and will stream it. *)
Sent(r) == {t \in Ticks : tick[t].sent = r}
MayCopy(r) == {t \in Ticks : r \in tick[t].rows /\ tick[t].sent # r}

CopiesInv ==
  \A r \in Rows :
    IF status[r] = "published"
    THEN Cardinality(Copies(r)) + Cardinality(MayCopy(r))
           <= crashes * Cardinality(Ticks) + Cardinality(Ticks) + faults
    ELSE Cardinality(Copies(r))
           <= crashes * Cardinality(Ticks) + Cardinality(Sent(r)) + faults

----------------------------------------------------------------------------
(* The consumer handles an entry of the stream it was given. *)
LEMMA EntryIsGiven ==
  ASSUME TypeOK, BatchIsLast, cpc # "read"
  PROVE  /\ Len(batch) \in Nat \ {0} /\ DOMAIN batch = 1 .. Len(batch)
         /\ Entry \in 1 .. pos /\ Entry = pos - Len(batch) + 1 /\ Entry \in Entries
<1>1. batch \in Seq(1 .. pos) /\ batch # <<>> /\ pos \in Nat
  BY DEF TypeOK, BatchIsLast
<1>2. Len(batch) \in Nat \ {0} /\ DOMAIN batch = 1 .. Len(batch)
  BY <1>1, EmptySeq, LenProperties
<1>3. 1 \in DOMAIN batch /\ batch[1] \in 1 .. pos /\ batch[1] = pos - Len(batch) + 1
  BY <1>1, <1>2, ElementOfSeq DEF BatchIsLast
<1>4. stream[Consumed] \in Seq({r \in Rows : TypeOf[r] = Consumed})
  BY DEF TypeOK, EventTypes
<1>5. pos <= Len(stream[Consumed]) /\ DOMAIN stream[Consumed] = 1 .. Len(stream[Consumed])
  BY <1>4, LenProperties DEF TypeOK
<1> QED
  BY <1>1, <1>2, <1>3, <1>4, <1>5, LenProperties DEF Entry, Entries

(* Streams only grow. *)
LEMMA StreamsGrow ==
  ASSUME TypeOK, NEW t \in Ticks, RelayPublish(t)
  PROVE  /\ DOMAIN stream' = EventTypes
         /\ \A e \in EventTypes : stream'[e] \in Seq({r \in Rows : TypeOf[r] = e})
         /\ Len(stream[Consumed]) <= Len(stream'[Consumed])
         /\ Entries \subseteq Entries'
<1>1. PICK r \in tick[t].rows : stream' = [stream EXCEPT ![TypeOf[r]] = Append(@, r)]
  BY DEF RelayPublish
<1>2. r \in Rows /\ TypeOf[r] \in EventTypes /\ Consumed \in EventTypes
  BY <1>1 DEF TypeOK, EventTypes
<1>3. ASSUME NEW e \in EventTypes
      PROVE  /\ stream[e] \in Seq({q \in Rows : TypeOf[q] = e})
             /\ stream'[e] = IF e = TypeOf[r] THEN Append(stream[e], r) ELSE stream[e]
  BY <1>1, <1>2 DEF TypeOK
<1>4. ASSUME NEW e \in EventTypes
      PROVE  /\ stream'[e] \in Seq({q \in Rows : TypeOf[q] = e})
             /\ Len(stream[e]) <= Len(stream'[e])
             /\ DOMAIN stream[e] \subseteq DOMAIN stream'[e]
  <2>1. CASE e = TypeOf[r]
    <3>1. r \in {q \in Rows : TypeOf[q] = e}
      BY <1>2, <2>1
    <3>2. stream'[e] = Append(stream[e], r)
      BY <1>3, <2>1
    <3> QED
      BY <1>3, <3>1, <3>2, AppendProperties, LenProperties
  <2>2. CASE e # TypeOf[r]
    <3>1. stream'[e] = stream[e] /\ stream[e] \in Seq({q \in Rows : TypeOf[q] = e})
      BY <1>3, <2>2
    <3>2. Len(stream[e]) \in Nat
      BY <3>1, LenProperties
    <3> QED
      BY <3>1, <3>2
  <2> QED
    BY <2>1, <2>2
<1>5. DOMAIN stream' = EventTypes
  BY <1>1 DEF TypeOK
<1> QED
  BY <1>2, <1>4, <1>5 DEF Entries

RelayTick(t) == RelayStep(t) \/ RelayFails(t)
ApiStep ==
  \/ \E r \in Rows : CommitRow(r)
  \/ \E w \in Workflows : CreateWorkflow(w) \/ \E b \in BOOLEAN : SetEnabled(w, b)

(* What the API and the relay do keeps the types. *)
LEMMA ApiTypes == TypeOK /\ ApiStep => TypeOK' /\ UNCHANGED <<consumer, tick, stream, faults, crashes>>
BY DEF TypeOK, ApiStep, CommitRow, CreateWorkflow, SetEnabled, consumer, engine, relay, Entries, Keys

LEMMA RelayTypes ==
  ASSUME TypeOK, NEW t \in Ticks, RelayTick(t)
  PROVE  TypeOK' /\ UNCHANGED <<consumer, crashes>> /\ faults' \in {faults, faults + 1}
<1> USE NoneAssumption DEF TypeOK
<1>1. CASE RelaySelect(t)
  <2>1. PICK some \in SUBSET Pending : tick' = [tick EXCEPT ![t].rows = some]
    BY <1>1 DEF RelaySelect, SelectFrom
  <2>2. UNCHANGED <<status, stream, consumer, workflow, faults, crashes>>
    BY <1>1 DEF RelaySelect, SelectFrom
  <2>3. tick' \in [Ticks -> [rows : SUBSET Rows, sent : Rows \cup {None}]]
    <3>1. some \in SUBSET Rows
      BY DEF Pending
    <3> QED
      BY <2>1, <3>1
  <2> QED
    BY <2>2, <2>3 DEF consumer, engine, Entries, Keys
<1>2. CASE RelayPublish(t)
  <2>1. /\ tick' \in [Ticks -> [rows : SUBSET Rows, sent : Rows \cup {None}]]
        /\ UNCHANGED <<status, consumer, workflow, faults, crashes>>
    BY <1>2 DEF RelayPublish
  <2>2. /\ DOMAIN stream' = EventTypes
        /\ \A e \in EventTypes : stream'[e] \in Seq({r \in Rows : TypeOf[r] = e})
        /\ Len(stream[Consumed]) <= Len(stream'[Consumed])
        /\ Entries \subseteq Entries'
    BY <1>2, StreamsGrow
  <2>3. Len(stream[Consumed]) \in Nat /\ Len(stream'[Consumed]) \in Nat
    BY <2>2, LenProperties DEF EventTypes
  <2> QED
    BY <2>1, <2>2, <2>3 DEF consumer, engine, Keys
<1>3. CASE RelayMark(t)
  BY <1>3 DEF RelayMark, consumer, engine, Entries, Keys
<1>4. CASE RelayFails(t)
  BY <1>4, BoundsAssumption DEF RelayFails, Idle, consumer, engine, Entries, Keys
<1> QED
  BY <1>1, <1>2, <1>3, <1>4 DEF RelayTick, RelayStep

LEMMA ReadTypes ==
  ASSUME TypeOK, BatchIsLast, ReadBatch
  PROVE  /\ TypeOK' /\ BatchIsLast' /\ pos' >= pos /\ Entry' = pos + 1
         /\ cpc' = "select" /\ UNCHANGED <<engine, faults, crashes>>
         /\ \E n \in 1 .. ReadCount : /\ pos' = pos + n /\ Len(batch') = n
                                      /\ pel' = pel \cup {pos + i : i \in 1 .. n}
<1> DEFINE n == Smaller(ReadCount, Len(stream[Consumed]) - pos)
<1>1. Len(stream[Consumed]) \in Nat /\ pos \in Nat /\ ReadCount \in Nat
  BY LenProperties, LimitsAssumption DEF TypeOK, EventTypes
<1>2. n \in 1 .. ReadCount /\ n <= Len(stream[Consumed]) - pos
  BY <1>1 DEF ReadBatch, Smaller
<1>3. /\ pos' = pos + n /\ batch' = [i \in 1 .. n |-> pos + i] /\ cpc' = "select"
      /\ pel' = pel \cup {pos + i : i \in 1 .. n}
      /\ UNCHANGED <<Outside, engine, faults>>
  BY DEF ReadBatch
<1> HIDE DEF n
<1>4. batch' \in Seq(1 .. pos') /\ Len(batch') = n /\ DOMAIN batch' = 1 .. n
  BY <1>1, <1>2, <1>3
<1>5. BatchIsLast'
  <2>1. batch' # <<>>
    BY <1>2, <1>4, EmptySeq
  <2> QED
    BY <1>1, <1>2, <1>3, <1>4, <2>1 DEF BatchIsLast
<1>6. pos' \in 0 .. Len(stream'[Consumed]) /\ pel' \subseteq 1 .. pos' /\ pos' >= pos
  <2>1. stream' = stream
    BY <1>3 DEF Outside
  <2>2. pos' \in 0 .. Len(stream'[Consumed]) /\ pos' >= pos
    BY <1>1, <1>2, <1>3, <2>1
  <2>3. pel \subseteq 1 .. pos'
    BY <1>1, <2>2 DEF TypeOK
  <2>4. {pos + i : i \in 1 .. n} \subseteq 1 .. pos'
    BY <1>1, <1>2, <1>3
  <2> QED
    BY <1>3, <2>2, <2>3, <2>4
<1>7. TypeOK'
  BY <1>3, <1>4, <1>6 DEF TypeOK, Outside, engine, relay, Entries, Keys
<1>8. Entry' = pos + 1
  BY <1>2, <1>3 DEF Entry
<1> QED
  BY <1>2, <1>3, <1>4, <1>5, <1>6, <1>7, <1>8 DEF Outside

LEMMA AckTypes ==
  ASSUME TypeOK, BatchIsLast, Ack
  PROVE  /\ TypeOK' /\ BatchIsLast' /\ UNCHANGED <<pos, engine>>
         /\ cpc' \in {"read", "select"} /\ Len(batch) > 0
         /\ cpc' = "select" => Entry' = Entry + 1
         /\ pel' = pel \ {pos - Len(batch) + 1} /\ Len(batch') = Len(batch) - 1
<1>1. /\ cpc = "ack" /\ pel' = pel \ {Entry} /\ batch' = Tail(batch)
      /\ cpc' = IF Len(batch) = 1 THEN "read" ELSE "select"
      /\ UNCHANGED <<Outside, pos, engine, faults>>
  BY DEF Ack
<1>2. /\ Len(batch) \in Nat \ {0} /\ DOMAIN batch = 1 .. Len(batch)
      /\ Entry \in 1 .. pos /\ Entry = pos - Len(batch) + 1
  BY <1>1, EntryIsGiven
<1>3. batch \in Seq(1 .. pos) /\ batch # <<>> /\ pos \in Nat
  BY <1>1 DEF TypeOK, BatchIsLast
<1>4. /\ batch' \in Seq(1 .. pos) /\ Len(batch') = Len(batch) - 1
      /\ \A i \in 1 .. Len(batch') : batch'[i] = batch[i + 1]
  BY <1>1, <1>3, HeadTailProperties
<1>5. Len(batch') \in Nat /\ DOMAIN batch' = 1 .. Len(batch')
  BY <1>4, LenProperties
<1>6. batch' = <<>> <=> Len(batch') = 0
  BY <1>4, EmptySeq
<1>7. BatchIsLast'
  <2>1. ASSUME NEW j \in 1 .. Len(batch') PROVE batch'[j] = pos - Len(batch') + j
    <3>1. j + 1 \in DOMAIN batch /\ batch'[j] = batch[j + 1]
      BY <1>2, <1>4
    <3>2. batch[j + 1] = pos - Len(batch) + (j + 1)
      BY <3>1 DEF BatchIsLast
    <3> QED
      BY <1>2, <1>3, <1>4, <3>1, <3>2
  <2> QED
    BY <1>1, <1>2, <1>4, <1>5, <1>6, <2>1 DEF BatchIsLast
<1>8. TypeOK'
  BY <1>1, <1>4 DEF TypeOK, Outside, engine, relay, Entries, Keys
<1>9. cpc' = "select" => Entry' = Entry + 1
  <2>1. SUFFICES ASSUME cpc' = "select" PROVE batch'[1] = Entry + 1
    BY DEF Entry
  <2>2. Len(batch') \in Nat \ {0}
    BY <1>1, <1>2, <1>4, <2>1
  <2>3. batch'[1] = batch[2] /\ 2 \in DOMAIN batch
    BY <1>2, <1>4, <2>2
  <2> QED
    BY <1>2, <1>3, <2>3 DEF BatchIsLast
<1> QED
  BY <1>1, <1>2, <1>4, <1>7, <1>8, <1>9

(* The steps of the engine, which leave the batch and the streams alone. *)
EngineStep ==
  \/ SelectWorkflows
  \/ \E w \in Workflows : StartRun(w)
  \/ Act \/ RecordStep \/ Finish \/ Fail \/ StepError

LEMMA EngineTypes ==
  ASSUME TypeOK, BatchIsLast, Control, EngineStep
  PROVE  TypeOK' /\ BatchIsLast' /\ Control' /\ UNCHANGED <<pos, pel, batch, faults, crashes>>
<1>1. cpc # "read" /\ cpc' # "read" /\ UNCHANGED <<Outside, pos, pel, batch, faults>>
  BY DEF EngineStep, SelectWorkflows, StartRun, Act, RecordStep, Finish, Fail, StepError, EndRun, NextRun
<1>2. Entry \in Entries
  BY <1>1, EntryIsGiven
<1>3. BatchIsLast'
  BY <1>1 DEF BatchIsLast
<1>4. ASSUME NEW w \in Workflows PROVE Len(Definition[w]) \in Nat \ {0}
  BY DefinitionAssumption, EmptySeq
<1>5. /\ TypeOK => todo \subseteq Workflows /\ wf \in Workflows \cup {None} /\ k \in Nat
      /\ cpc \in Working => wf \in Workflows
  BY DEF TypeOK, Control
<1>6. TypeOK' /\ Control'
  <2> USE DEF TypeOK, Outside, relay, Entries, Keys
  <2>1. CASE SelectWorkflows
    BY <1>1, <1>2, <2>1 DEF SelectWorkflows, Control, Working
  <2>2. ASSUME NEW w \in Workflows, StartRun(w) PROVE TypeOK' /\ Control'
    <3>1. <<Entry, w>> \in Keys
      BY <1>2
    <3>2. DOMAIN run' \subseteq Keys' /\ \A key \in DOMAIN run' : run'[key] \in {"running", "completed", "failed"}
      BY <1>1, <2>2, <3>1 DEF StartRun
    <3> QED
      BY <1>1, <1>4, <2>2, <3>2 DEF StartRun, Control, Working
  <2>3. CASE Act
    BY <1>1, <2>3 DEF Act, Control, Working
  <2>4. CASE RecordStep
    BY <1>1, <1>4, <1>5, <2>4 DEF RecordStep, Control, Working
  <2>5. CASE Finish \/ Fail
    <3>1. /\ wf \in todo /\ todo' = todo \ {wf} /\ wf' = None /\ k' = 0
          /\ cpc' = IF todo = {wf} THEN "ack" ELSE "start"
          /\ \E o \in {"completed", "failed"} : run' = [run EXCEPT ![Key] = o]
          /\ UNCHANGED <<Outside, pos, pel, batch, effect, step, taken, faults>>
      BY <2>5 DEF Finish, Fail, EndRun, NextRun, Control, Working
    <3>2. /\ DOMAIN run' = DOMAIN run
          /\ \A key \in DOMAIN run' : run'[key] \in {"running", "completed", "failed"}
      BY <3>1
    <3>3. Control'
      BY <3>1 DEF Control, Working
    <3> QED
      BY <1>1, <3>1, <3>2, <3>3
  <2>6. CASE StepError
    BY <1>1, <2>6 DEF StepError, engine, Control, Working
  <2> QED
    BY <2>1, <2>2, <2>3, <2>4, <2>5, <2>6 DEF EngineStep
<1> QED
  BY <1>1, <1>3, <1>6 DEF Outside

(* After a stop or an exception the consumer is at the top of its loop. *)
LEMMA RestartTypes ==
  ASSUME TypeOK, BatchIsLast, Control, Crash \/ ConsumerThrows
  PROVE  /\ TypeOK' /\ BatchIsLast' /\ Control' /\ faults' + crashes' = faults + crashes + 1
         /\ cpc' = "read" /\ batch' = <<>> /\ UNCHANGED <<pos, pel, run, effect, step, taken>>
<1>1. /\ cpc' = "read" /\ batch' = <<>> /\ todo' = {} /\ wf' = None /\ k' = 0
      /\ UNCHANGED <<status, stream, workflow, pos, pel, run, effect, step, taken>>
      /\ tick' = tick \/ tick' = [t \in Ticks |-> Idle]
  BY DEF Crash, ConsumerThrows, Restart, Outside, relay
<1>2. /\ faults' \in Nat /\ crashes' \in Nat /\ faults' + crashes' <= MaxFaults
      /\ faults' + crashes' = faults + crashes + 1
  <2>1. faults \in Nat /\ crashes \in Nat
    BY DEF TypeOK
  <2>2. \/ crashes' = crashes + 1 /\ faults' = faults
        \/ crashes' = crashes /\ faults' = faults + 1
    BY DEF Crash, ConsumerThrows, Outside
  <2>3. faults + crashes < MaxFaults
    BY DEF Crash, ConsumerThrows
  <2> QED
    BY <2>1, <2>2, <2>3, BoundsAssumption
<1>3. TypeOK'
  BY <1>1, <1>2, EmptySeq DEF TypeOK, Idle, Entries, Keys
<1>4. BatchIsLast'
  BY <1>1 DEF BatchIsLast
<1> QED
  BY <1>1, <1>2, <1>3, <1>4 DEF Control, Working

----------------------------------------------------------------------------
(* The rows of a run, after one more step of it. *)
LEMMA NextStep ==
  ASSUME NEW key, NEW n \in Nat
  PROVE  /\ Done(key, 0) = {} /\ Worked(key, 0) = {}
         /\ Done(key, n + 1) = Done(key, n) \cup {<<key[1], key[2], n + 1>>}
         /\ Definition[key[2]][n + 1] \in Effective =>
              Worked(key, n + 1) = Worked(key, n) \cup {<<key[1], key[2], n + 1>>}
         /\ Definition[key[2]][n + 1] \notin Effective => Worked(key, n + 1) = Worked(key, n)
<1>1. 1 .. 0 = {} /\ 1 .. n + 1 = (1 .. n) \cup {n + 1}
  OBVIOUS
<1> HIDE DEF Effective
<1>2. Done(key, 0) = {} /\ Worked(key, 0) = {}
  BY <1>1 DEF Done, Worked
<1>3. Done(key, n + 1) = Done(key, n) \cup {<<key[1], key[2], n + 1>>}
  BY <1>1 DEF Done
<1>4. Definition[key[2]][n + 1] \in Effective =>
        Worked(key, n + 1) = Worked(key, n) \cup {<<key[1], key[2], n + 1>>}
  BY <1>1 DEF Worked
<1>5. Definition[key[2]][n + 1] \notin Effective => Worked(key, n + 1) = Worked(key, n)
  BY <1>1 DEF Worked
<1> QED
  BY <1>2, <1>3, <1>4, <1>5

LEMMA StepRecorded ==
  ASSUME NEW i, NEW w, NEW j, step' = step \cup {<<i, w, j>>}
  PROVE  \A key : Steps(key)' =
           IF key = <<i, w>> THEN Steps(key) \cup {<<i, w, j>>} ELSE Steps(key)
BY DEF Steps, KeyOf

LEMMA EffectAdded ==
  ASSUME NEW i, NEW w, NEW j, effect' = effect \cup {<<i, w, j>>}
  PROVE  \A key : Effects(key)' =
           IF key = <<i, w>> THEN Effects(key) \cup {<<i, w, j>>} ELSE Effects(key)
BY DEF Effects, KeyOf

RunsInv == RowsAreOfRuns /\ CurrentRun /\ \A key \in DOMAIN run : Truthful(key)

(* A step that writes no run tables leaves them true, if what the engine has
   come to stays so. *)
LEMMA RunsUnmoved ==
  ASSUME RunsInv, UNCHANGED <<run, step, effect>>, cpc' \notin Working,
         \A i \in Nat, w \in Workflows : Untouched(i, w)' => Untouched(i, w)
  PROVE  RunsInv'
<1>1. Touched' = Touched
  BY DEF Touched
<1>2. RowsAreOfRuns'
  BY <1>1 DEF RunsInv, RowsAreOfRuns
<1>3. \A key : Truthful(key)' <=> Truthful(key)
  BY DEF Truthful, Says, Steps, Effects
<1> QED
  BY <1>2, <1>3 DEF RunsInv, CurrentRun

LEMMA RunsStart ==
  ASSUME TypeOK, BatchIsLast, Control, RunsInv, NEW u \in Workflows, StartRun(u)
  PROVE  RunsInv'
<1>1. /\ cpc = "start" /\ u \in todo /\ cpc' = "act" /\ k' = 1 /\ wf' = u
      /\ UNCHANGED <<pos, batch, todo, effect, step>> /\ Entry' = Entry
      /\ DOMAIN run' = DOMAIN run \cup {<<Entry, u>>} /\ run'[<<Entry, u>>] = "running"
      /\ \A key \in DOMAIN run : key # <<Entry, u>> => run'[key] = run[key]
  BY DEF StartRun, Entry
<1>2. Entry \in Nat /\ Entry <= pos /\ pos \in Nat
  BY <1>1, EntryIsGiven DEF TypeOK
<1>3. <<Entry, u>> \notin Touched
  <2>1. Untouched(Entry, u)
    BY <1>1 DEF Untouched
  <2> QED
    BY <2>1 DEF RunsInv, RowsAreOfRuns
<1>4. Steps(<<Entry, u>>) = {} /\ Effects(<<Entry, u>>) = {}
  BY <1>3 DEF Touched, Steps, Effects
<1>5. \A key : Steps(key)' = Steps(key) /\ Effects(key)' = Effects(key)
  BY <1>1 DEF Steps, Effects
<1>6. Done(<<Entry, u>>, 0) = {} /\ Worked(<<Entry, u>>, 0) = {}
  BY NextStep
<1>7. RowsAreOfRuns'
  <2>1. Touched' = Touched \cup {<<Entry, u>>}
    BY <1>1 DEF Touched
  <2>2. \A e : e = Entry => ~ Untouched(e, u)'
    BY <1>1, <1>2 DEF Untouched, Working
  <2>3. \A i \in Nat, w \in Workflows : Untouched(i, w)' => Untouched(i, w)
    BY <1>1 DEF Untouched, Working
  <2>4. ASSUME NEW key \in Touched' PROVE key \in Nat \X Workflows /\ ~ Untouched(key[1], key[2])'
    <3>1. CASE key = <<Entry, u>>
      BY <1>2, <2>2, <3>1
    <3>2. CASE key \in Touched
      BY <2>3, <3>2 DEF RunsInv, RowsAreOfRuns
    <3> QED
      BY <2>1, <3>1, <3>2
  <2> QED
    BY <2>4 DEF RowsAreOfRuns
<1>8. CurrentRun'
  BY <1>1, <1>4, <1>5, <1>6 DEF CurrentRun, Says, Key
<1>9. ASSUME NEW key \in DOMAIN run' PROVE Truthful(key)'
  <2>1. CASE key = <<Entry, u>>
    <3>1. Len(Definition[u]) \in Nat
      BY DefinitionAssumption, LenProperties
    <3>2. Says(key, 0, 0)' /\ run'[key] = "running" /\ key[2] = u
      BY <1>1, <1>4, <1>5, <1>6, <2>1 DEF Says, Worked, Done
    <3>3. 0 \in 0 .. Len(Definition[key[2]])
      BY <3>1, <3>2
    <3> QED
      BY <3>2, <3>3 DEF Truthful
  <2>2. CASE key # <<Entry, u>>
    <3>1. key \in DOMAIN run /\ run'[key] = run[key] /\ Truthful(key)
      BY <1>1, <1>9, <2>2 DEF RunsInv
    <3> QED
      BY <1>5, <3>1 DEF Truthful, Says
  <2> QED
    BY <2>1, <2>2
<1> QED
  BY <1>7, <1>8, <1>9 DEF RunsInv

(* Act, RecordStep, Finish, Fail and StepError move the rows of the current
   run only, and end what the engine is doing or go on with it. *)
LEMMA RunsGoOn ==
  ASSUME TypeOK, BatchIsLast, Control, RunsInv, cpc \in Working,
         UNCHANGED <<pos, batch>>, cpc' # "select", cpc' # "read",
         \/ cpc' \in Working /\ UNCHANGED <<todo, wf>>
         \/ cpc' \in {"start", "ack"} /\ todo' = todo \ {wf},
         DOMAIN run' = DOMAIN run, \A key \in DOMAIN run : key # Key => run'[key] = run[key],
         \A key : key # Key => Steps(key)' = Steps(key) /\ Effects(key)' = Effects(key)
  PROVE  /\ RowsAreOfRuns'
         /\ \A key \in DOMAIN run' : key # Key => Truthful(key)'
<1>1. Entry' = Entry /\ Entry \in Nat /\ wf \in Workflows /\ Key \in DOMAIN run
  BY EntryIsGiven DEF Entry, TypeOK, Control, Working, RunsInv, CurrentRun
<1>2. ASSUME NEW key, key \in Touched' PROVE key \in Touched
  <2>1. CASE key = Key
    BY <1>1, <2>1 DEF Touched
  <2>2. CASE key # Key
    <3>1. CASE key \in DOMAIN run'
      BY <3>1 DEF Touched
    <3>2. CASE \E s \in (step \cup effect)' : KeyOf(s) = key
      <4>1. PICK s \in (step \cup effect)' : KeyOf(s) = key
        BY <3>2
      <4>2. s \in Steps(key)' \cup Effects(key)'
        BY <4>1 DEF Steps, Effects
      <4> QED
        BY <2>2, <4>2 DEF Touched, Steps, Effects
    <3> QED
      BY <1>2, <3>1, <3>2 DEF Touched
  <2> QED
    BY <2>1, <2>2
<1>3. \A i \in Nat, w \in Workflows : Untouched(i, w)' => Untouched(i, w)
  BY <1>1 DEF Untouched, Working
<1>4. RowsAreOfRuns'
  BY <1>2, <1>3 DEF RunsInv, RowsAreOfRuns
<1>5. ASSUME NEW key \in DOMAIN run', key # Key PROVE Truthful(key)'
  <2>1. key \in DOMAIN run /\ run'[key] = run[key] /\ Truthful(key)
    BY <1>5 DEF RunsInv
  <2> QED
    BY <1>5, <2>1 DEF Truthful, Says
<1> QED
  BY <1>4, <1>5

LEMMA RunsAct ==
  ASSUME TypeOK, BatchIsLast, Control, RunsInv, Act
  PROVE  RunsInv'
<1>1. /\ cpc = "act" /\ cpc' = "record"
      /\ UNCHANGED <<pos, batch, todo, wf, k, run, step>> /\ Key' = Key
      /\ effect' = IF Definition[wf][k] \in Effective THEN effect \cup {Here} ELSE effect
  BY DEF Act, Key, Entry
<1>2. PICK n \in Nat, c \in DOMAIN run :
        /\ k = n + 1 /\ n < Len(Definition[wf]) /\ Len(Definition[wf]) \in Nat
        /\ c = Key /\ c = <<Entry, wf>> /\ c[2] = wf /\ Here = <<c[1], c[2], n + 1>>
        /\ c \in DOMAIN run /\ run[c] = "running" /\ Says(c, n, n)
  <2>1. /\ Key \in DOMAIN run /\ run[Key] = "running" /\ Says(Key, k - 1, k - 1)
        /\ k \in 1 .. Len(Definition[wf]) /\ Len(Definition[wf]) \in Nat
    BY <1>1, DefinitionAssumption, LenProperties DEF RunsInv, CurrentRun, Control, Working, TypeOK
  <2>2. k - 1 \in Nat /\ k = (k - 1) + 1 /\ k - 1 < Len(Definition[wf])
    BY <2>1
  <2> QED
    BY <2>1, <2>2 DEF Key, Here
<1>3. /\ \A key : Steps(key)' = Steps(key)
      /\ \A key : key # c => Effects(key)' = Effects(key)
      /\ Effects(c)' = IF Definition[wf][k] \in Effective THEN Effects(c) \cup {Here} ELSE Effects(c)
  <2>1. CASE Definition[wf][k] \in Effective
    <3>1. effect' = effect \cup {<<c[1], c[2], n + 1>>} /\ c = <<c[1], c[2]>>
      BY <1>1, <1>2, <2>1
    <3>2. \A key : Effects(key)' =
            IF key = <<c[1], c[2]>> THEN Effects(key) \cup {<<c[1], c[2], n + 1>>} ELSE Effects(key)
      BY <3>1, EffectAdded
    <3> QED
      BY <1>1, <1>2, <2>1, <3>1, <3>2 DEF Steps
  <2>2. CASE Definition[wf][k] \notin Effective
    BY <1>1, <2>2 DEF Steps, Effects
  <2> QED
    BY <2>1, <2>2
<1>4. Effects(c)' = Worked(c, n + 1)
  BY <1>2, <1>3, NextStep DEF Says
<1>5. Says(c, n, n + 1)'
  BY <1>2, <1>3, <1>4 DEF Says
<1>6. RowsAreOfRuns' /\ \A key \in DOMAIN run' : key # c => Truthful(key)'
  BY <1>1, <1>2, <1>3, RunsGoOn DEF Working
<1>7. CurrentRun'
  BY <1>1, <1>2, <1>5 DEF CurrentRun
<1>8. Truthful(c)'
  BY <1>1, <1>2, <1>5 DEF Truthful
<1> QED
  BY <1>6, <1>7, <1>8 DEF RunsInv

LEMMA RunsRecord ==
  ASSUME TypeOK, BatchIsLast, Control, RunsInv, RecordStep
  PROVE  RunsInv'
<1>1. /\ cpc = "record" /\ k' = k + 1 /\ step' = step \cup {Here}
      /\ cpc' = IF k < Len(Definition[wf]) THEN "act" ELSE "finish"
      /\ UNCHANGED <<pos, batch, todo, wf, run, effect>> /\ Key' = Key
  BY DEF RecordStep, Key, Entry
<1>2. PICK n \in Nat, c \in DOMAIN run :
        /\ k = n + 1 /\ n < Len(Definition[wf]) /\ Len(Definition[wf]) \in Nat
        /\ c = Key /\ c = <<Entry, wf>> /\ c[2] = wf /\ Here = <<c[1], c[2], n + 1>>
        /\ c \in DOMAIN run /\ run[c] = "running" /\ Says(c, n, n + 1)
  <2>1. /\ Key \in DOMAIN run /\ run[Key] = "running" /\ Says(Key, k - 1, k)
        /\ k \in 1 .. Len(Definition[wf]) /\ Len(Definition[wf]) \in Nat
    BY <1>1, DefinitionAssumption, LenProperties DEF RunsInv, CurrentRun, Control, Working, TypeOK
  <2>2. k - 1 \in Nat /\ k = (k - 1) + 1 /\ k - 1 < Len(Definition[wf])
    BY <2>1
  <2> QED
    BY <2>1, <2>2 DEF Key, Here
<1>3. /\ \A key : Effects(key)' = Effects(key)
      /\ \A key : key # c => Steps(key)' = Steps(key)
      /\ Steps(c)' = Steps(c) \cup {Here}
  BY <1>1, <1>2, StepRecorded DEF Effects, Here
<1>4. Steps(c)' = Done(c, n + 1)
  <2>1. Done(c, n + 1) = Done(c, n) \cup {<<c[1], c[2], n + 1>>}
    BY NextStep
  <2>2. Steps(c) = Done(c, n)
    BY <1>2 DEF Says
  <2> QED
    BY <1>2, <1>3, <2>1, <2>2
<1>5. Says(c, n + 1, n + 1)'
  BY <1>2, <1>3, <1>4 DEF Says
<1>6. RowsAreOfRuns' /\ \A key \in DOMAIN run' : key # c => Truthful(key)'
  BY <1>1, <1>2, <1>3, RunsGoOn DEF Working
<1>7. CurrentRun'
  <2>1. CASE cpc' = "act"
    BY <1>1, <1>2, <1>5, <2>1 DEF CurrentRun
  <2>2. CASE cpc' = "finish"
    <3>1. n + 1 = Len(Definition[wf])
      BY <1>1, <1>2, <2>2
    <3> QED
      BY <1>1, <1>2, <1>5, <2>2, <3>1 DEF CurrentRun
  <2> QED
    BY <1>1, <2>1, <2>2
<1>8. Truthful(c)'
  BY <1>1, <1>2, <1>5 DEF Truthful
<1> QED
  BY <1>6, <1>7, <1>8 DEF RunsInv

LEMMA RunsEnd ==
  ASSUME TypeOK, BatchIsLast, Control, RunsInv, Finish \/ Fail \/ StepError
  PROVE  RunsInv'
<1>1. /\ cpc \in Working /\ cpc' # "select" /\ cpc' # "read"
      /\ UNCHANGED <<pos, batch, effect, step>> /\ Entry' = Entry
      /\ \/ cpc' = "fail" /\ UNCHANGED <<todo, wf, run>> /\ Key' = Key
         \/ cpc' \in {"start", "ack"} /\ todo' = todo \ {wf}
  BY DEF Finish, Fail, StepError, EndRun, NextRun, Working, engine, Entry, Key
<1>2. PICK c : c = Key /\ c[2] = wf /\ c \in DOMAIN run /\ run[c] = "running" /\ Truthful(c)
  BY <1>1 DEF RunsInv, CurrentRun, Key
<1>3. /\ DOMAIN run' = DOMAIN run
      /\ \A key \in DOMAIN run : key # c => run'[key] = run[key]
      /\ run'[c] = "completed" => cpc = "finish"
  BY <1>2 DEF Finish, Fail, StepError, EndRun, engine
<1>4. \A key : Steps(key)' = Steps(key) /\ Effects(key)' = Effects(key)
  BY <1>1 DEF Steps, Effects
<1>5. RowsAreOfRuns' /\ \A key \in DOMAIN run' : key # c => Truthful(key)'
  BY <1>1, <1>2, <1>3, <1>4, RunsGoOn DEF Working
<1>6. CurrentRun'
  BY <1>1, <1>2 DEF CurrentRun, Working
<1>7. Truthful(c)'
  <2>1. CASE cpc = "finish"
    <3>1. Says(c, Len(Definition[wf]), Len(Definition[wf])) /\ wf \in Workflows
      BY <1>1, <1>2, <2>1 DEF RunsInv, CurrentRun, Control, Working, TypeOK
    <3>2. PICK n \in Nat : n = Len(Definition[wf])
      BY <3>1, DefinitionAssumption, LenProperties
    <3>3. Says(c, n, n)' /\ n \in 0 .. Len(Definition[c[2]]) /\ n = Len(Definition[c[2]])
      BY <1>2, <1>4, <3>1, <3>2 DEF Says
    <3> QED
      BY <3>3 DEF Truthful
  <2>2. CASE cpc # "finish"
    BY <1>2, <1>3, <1>4, <2>2 DEF Truthful, Says
  <2> QED
    BY <2>1, <2>2
<1> QED
  BY <1>3, <1>5, <1>6, <1>7 DEF RunsInv

----------------------------------------------------------------------------
LEMMA EngineInit == Init => EngineInv
<1> SUFFICES ASSUME Init PROVE EngineInv
  OBVIOUS
<1> USE DEF Init
<1>1. TypeOK
  BY EmptySeq, BoundsAssumption DEF TypeOK, Idle, EventTypes, Entries, Keys
<1>2. BatchIsLast /\ Control /\ CurrentRun
  BY DEF BatchIsLast, Control, CurrentRun, Working
<1>3. RowsAreOfRuns /\ \A key \in DOMAIN run : Truthful(key)
  BY DEF RowsAreOfRuns, Touched
<1> QED
  BY <1>1, <1>2, <1>3 DEF EngineInv

LEMMA EngineInvariant == EngineInv /\ [Next]_vars => EngineInv'
<1> SUFFICES ASSUME EngineInv, [Next]_vars PROVE EngineInv'
  OBVIOUS
<1>0. TypeOK /\ BatchIsLast /\ Control /\ RunsInv
  BY DEF EngineInv, RunsInv
<1> SUFFICES TypeOK' /\ BatchIsLast' /\ Control' /\ RunsInv'
  BY DEF EngineInv, RunsInv
<1>1. ASSUME UNCHANGED consumer PROVE BatchIsLast' /\ Control' /\ RunsInv'
  <2>1. UNCHANGED <<pos, pel, batch, cpc, todo, wf, k, run, effect, step>>
    BY <1>1 DEF consumer, engine
  <2>2. BatchIsLast' /\ Control'
    BY <1>0, <2>1 DEF BatchIsLast, Control
  <2>3. RunsInv'
    BY <1>0, <2>1 DEF RunsInv, RowsAreOfRuns, CurrentRun, Touched, Untouched, Entry, Key,
                      Truthful, Says, Steps, Effects
  <2> QED
    BY <2>2, <2>3
<1>2. CASE ApiStep
  BY <1>0, <1>1, <1>2, ApiTypes DEF TypeOK
<1>3. ASSUME NEW t \in Ticks, RelayTick(t) PROVE TypeOK' /\ UNCHANGED consumer
  BY <1>0, <1>3, RelayTypes
<1>4. CASE ReadBatch
  <2>1. /\ TypeOK' /\ BatchIsLast' /\ pos' >= pos /\ Entry' = pos + 1
        /\ cpc' = "select" /\ UNCHANGED engine
    BY <1>0, <1>4, ReadTypes
  <2>2. batch = <<>> /\ pos \in Nat /\ pos' \in Nat
    BY <1>0, <1>4, <2>1, EmptySeq DEF ReadBatch, BatchIsLast, TypeOK
  <2>3. Control'
    BY <2>1 DEF Control, Working
  <2>4. \A i \in Nat, w \in Workflows : Untouched(i, w)' => Untouched(i, w)
    BY <2>1, <2>2 DEF Untouched, Working
  <2>5. RunsInv'
    BY <1>0, <2>1, <2>4, RunsUnmoved DEF engine, Working
  <2> QED
    BY <2>1, <2>3, <2>5
<1>5. CASE Ack
  <2>1. /\ TypeOK' /\ BatchIsLast' /\ UNCHANGED <<pos, engine>>
        /\ cpc' \in {"read", "select"} /\ Len(batch) > 0
        /\ cpc' = "select" => Entry' = Entry + 1
    BY <1>0, <1>5, AckTypes
  <2>2. Control'
    BY <2>1 DEF Control, Working
  <2>3. Entry \in Nat /\ cpc = "ack"
    BY <1>0, <1>5, EntryIsGiven DEF Ack, TypeOK
  <2>4. \A i \in Nat, w \in Workflows : Untouched(i, w)' => Untouched(i, w)
    BY <2>1, <2>3 DEF Untouched, Working
  <2>5. RunsInv'
    BY <1>0, <2>1, <2>4, RunsUnmoved DEF engine, Working
  <2> QED
    BY <2>1, <2>2, <2>5
<1>6. CASE EngineStep
  <2>1. TypeOK' /\ BatchIsLast' /\ Control' /\ UNCHANGED <<pos, pel, batch, faults, crashes>>
    BY <1>0, <1>6, EngineTypes
  <2>2. CASE SelectWorkflows
    <3>1. /\ cpc = "select" /\ cpc' \in {"start", "ack"} /\ Entry' = Entry
          /\ UNCHANGED <<run, step, effect>>
      BY <2>1, <2>2 DEF SelectWorkflows, Entry
    <3>2. \A i \in Nat, w \in Workflows : Untouched(i, w)' => Untouched(i, w)
      BY <2>1, <3>1 DEF Untouched, Working
    <3>3. cpc' \notin Working
      BY <3>1 DEF Working
    <3> QED
      BY <1>0, <2>1, <3>1, <3>2, <3>3, RunsUnmoved
  <2> QED
    BY <1>0, <1>6, <2>1, <2>2, RunsStart, RunsAct, RunsRecord, RunsEnd DEF EngineStep
<1>7. CASE Crash \/ ConsumerThrows
  <2>1. /\ TypeOK' /\ BatchIsLast' /\ Control'
        /\ cpc' = "read" /\ UNCHANGED <<pos, pel, run, effect, step, taken>>
    BY <1>0, <1>7, RestartTypes
  <2>2. \A i \in Nat, w \in Workflows : Untouched(i, w)' => Untouched(i, w)
    BY <2>1 DEF Untouched, Working
  <2>3. RunsInv'
    BY <1>0, <2>1, <2>2, RunsUnmoved DEF Working
  <2> QED
    BY <2>1, <2>3
<1>8. CASE UNCHANGED vars
  <2>1. UNCHANGED consumer /\ TypeOK'
    BY <1>0, <1>8 DEF vars, relay, consumer, engine, TypeOK, Entries, Keys
  <2> QED
    BY <1>1, <2>1
<1> QED
  BY <1>1, <1>2, <1>3, <1>4, <1>5, <1>6, <1>7, <1>8
     DEF Next, ApiStep, RelayTick, ConsumerStep, EngineStep

LEMMA EngineAlways == Spec => []EngineInv
BY EngineInit, EngineInvariant, PTL DEF Spec

(* Rows, entries and runs have the values the schema and the loops of the   *)
(* worker give them.                                                        *)
THEOREM SpineTypes == Spec => []TypeOK
<1>1. EngineInv => TypeOK
  BY DEF EngineInv
<1> QED
  BY <1>1, EngineAlways, PTL

(* runWorkflowsFor: workflow_runs, run_steps and the rows of the actions    *)
(* tell the same story after every step, failure and crash.                 *)
THEOREM RunTablesAreTrue == Spec => []RunsTellTheTruth
<1>1. EngineInv => RunsTellTheTruth
  BY DEF EngineInv, Truthful, Says, Steps, Effects, Done, Worked, KeyOf, RunsTellTheTruth
<1> QED
  BY <1>1, EngineAlways, PTL

----------------------------------------------------------------------------
(* The entries below the batch, which is where the stranded ones are. *)
Low == {i \in pel : i <= pos - Len(batch)}

StrandInv ==
  /\ Len(batch) <= ReadCount
  /\ Cardinality(Low) <= (faults + crashes) * ReadCount

LEMMA EntriesAreFinite ==
  ASSUME NEW p \in Nat, NEW S, S \subseteq 1 .. p
  PROVE  IsFiniteSet(S) /\ Cardinality(S) \in Nat
<1>1. 1 \in Int /\ p \in Int
  OBVIOUS
<1>2. IsFiniteSet(1 .. p)
  BY <1>1, FS_Interval
<1> QED
  BY <1>2, FS_Subset, FS_CardinalityType

LEMMA LastEntries ==
  ASSUME NEW p \in Nat, NEW n \in Nat
  PROVE  IsFiniteSet(p - n + 1 .. p) /\ Cardinality(p - n + 1 .. p) = n
<1> DEFINE a == p - n + 1
<1>1. a \in Int /\ p \in Int /\ (a > p <=> n = 0)
  OBVIOUS
<1> HIDE DEF a
<1>2. IsFiniteSet(a .. p) /\ Cardinality(a .. p) = IF a > p THEN 0 ELSE p - a + 1
  BY <1>1, FS_Interval
<1> QED
  BY <1>2 DEF a

LEMMA LowIsStranded ==
  ASSUME TypeOK, BatchIsLast
  PROVE  /\ Stranded = Low /\ IsFiniteSet(Low) /\ Cardinality(Low) \in Nat
         /\ Len(batch) \in Nat /\ pos \in Nat /\ pel \subseteq 1 .. pos
<1>1. /\ Len(batch) \in Nat /\ DOMAIN batch = 1 .. Len(batch)
      /\ pos \in Nat /\ pel \subseteq 1 .. pos
      /\ \A j \in 1 .. Len(batch) : batch[j] = pos - Len(batch) + j
  BY LenProperties DEF TypeOK, BatchIsLast
<1>2. ASSUME NEW i \in pel PROVE i \in Stranded <=> i \in Low
  <2>1. i \in 1 .. pos
    BY <1>1
  <2>2. CASE i <= pos - Len(batch)
    BY <1>1, <2>1, <2>2 DEF Stranded, Low
  <2>3. CASE i > pos - Len(batch)
    <3>1. i - pos + Len(batch) \in DOMAIN batch
      BY <1>1, <2>1, <2>3
    <3>2. batch[i - pos + Len(batch)] = i
      BY <1>1, <2>1, <3>1
    <3> QED
      BY <1>1, <2>1, <2>3, <3>1, <3>2 DEF Stranded, Low
  <2> QED
    BY <1>1, <2>1, <2>2, <2>3
<1>3. Stranded = Low
  BY <1>2 DEF Stranded, Low
<1>4. IsFiniteSet(Low) /\ Cardinality(Low) \in Nat
  <2>1. Low \subseteq 1 .. pos
    BY <1>1 DEF Low
  <2> QED
    BY <1>1, <2>1, EntriesAreFinite
<1> QED
  BY <1>1, <1>3, <1>4

(* One more fault pays for one more read. *)
LEMMA OneMoreRead ==
  ASSUME NEW n \in Nat
  PROVE  (n + 1) * ReadCount = n * ReadCount + ReadCount /\ n * ReadCount \in Nat
BY LimitsAssumption

LEMMA StrandStep == EngineInv /\ StrandInv /\ [Next]_vars => StrandInv'
<1> SUFFICES ASSUME EngineInv, StrandInv, [Next]_vars PROVE StrandInv'
  OBVIOUS
<1> DEFINE Spent == faults + crashes
<1>1. /\ TypeOK /\ BatchIsLast /\ Control /\ ReadCount \in Nat
      /\ faults \in Nat /\ crashes \in Nat
      /\ IsFiniteSet(Low) /\ Cardinality(Low) \in Nat
      /\ Len(batch) \in Nat /\ pos \in Nat /\ pel \subseteq 1 .. pos
  BY LowIsStranded, LimitsAssumption DEF EngineInv, TypeOK
<1>2. TypeOK' /\ BatchIsLast' /\ IsFiniteSet(Low') /\ Cardinality(Low') \in Nat
  <2>1. TypeOK' /\ BatchIsLast'
    BY EngineInvariant DEF EngineInv
  <2>2. pos' \in Nat /\ pel' \subseteq 1 .. pos'
    BY <2>1 DEF TypeOK
  <2>3. Low' \subseteq 1 .. pos'
    BY <2>2 DEF Low
  <2> QED
    BY <2>1, <2>2, <2>3, EntriesAreFinite
<1>3. ASSUME Low' \subseteq Low, Len(batch') <= ReadCount, Spent' \in {Spent, Spent + 1}
      PROVE  StrandInv'
  <2>1. Cardinality(Low') <= Cardinality(Low)
    BY <1>1, <1>3, FS_Subset
  <2> QED
    BY <1>1, <1>2, <1>3, <2>1, OneMoreRead DEF StrandInv
<1>4. CASE ApiStep \/ (\E t \in Ticks : RelayTick(t)) \/ EngineStep \/ UNCHANGED vars
  <2>1. UNCHANGED <<pos, pel, batch>> /\ Spent' \in {Spent, Spent + 1}
    <3>1. CASE ApiStep
      BY <1>1, <3>1, ApiTypes DEF consumer
    <3>2. ASSUME NEW t \in Ticks, RelayTick(t)
                 PROVE  UNCHANGED <<pos, pel, batch>> /\ Spent' \in {Spent, Spent + 1}
      <4>1. UNCHANGED consumer /\ crashes' = crashes /\ faults' \in {faults, faults + 1}
        BY <1>1, <3>2, RelayTypes
      <4>2. UNCHANGED <<pos, pel, batch>>
        BY <4>1 DEF consumer
      <4>3. faults \in Nat /\ crashes \in Nat
        BY <1>1
      <4>4. crashes' = crashes /\ (faults' = faults \/ faults' = faults + 1)
        BY <4>1
      <4>5. faults' + crashes' \in {faults + crashes, faults + crashes + 1}
        BY <4>3, <4>4
      <4> QED
        BY <4>2, <4>5
    <3>3. CASE EngineStep
      BY <1>1, <3>3, EngineTypes
    <3>4. CASE UNCHANGED vars
      BY <3>4 DEF vars, consumer
    <3> QED
      BY <1>4, <3>1, <3>2, <3>3, <3>4
  <2> QED
    BY <1>3, <2>1 DEF Low, StrandInv
<1>5. CASE ReadBatch
  <2>1. PICK n \in 1 .. ReadCount : /\ pos' = pos + n /\ Len(batch') = n
                                    /\ pel' = pel \cup {pos + i : i \in 1 .. n}
    BY <1>1, <1>5, ReadTypes
  <2>2. Len(batch) = 0 /\ Spent' = Spent
    BY <1>1, <1>5, EmptySeq DEF ReadBatch, BatchIsLast, Outside
  <2>3. \A i \in Low' : i \in Low
    BY <1>1, <2>1, <2>2 DEF Low
  <2> QED
    BY <1>1, <1>3, <2>1, <2>2, <2>3
<1>6. CASE Ack
  <2>1. /\ pel' = pel \ {pos - Len(batch) + 1} /\ Len(batch') = Len(batch) - 1
        /\ pos' = pos /\ Spent' = Spent
    BY <1>1, <1>6, AckTypes DEF Ack, Outside
  <2>2. \A i \in Low' : i \in Low
    BY <1>1, <2>1 DEF Low
  <2> QED
    BY <1>1, <1>3, <2>1, <2>2 DEF StrandInv
<1>7. CASE Crash \/ ConsumerThrows
  <2>1. batch' = <<>> /\ UNCHANGED <<pos, pel>> /\ Spent' = Spent + 1
    BY <1>1, <1>7, RestartTypes
  <2> DEFINE Lost == pos - Len(batch) + 1 .. pos
  <2>2. Len(batch') = 0
    BY <2>1, EmptySeq
  <2>3. IsFiniteSet(Lost) /\ Cardinality(Lost) <= ReadCount /\ Cardinality(Lost) \in Nat
    <3>1. Len(batch) <= ReadCount
      BY DEF StrandInv
    <3> QED
      BY <1>1, <3>1, LastEntries
  <2>4. Low' \subseteq Low \cup Lost
    <3>1. Low' \subseteq pel /\ pel \subseteq 1 .. pos
      BY <1>1, <2>1 DEF Low
    <3>2. \A i \in pel : i \in Low \/ i \in Lost
      BY <1>1 DEF Low
    <3> QED
      BY <3>1, <3>2
  <2> HIDE DEF Lost
  <2>5. /\ IsFiniteSet(Low \cup Lost)
        /\ Cardinality(Low \cup Lost) <= Cardinality(Low) + Cardinality(Lost)
    <3>1. IsFiniteSet(Low \cap Lost)
      BY <1>1, FS_Intersection
    <3>2. Cardinality(Low \cap Lost) \in Nat
      BY <3>1, FS_CardinalityType
    <3>3. /\ IsFiniteSet(Low \cup Lost)
          /\ Cardinality(Low \cup Lost) = Cardinality(Low) + Cardinality(Lost) - Cardinality(Low \cap Lost)
      BY <1>1, <2>3, FS_Union
    <3> QED
      BY <1>1, <2>3, <3>2, <3>3
  <2>6. Cardinality(Low') <= Cardinality(Low \cup Lost) /\ Cardinality(Low \cup Lost) \in Nat
    BY <2>4, <2>5, FS_Subset, FS_CardinalityType
  <2> QED
    BY <1>1, <1>2, <2>1, <2>2, <2>3, <2>5, <2>6, OneMoreRead DEF StrandInv
<1> QED
  BY <1>4, <1>5, <1>6, <1>7 DEF Next, ApiStep, RelayTick, ConsumerStep, EngineStep

(* consumeBookingConfirmed: what is neither acknowledged nor in the         *)
(* consumer's hands is at most one read for each failure and crash.         *)
THEOREM StrandingCostsAFault == Spec => []StrandedOnlyByFaults
<1>1. Init => StrandInv
  <2> SUFFICES ASSUME Init PROVE StrandInv
    OBVIOUS
  <2>1. Low = {} /\ batch = <<>> /\ faults = 0 /\ crashes = 0
    BY DEF Init, Low
  <2> QED
    BY <2>1, EmptySeq, FS_EmptySet, LimitsAssumption DEF StrandInv
<1>2. EngineInv /\ StrandInv => StrandedOnlyByFaults
  BY LowIsStranded DEF EngineInv, StrandInv, StrandedOnlyByFaults
<1> QED
  BY <1>1, <1>2, EngineAlways, StrandStep, PTL DEF Spec

----------------------------------------------------------------------------
(* The relay.  The streams are as long as they are: a copy is counted once. *)
LEMMA TicksAreFinite ==
  ASSUME NEW r \in Rows, TypeOK
  PROVE  /\ IsFiniteSet(Copies(r)) /\ Cardinality(Copies(r)) \in Nat
         /\ IsFiniteSet(MayCopy(r)) /\ Cardinality(MayCopy(r)) \in Nat
         /\ IsFiniteSet(Sent(r)) /\ Cardinality(Sent(r)) \in Nat
         /\ Cardinality(Sent(r)) + Cardinality(MayCopy(r)) <= Cardinality(Ticks)
         /\ Cardinality(Ticks) \in Nat
<1>1. Len(stream[TypeOf[r]]) \in Nat /\ DOMAIN stream[TypeOf[r]] = 1 .. Len(stream[TypeOf[r]])
  <2>1. TypeOf[r] \in EventTypes
    BY DEF EventTypes
  <2>2. stream[TypeOf[r]] \in Seq({x \in Rows : TypeOf[x] = TypeOf[r]})
    BY <2>1 DEF TypeOK
  <2> QED
    BY <2>2, LenProperties
<1>2. IsFiniteSet(1 .. Len(stream[TypeOf[r]]))
  BY <1>1, FS_Interval
<1>3. IsFiniteSet(Copies(r))
  BY <1>1, <1>2, FS_Subset DEF Copies
<1>4. Sent(r) \subseteq Ticks /\ MayCopy(r) \subseteq Ticks /\ Sent(r) \cap MayCopy(r) = {}
  BY DEF Sent, MayCopy
<1>5. IsFiniteSet(Sent(r)) /\ IsFiniteSet(MayCopy(r))
  BY <1>4, FS_Subset, TicksAssumption
<1>6. Cardinality(Sent(r) \cup MayCopy(r)) = Cardinality(Sent(r)) + Cardinality(MayCopy(r)) - 0
  BY <1>4, <1>5, FS_Union, FS_EmptySet
<1>7. Cardinality(Sent(r) \cup MayCopy(r)) <= Cardinality(Ticks)
  BY <1>4, FS_Subset, TicksAssumption
<1>8. /\ Cardinality(Copies(r)) \in Nat /\ Cardinality(Sent(r)) \in Nat
      /\ Cardinality(MayCopy(r)) \in Nat /\ Cardinality(Ticks) \in Nat
  BY <1>3, <1>5, TicksAssumption, FS_CardinalityType
<1> QED
  BY <1>3, <1>5, <1>6, <1>7, <1>8

(* Streaming a row adds a copy of it, and of no other row. *)
LEMMA OneMoreCopy ==
  ASSUME TypeOK, NEW q \in Rows, stream' = [stream EXCEPT ![TypeOf[q]] = Append(@, q)],
         NEW r \in Rows
  PROVE  /\ r # q => Copies(r)' = Copies(r)
         /\ r = q => Copies(r)' = Copies(r) \cup {Len(stream[TypeOf[r]]) + 1}
<1> DEFINE s == stream[TypeOf[r]]
<1>1. /\ s \in Seq({x \in Rows : TypeOf[x] = TypeOf[r]})
      /\ Len(s) \in Nat /\ DOMAIN s = 1 .. Len(s)
  <2>1. TypeOf[r] \in EventTypes
    BY DEF EventTypes
  <2>2. s \in Seq({x \in Rows : TypeOf[x] = TypeOf[r]})
    BY <2>1 DEF TypeOK
  <2> QED
    BY <2>2, LenProperties
<1>2. stream'[TypeOf[r]] = IF TypeOf[r] = TypeOf[q] THEN Append(s, q) ELSE s
  BY DEF TypeOK, EventTypes
<1>3. CASE TypeOf[r] = TypeOf[q]
  <2>1. /\ Len(Append(s, q)) = Len(s) + 1
        /\ \A i \in 1 .. Len(s) : Append(s, q)[i] = s[i]
        /\ Append(s, q)[Len(s) + 1] = q
        /\ DOMAIN Append(s, q) = 1 .. Len(s) + 1
    BY <1>1, <1>3, AppendProperties
  <2>2. 1 .. Len(s) + 1 = (1 .. Len(s)) \cup {Len(s) + 1}
    BY <1>1
  <2> QED
    BY <1>1, <1>2, <1>3, <2>1, <2>2 DEF Copies
<1>4. CASE TypeOf[r] # TypeOf[q]
  BY <1>2, <1>4 DEF Copies
<1> QED
  BY <1>3, <1>4

(* What each row of the relay's account is after a step of the relay. *)
LEMMA AccountAfterPublish ==
  ASSUME TypeOK, NEW t \in Ticks, tick[t].sent = None, NEW q \in tick[t].rows,
         tick' = [tick EXCEPT ![t].sent = q], NEW r \in Rows
  PROVE  /\ r # q => Sent(r)' = Sent(r) /\ MayCopy(r)' = MayCopy(r)
         /\ r = q => /\ Sent(r)' = Sent(r) \cup {t} /\ t \notin Sent(r)
                     /\ MayCopy(r)' = MayCopy(r) \ {t} /\ t \in MayCopy(r)
<1>1. /\ tick'[t].sent = q /\ tick'[t].rows = tick[t].rows
      /\ \A u \in Ticks \ {t} : tick'[u] = tick[u]
      /\ q # None /\ r # None
  BY NoneAssumption DEF TypeOK
<1> QED
  BY <1>1 DEF Sent, MayCopy

LEMMA AccountAfterMark ==
  ASSUME TypeOK, NEW t \in Ticks, RelayMark(t), NEW r \in Rows
  PROVE  /\ MayCopy(r)' = MayCopy(r)
         /\ tick[t].sent # r => Sent(r)' = Sent(r) /\ status'[r] = status[r]
         /\ tick[t].sent = r => status'[r] = "published"
<1>1. /\ tick'[t].sent = None /\ tick'[t].rows = tick[t].rows \ {tick[t].sent}
      /\ \A u \in Ticks \ {t} : tick'[u] = tick[u]
      /\ r # None /\ tick[t].sent \in Rows
  BY NoneAssumption DEF TypeOK, RelayMark
<1>2. status'[r] = IF r = tick[t].sent THEN "published" ELSE status[r]
  BY <1>1 DEF TypeOK, RelayMark
<1> QED
  BY <1>1, <1>2 DEF Sent, MayCopy

LEMMA AccountAfterFailure ==
  ASSUME TypeOK, NEW t \in Ticks, RelayFails(t), NEW r \in Rows
  PROVE  Sent(r)' = Sent(r) \ {t} /\ MayCopy(r)' = MayCopy(r) \ {t}
<1>1. /\ tick'[t].sent = None /\ tick'[t].rows = {}
      /\ \A u \in Ticks \ {t} : tick'[u] = tick[u]
      /\ r # None
  BY NoneAssumption DEF TypeOK, RelayFails, Idle
<1> QED
  BY <1>1 DEF Sent, MayCopy

LEMMA AccountAfterSelect ==
  ASSUME TypeOK, NEW t \in Ticks, RelaySelect(t), NEW r \in Rows
  PROVE  /\ Sent(r)' = Sent(r)
         /\ status[r] = "published" => MayCopy(r)' = MayCopy(r)
<1>1. PICK some \in SUBSET Pending : tick' = [tick EXCEPT ![t].rows = some]
  BY DEF RelaySelect, SelectFrom
<1>2. /\ tick'[t].sent = None /\ tick'[t].rows = some
      /\ tick[t].sent = None /\ tick[t].rows = {}
      /\ \A u \in Ticks \ {t} : tick'[u] = tick[u]
  BY <1>1 DEF TypeOK, RelaySelect, SelectFrom, Idle
<1>3. r # None
  BY NoneAssumption
<1> QED
  BY <1>1, <1>2, <1>3 DEF Sent, MayCopy, Pending

LEMMA OneMore ==
  ASSUME NEW S, IsFiniteSet(S), NEW x
  PROVE  /\ Cardinality(S \cup {x}) \in Nat
         /\ Cardinality(S \cup {x}) <= Cardinality(S) + 1
         /\ x \notin S => Cardinality(S \cup {x}) = Cardinality(S) + 1
<1>1. Cardinality(S) \in Nat
  BY FS_CardinalityType
<1> QED
  BY <1>1, FS_AddElement

LEMMA OneLess ==
  ASSUME NEW S, IsFiniteSet(S), NEW x
  PROVE  /\ Cardinality(S \ {x}) \in Nat
         /\ Cardinality(S \ {x}) >= Cardinality(S) - 1
         /\ Cardinality(S \ {x}) <= Cardinality(S)
         /\ x \in S => Cardinality(S \ {x}) = Cardinality(S) - 1
<1>1. Cardinality(S) \in Nat /\ Cardinality(S \ {x}) \in Nat
  BY FS_RemoveElement, FS_CardinalityType
<1> QED
  BY <1>1, FS_RemoveElement

LEMMA CopiesInvariant == TypeOK /\ CopiesInv /\ [Next]_vars => CopiesInv'
<1> SUFFICES ASSUME TypeOK, CopiesInv, [Next]_vars, NEW r \in Rows
             PROVE  IF status'[r] = "published"
                    THEN Cardinality(Copies(r)') + Cardinality(MayCopy(r)')
                           <= crashes' * Cardinality(Ticks) + Cardinality(Ticks) + faults'
                    ELSE Cardinality(Copies(r)')
                           <= crashes' * Cardinality(Ticks) + Cardinality(Sent(r)') + faults'
  BY DEF CopiesInv
<1> DEFINE T == Cardinality(Ticks)
           n == Cardinality(Copies(r))
           s == Cardinality(Sent(r))
           m == Cardinality(MayCopy(r))
<1>1. n \in Nat /\ s \in Nat /\ m \in Nat /\ T \in Nat /\ s + m <= T
      /\ IsFiniteSet(Copies(r)) /\ IsFiniteSet(Sent(r)) /\ IsFiniteSet(MayCopy(r))
  BY TicksAreFinite
<1>2. faults \in Nat /\ crashes \in Nat /\ crashes * T \in Nat
  BY <1>1 DEF TypeOK
<1>3. IF status[r] = "published" THEN n + m <= crashes * T + T + faults
                                 ELSE n <= crashes * T + s + faults
  BY DEF CopiesInv
<1>4. ASSUME NEW t \in Ticks, RelayPublish(t)
      PROVE  IF status'[r] = "published"
             THEN Cardinality(Copies(r)') + Cardinality(MayCopy(r)') <= crashes' * T + T + faults'
             ELSE Cardinality(Copies(r)') <= crashes' * T + Cardinality(Sent(r)') + faults'
  <2>1. PICK q \in tick[t].rows :
          /\ stream' = [stream EXCEPT ![TypeOf[q]] = Append(@, q)]
          /\ tick' = [tick EXCEPT ![t].sent = q]
    BY <1>4 DEF RelayPublish
  <2>2. q \in Rows /\ tick[t].sent = None /\ UNCHANGED <<status, faults, crashes>>
    BY <1>4, <2>1 DEF RelayPublish, TypeOK
  <2>3. CASE r # q
    <3>1. Copies(r)' = Copies(r)
      BY <2>1, <2>2, <2>3, OneMoreCopy
    <3>2. Sent(r)' = Sent(r) /\ MayCopy(r)' = MayCopy(r)
      BY <2>1, <2>2, <2>3, AccountAfterPublish
    <3> QED
      BY <1>3, <2>2, <3>1, <3>2
  <2>4. CASE r = q
    <3>1. Copies(r)' = Copies(r) \cup {Len(stream[TypeOf[r]]) + 1}
      BY <2>1, <2>2, <2>4, OneMoreCopy
    <3>2. /\ Sent(r)' = Sent(r) \cup {t} /\ t \notin Sent(r)
          /\ MayCopy(r)' = MayCopy(r) \ {t} /\ t \in MayCopy(r)
      BY <2>1, <2>2, <2>4, AccountAfterPublish
    <3>3. Cardinality(Copies(r)') \in Nat /\ Cardinality(Copies(r)') <= n + 1
      BY <1>1, <3>1, OneMore
    <3>4. Cardinality(Sent(r)') = s + 1
      BY <1>1, <3>2, OneMore
    <3>5. Cardinality(MayCopy(r)') = m - 1
      BY <1>1, <3>2, OneLess
    <3> QED
      BY <1>1, <1>2, <1>3, <2>2, <3>3, <3>4, <3>5
  <2> QED
    BY <2>3, <2>4
<1>5. ASSUME NEW t \in Ticks, RelayMark(t)
      PROVE  IF status'[r] = "published"
             THEN Cardinality(Copies(r)') + Cardinality(MayCopy(r)') <= crashes' * T + T + faults'
             ELSE Cardinality(Copies(r)') <= crashes' * T + Cardinality(Sent(r)') + faults'
  <2>1. Copies(r)' = Copies(r) /\ UNCHANGED <<faults, crashes>>
    BY <1>5 DEF RelayMark, Copies
  <2>2. /\ MayCopy(r)' = MayCopy(r)
        /\ tick[t].sent # r => Sent(r)' = Sent(r) /\ status'[r] = status[r]
        /\ tick[t].sent = r => status'[r] = "published"
    BY <1>5, AccountAfterMark
  <2> QED
    BY <1>1, <1>2, <1>3, <2>1, <2>2
<1>6. ASSUME NEW t \in Ticks, RelayFails(t)
      PROVE  IF status'[r] = "published"
             THEN Cardinality(Copies(r)') + Cardinality(MayCopy(r)') <= crashes' * T + T + faults'
             ELSE Cardinality(Copies(r)') <= crashes' * T + Cardinality(Sent(r)') + faults'
  <2>1. /\ Copies(r)' = Copies(r) /\ crashes' = crashes /\ status' = status
        /\ faults' = faults + 1
    BY <1>6 DEF RelayFails, Copies
  <2>2. Sent(r)' = Sent(r) \ {t} /\ MayCopy(r)' = MayCopy(r) \ {t}
    BY <1>6, AccountAfterFailure
  <2>3. Cardinality(Sent(r)') \in Nat /\ Cardinality(Sent(r)') >= s - 1
    BY <1>1, <2>2, OneLess
  <2>4. Cardinality(MayCopy(r)') \in Nat /\ Cardinality(MayCopy(r)') <= m
    BY <1>1, <2>2, OneLess
  <2> QED
    BY <1>1, <1>2, <1>3, <2>1, <2>3, <2>4
<1>7. ASSUME NEW t \in Ticks, RelaySelect(t)
      PROVE  IF status'[r] = "published"
             THEN Cardinality(Copies(r)') + Cardinality(MayCopy(r)') <= crashes' * T + T + faults'
             ELSE Cardinality(Copies(r)') <= crashes' * T + Cardinality(Sent(r)') + faults'
  <2>1. Copies(r)' = Copies(r) /\ UNCHANGED <<status, faults, crashes>>
    BY <1>7 DEF RelaySelect, SelectFrom, Copies
  <2>2. Sent(r)' = Sent(r) /\ (status[r] = "published" => MayCopy(r)' = MayCopy(r))
    BY <1>7, AccountAfterSelect
  <2> QED
    BY <1>3, <2>1, <2>2
<1>8. CASE Crash
  <2>1. /\ Copies(r)' = Copies(r) /\ crashes' = crashes + 1
        /\ UNCHANGED <<status, faults>> /\ tick' = [t \in Ticks |-> Idle]
    BY <1>8 DEF Crash, Copies
  <2>2. Sent(r)' = {} /\ MayCopy(r)' = {}
    BY <2>1, NoneAssumption DEF Sent, MayCopy, Idle
  <2>3. Cardinality(Sent(r)') = 0 /\ Cardinality(MayCopy(r)') = 0
    BY <2>2, FS_EmptySet
  <2>4. crashes' * T = crashes * T + T /\ crashes * T \in Nat
    BY <1>1, <1>2, <2>1
  <2> QED
    BY <1>1, <1>2, <1>3, <2>1, <2>3, <2>4
<1>9. ASSUME UNCHANGED <<tick, stream, crashes>>, faults' \in Nat, faults' >= faults,
             status'[r] = "published" <=> status[r] = "published"
      PROVE  IF status'[r] = "published"
             THEN Cardinality(Copies(r)') + Cardinality(MayCopy(r)') <= crashes' * T + T + faults'
             ELSE Cardinality(Copies(r)') <= crashes' * T + Cardinality(Sent(r)') + faults'
  <2>1. Copies(r)' = Copies(r) /\ Sent(r)' = Sent(r) /\ MayCopy(r)' = MayCopy(r)
    BY <1>9 DEF Copies, Sent, MayCopy
  <2> QED
    BY <1>1, <1>2, <1>3, <1>9, <2>1
<1>10. CASE ApiStep
  <2>1. UNCHANGED <<tick, stream, faults, crashes>>
    BY <1>10 DEF ApiStep, CommitRow, CreateWorkflow, SetEnabled, relay
  <2>2. status'[r] = "published" <=> status[r] = "published"
    BY <1>10 DEF ApiStep, CommitRow, CreateWorkflow, SetEnabled, relay, TypeOK
  <2> QED
    BY <1>2, <1>9, <2>1, <2>2
<1>11. CASE ConsumerStep \/ StepError \/ ConsumerThrows \/ UNCHANGED vars
  <2>1. UNCHANGED <<status, tick, stream, crashes>> /\ faults' \in {faults, faults + 1}
    BY <1>11 DEF ConsumerStep, ReadBatch, SelectWorkflows, StartRun, Act, RecordStep, Finish,
                 Fail, EndRun, Ack, StepError, ConsumerThrows, Outside, relay, vars
  <2> QED
    BY <1>2, <1>9, <2>1
<1> QED
  BY <1>4, <1>5, <1>6, <1>7, <1>8, <1>10, <1>11 DEF Next, RelayStep, ApiStep

(* relayOnce: however its ticks overlap, fail and are cut off, the number of *)
(* copies of a row is bounded by the ticks, the failures and the crashes.    *)
THEOREM CopiesAreBounded == Spec => []CopiesBounded
<1>1. Init => CopiesInv
  <2> SUFFICES ASSUME Init, NEW r \in Rows
               PROVE  /\ status[r] # "published"
                      /\ Cardinality(Copies(r))
                           <= crashes * Cardinality(Ticks) + Cardinality(Sent(r)) + faults
    BY DEF CopiesInv
  <2>1. Copies(r) = {} /\ status[r] # "published" /\ faults = 0 /\ crashes = 0
    BY DEF Init, Copies, EventTypes
  <2>2. TypeOK
    BY EngineInit DEF EngineInv
  <2>3. Cardinality(Sent(r)) \in Nat /\ Cardinality(Ticks) \in Nat
    BY <2>2, TicksAreFinite
  <2>4. Cardinality(Copies(r)) = 0
    BY <2>1, FS_EmptySet
  <2> QED
    BY <2>1, <2>3, <2>4
<1>2. TypeOK /\ CopiesInv => CopiesBounded
  <2> SUFFICES ASSUME TypeOK, CopiesInv, NEW r \in Rows
               PROVE  Cardinality(Copies(r)) <= (crashes + 1) * Cardinality(Ticks) + faults
    BY DEF CopiesBounded
  <2>1. /\ Cardinality(Copies(r)) \in Nat /\ Cardinality(MayCopy(r)) \in Nat
        /\ Cardinality(Sent(r)) \in Nat /\ Cardinality(Ticks) \in Nat
        /\ Cardinality(Sent(r)) + Cardinality(MayCopy(r)) <= Cardinality(Ticks)
    BY TicksAreFinite
  <2>2. /\ faults \in Nat /\ crashes \in Nat
        /\ (crashes + 1) * Cardinality(Ticks) = crashes * Cardinality(Ticks) + Cardinality(Ticks)
        /\ crashes * Cardinality(Ticks) \in Nat
    BY <2>1 DEF TypeOK
  <2> QED
    BY <2>1, <2>2 DEF CopiesInv
<1>3. EngineInv => TypeOK
  BY DEF EngineInv
<1> QED
  BY <1>1, <1>2, <1>3, CopiesInvariant, EngineAlways, PTL DEF Spec

----------------------------------------------------------------------------
(* An acknowledgement comes last.  A run has ended when its row says so.    *)
Ended(i, w) == <<i, w>> \in DOMAIN run /\ run[<<i, w>>] # "running"

(* The consumer of booking.confirmed acknowledges an entry once the engine  *)
(* has looked for its workflows and has ended a run of each, whatever       *)
(* failed on the way.                                                       *)
RunsBeforeAck ==
  \A i \in (1 .. pos) \ pel : i \in DOMAIN taken /\ \A w \in taken[i] : Ended(i, w)

(* The entries in hand are not acknowledged, and of the current one every   *)
(* workflow that is not to be run any more has been run.                    *)
BatchIsPending == \A j \in DOMAIN batch : batch[j] \in pel

EntryInHand ==
  /\ cpc \in {"start", "ack"} \cup Working =>
       Entry \in DOMAIN taken /\ \A w \in taken[Entry] \ todo : Ended(Entry, w)
  /\ cpc = "ack" => todo = {}

AckInv == BatchIsPending /\ EntryInHand /\ RunsBeforeAck

(* A run that has ended stays as it is.                                     *)
LEMMA EndedStays ==
  ASSUME EngineInv, NEW i, NEW w, Ended(i, w), EngineStep
  PROVE  Ended(i, w)'
<1>1. <<i, w>> \in Touched
  BY DEF Ended, Touched
<1>2. ~ Untouched(i, w)
  BY <1>1 DEF EngineInv, RowsAreOfRuns
<1>3. ASSUME NEW v \in Workflows, StartRun(v) PROVE Ended(i, w)'
  <2>1. <<i, w>> # <<Entry, v>>
    BY <1>2, <1>3 DEF Untouched, StartRun
  <2> QED
    BY <1>3, <2>1 DEF StartRun, Ended
<1>4. CASE Finish \/ Fail
  BY <1>4 DEF Finish, Fail, EndRun, Ended
<1>5. CASE SelectWorkflows \/ Act \/ RecordStep \/ StepError
  BY <1>5 DEF SelectWorkflows, Act, RecordStep, StepError, engine, Ended
<1> QED
  BY <1>3, <1>4, <1>5 DEF EngineStep

LEMMA AckStart == Init => AckInv
BY EmptySeq DEF Init, AckInv, BatchIsPending, EntryInHand, RunsBeforeAck, Working

LEMMA AckEngine ==
  ASSUME EngineInv, AckInv, EngineStep
  PROVE  AckInv'
<1>1. /\ TypeOK' /\ UNCHANGED <<pos, pel, batch>> /\ Entry' = Entry
      /\ cpc # "read" /\ cpc' # "read"
  <2>1. TypeOK' /\ UNCHANGED <<pos, pel, batch>>
    BY EngineTypes DEF EngineInv
  <2>2. cpc # "read" /\ cpc' # "read"
    BY DEF EngineStep, SelectWorkflows, StartRun, Act, RecordStep, Finish, Fail, StepError, EndRun, NextRun
  <2> QED
    BY <2>1, <2>2 DEF Entry
<1>2. Entry \in Nat /\ Entry \in pel /\ 1 \in DOMAIN batch
  <2>1. Entry \in 1 .. pos /\ Len(batch) \in Nat \ {0} /\ DOMAIN batch = 1 .. Len(batch)
    BY <1>1, EntryIsGiven DEF EngineInv
  <2> QED
    BY <2>1 DEF AckInv, BatchIsPending, Entry, EngineInv, TypeOK
<1>3. BatchIsPending'
  BY <1>1 DEF AckInv, BatchIsPending
<1>4. ASSUME NEW i, NEW w, Ended(i, w) PROVE Ended(i, w)'
  BY <1>4, EndedStays
<1>5. CASE SelectWorkflows
  <2>1. /\ Entry \in DOMAIN taken' /\ taken'[Entry] = todo'
        /\ \A i \in DOMAIN taken \ {Entry} : i \in DOMAIN taken' /\ taken'[i] = taken[i]
        /\ cpc' \in {"start", "ack"} /\ (cpc' = "ack" => todo' = {})
    BY <1>5 DEF SelectWorkflows
  <2>2. EntryInHand'
    BY <1>1, <2>1 DEF EntryInHand, Working
  <2>3. RunsBeforeAck'
    BY <1>1, <1>2, <1>4, <2>1 DEF AckInv, RunsBeforeAck
  <2> QED
    BY <1>3, <2>2, <2>3 DEF AckInv
<1>6. ASSUME UNCHANGED taken PROVE RunsBeforeAck'
  BY <1>1, <1>4, <1>6 DEF AckInv, RunsBeforeAck
<1>7. ASSUME UNCHANGED <<taken, todo>>, cpc \in {"start"} \cup Working, cpc' \in Working
      PROVE  AckInv'
  <2>1. EntryInHand'
    BY <1>1, <1>4, <1>7 DEF AckInv, EntryInHand, Working
  <2> QED
    BY <1>3, <1>6, <1>7, <2>1 DEF AckInv
<1>8. ASSUME NEW w \in Workflows, StartRun(w) PROVE AckInv'
  <2>1. UNCHANGED <<taken, todo>> /\ cpc = "start" /\ cpc' = "act"
    BY <1>8 DEF StartRun
  <2> QED
    BY <1>7, <2>1 DEF Working
<1>9. CASE Act \/ RecordStep \/ StepError
  <2>1. UNCHANGED <<taken, todo>> /\ cpc \in Working /\ cpc' \in Working
    BY <1>9 DEF Act, RecordStep, StepError, Working, engine
  <2> QED
    BY <1>7, <2>1
<1>10. CASE Finish \/ Fail
  <2>1. /\ cpc \in Working /\ cpc' \in {"start", "ack"} /\ UNCHANGED taken
        /\ todo' = todo \ {wf} /\ (cpc' = "ack" => todo' = {})
        /\ run' \in {[run EXCEPT ![Key] = "completed"], [run EXCEPT ![Key] = "failed"]}
    BY <1>10 DEF Finish, Fail, EndRun, NextRun, Working
  <2>2. Key \in DOMAIN run
    BY <2>1 DEF EngineInv, CurrentRun
  <2>3. <<Entry, wf>> \in DOMAIN run' /\ run'[<<Entry, wf>>] # "running"
    BY <2>1, <2>2 DEF Key
  <2>5. PICK e : e = Entry
    OBVIOUS
  <2>6. e \in DOMAIN taken' /\ \A w \in taken'[e] \ todo' : Ended(e, w)'
    <3>1. e \in DOMAIN taken /\ \A w \in taken[e] \ todo : Ended(e, w)
      BY <2>1, <2>5 DEF AckInv, EntryInHand
    <3> SUFFICES ASSUME NEW w \in taken[e], w \notin todo' PROVE Ended(e, w)'
      BY <2>1, <3>1
    <3>3. CASE w = wf
      BY <2>3, <2>5, <3>3 DEF Ended
    <3>4. CASE w # wf
      BY <1>4, <2>1, <3>1, <3>4
    <3> QED
      BY <3>3, <3>4
  <2>7. EntryInHand'
    BY <1>1, <2>1, <2>5, <2>6 DEF EntryInHand, Working
  <2> QED
    BY <1>3, <1>6, <2>1, <2>7 DEF AckInv
<1> QED
  BY <1>5, <1>8, <1>9, <1>10 DEF EngineStep

LEMMA AckInvariant == EngineInv /\ AckInv /\ [Next]_vars => AckInv'
<1> SUFFICES ASSUME EngineInv, AckInv, [Next]_vars PROVE AckInv'
  OBVIOUS
<1>1. ASSUME UNCHANGED consumer PROVE AckInv'
  BY <1>1 DEF consumer, engine, AckInv, BatchIsPending, EntryInHand, RunsBeforeAck, Entry, Ended
<1>2. CASE ReadBatch
  <2>1. PICK n \in Nat : /\ n > 0 /\ pos' = pos + n /\ batch' = [i \in 1 .. n |-> pos + i]
                         /\ pel' = pel \cup {pos + i : i \in 1 .. n}
    <3>1. Consumed \in EventTypes /\ pos \in Nat /\ Len(stream[Consumed]) \in Nat
      BY LenProperties DEF EngineInv, TypeOK, EventTypes
    <3>2. PICK n : n = Smaller(ReadCount, Len(stream[Consumed]) - pos)
      OBVIOUS
    <3>3. n \in Int
      BY <3>1, <3>2, LimitsAssumption DEF Smaller
    <3>4. /\ n > 0 /\ batch' = [i \in 1 .. n |-> pos + i] /\ pos' = pos + n
          /\ pel' = pel \cup {pos + i : i \in 1 .. n}
      BY <1>2, <3>2 DEF ReadBatch
    <3> QED
      BY <3>3, <3>4
  <2>2. pos \in Nat /\ cpc' = "select" /\ UNCHANGED <<run, taken>>
    BY <1>2 DEF ReadBatch, engine, EngineInv, TypeOK
  <2>3. BatchIsPending' /\ EntryInHand'
    BY <2>1, <2>2 DEF BatchIsPending, EntryInHand, Working
  <2>4. \A i \in 1 .. pos' : i \in 1 .. pos \/ i - pos \in 1 .. n
    BY <2>1, <2>2
  <2>5. \A i \in (1 .. pos') \ pel' : i \in (1 .. pos) \ pel
    <3> TAKE i \in (1 .. pos') \ pel'
    <3>1. i - pos \in 1 .. n => pos + (i - pos) \in pel'
      BY <2>1
    <3>2. pos + (i - pos) = i
      BY <2>1, <2>2
    <3> QED
      BY <2>1, <2>4, <3>1, <3>2
  <2>6. RunsBeforeAck'
    BY <2>2, <2>5 DEF AckInv, RunsBeforeAck, Ended
  <2> QED
    BY <2>3, <2>6 DEF AckInv
<1>3. CASE Ack
  <2>1. /\ Len(batch) \in Nat \ {0} /\ DOMAIN batch = 1 .. Len(batch)
        /\ batch \in Seq(1 .. pos) /\ pos \in Nat /\ Entry \in 1 .. pos
        /\ \A j \in 1 .. Len(batch) : batch[j] = pos - Len(batch) + j
    BY <1>3, EntryIsGiven DEF EngineInv, BatchIsLast, Ack, TypeOK
  <2>2. /\ DOMAIN batch' = 1 .. Len(batch) - 1
        /\ \A j \in 1 .. Len(batch) - 1 : batch'[j] = batch[j + 1]
    <3>1. batch # <<>> /\ batch' = Tail(batch)
      BY <1>3, <2>1, EmptySeq DEF Ack
    <3> QED
      BY <2>1, <3>1, HeadTailProperties, LenProperties
  <2>3. /\ pel' = pel \ {Entry} /\ UNCHANGED <<pos, run, taken>> /\ cpc' \in {"read", "select"}
        /\ todo = {} /\ Entry \in DOMAIN taken /\ \A w \in taken[Entry] : Ended(Entry, w)
    BY <1>3 DEF Ack, engine, AckInv, EntryInHand
  <2>4. BatchIsPending'
    <3> SUFFICES ASSUME NEW j \in 1 .. Len(batch) - 1 PROVE batch[j + 1] \in pel \ {Entry}
      BY <2>2, <2>3 DEF BatchIsPending
    <3>1. j + 1 \in 1 .. Len(batch) /\ j + 1 # 1 /\ 1 \in 1 .. Len(batch)
      BY <2>1
    <3>2. batch[j + 1] # batch[1]
      BY <2>1, <3>1
    <3> QED
      BY <2>1, <3>1, <3>2 DEF AckInv, BatchIsPending, Entry
  <2>5. EntryInHand'
    BY <2>3 DEF EntryInHand, Working
  <2>6. RunsBeforeAck'
    BY <2>3 DEF AckInv, RunsBeforeAck, Ended
  <2> QED
    BY <2>4, <2>5, <2>6 DEF AckInv
<1>4. CASE Crash \/ ConsumerThrows
  <2>1. batch' = <<>> /\ cpc' = "read" /\ UNCHANGED <<pos, pel, run, taken>>
    BY <1>4 DEF Crash, ConsumerThrows, Restart
  <2> QED
    BY <2>1 DEF AckInv, BatchIsPending, EntryInHand, RunsBeforeAck, Ended, Working
<1>5. CASE ApiStep \/ (\E t \in Ticks : RelayTick(t)) \/ UNCHANGED vars
  BY <1>1, <1>5 DEF ApiStep, CommitRow, CreateWorkflow, SetEnabled, RelayTick, RelayStep,
     RelaySelect, SelectFrom, RelayPublish, RelayMark, RelayFails, vars
<1> QED
  BY <1>2, <1>3, <1>4, <1>5, AckEngine DEF Next, ApiStep, RelayTick, ConsumerStep, EngineStep

(* The safety half of EntriesAcknowledged, faults and crashes included: no  *)
(* entry is acknowledged before each workflow that was enabled when the     *)
(* engine looked has had a run that ended.                                  *)
THEOREM RunsComeBeforeAcks == Spec => []RunsBeforeAck
<1>1. AckInv => RunsBeforeAck
  BY DEF AckInv
<1> QED
  BY <1>1, EngineAlways, AckStart, AckInvariant, PTL DEF Spec

----------------------------------------------------------------------------
(* The relay publishes before it marks: what counts as published is in its  *)
(* stream.                                                                  *)
PublishedWasStreamed == \A r \in Rows : status[r] = "published" => Copies(r) # {}

MarkedAfterStreaming ==
  /\ PublishedWasStreamed
  /\ \A t \in Ticks : tick[t].sent # None => Copies(tick[t].sent) # {}

LEMMA StreamedInvariant == TypeOK /\ MarkedAfterStreaming /\ [Next]_vars => MarkedAfterStreaming'
<1> SUFFICES ASSUME TypeOK, MarkedAfterStreaming, [Next]_vars PROVE MarkedAfterStreaming'
  OBVIOUS
<1>1. ASSUME UNCHANGED stream, NEW r PROVE Copies(r)' = Copies(r)
  BY <1>1 DEF Copies
<1>2. ASSUME NEW t \in Ticks, RelayPublish(t) PROVE MarkedAfterStreaming'
  <2>1. PICK q \in tick[t].rows : /\ stream' = [stream EXCEPT ![TypeOf[q]] = Append(@, q)]
                                  /\ tick' = [tick EXCEPT ![t].sent = q]
    BY <1>2 DEF RelayPublish
  <2>2. q \in Rows /\ UNCHANGED status
    BY <1>2, <2>1 DEF RelayPublish, TypeOK
  <2>3. ASSUME NEW r \in Rows
        PROVE  (Copies(r) # {} => Copies(r)' # {}) /\ (r = q => Copies(r)' # {})
    BY <2>1, <2>2, <2>3, OneMoreCopy
  <2>4. ASSUME NEW u \in Ticks PROVE tick'[u].sent = (IF u = t THEN q ELSE tick[u].sent)
    BY <2>1 DEF TypeOK
  <2>5. \A u \in Ticks : tick[u].sent \in Rows \cup {None}
    BY DEF TypeOK
  <2> QED
    BY <2>2, <2>3, <2>4, <2>5 DEF MarkedAfterStreaming, PublishedWasStreamed
<1>3. ASSUME NEW t \in Ticks, RelayMark(t) PROVE MarkedAfterStreaming'
  <2>1. /\ UNCHANGED stream
        /\ \A u \in Ticks : tick'[u].sent \in {None, tick[u].sent}
        /\ \A r \in Rows : status'[r] = "published" => status[r] = "published" \/ r = tick[t].sent
    BY <1>3 DEF RelayMark, TypeOK
  <2> QED
    BY <1>1, <1>3, <2>1 DEF MarkedAfterStreaming, PublishedWasStreamed, RelayMark
<1>4. ASSUME UNCHANGED stream, \A u \in Ticks : tick'[u].sent \in {None, tick[u].sent},
             \A r \in Rows : status'[r] = "published" => status[r] = "published"
      PROVE  MarkedAfterStreaming'
  BY <1>1, <1>4 DEF MarkedAfterStreaming, PublishedWasStreamed
<1>5. ASSUME NEW t \in Ticks, RelaySelect(t) \/ RelayFails(t) PROVE MarkedAfterStreaming'
  <2>1. UNCHANGED <<status, stream>> /\ tick'[t].sent = None
    BY <1>5 DEF RelaySelect, SelectFrom, RelayFails, Idle, TypeOK
  <2>2. \A u \in Ticks \ {t} : tick'[u] = tick[u]
    BY <1>5 DEF RelaySelect, SelectFrom, RelayFails, TypeOK
  <2> QED
    BY <1>4, <2>1, <2>2
<1>6. CASE ApiStep
  BY <1>4, <1>6 DEF ApiStep, CommitRow, CreateWorkflow, SetEnabled, relay, TypeOK
<1>7. CASE ConsumerStep \/ StepError \/ ConsumerThrows \/ UNCHANGED vars
  BY <1>4, <1>7 DEF ConsumerStep, ReadBatch, SelectWorkflows, StartRun, Act, RecordStep, Finish,
     Fail, EndRun, Ack, StepError, ConsumerThrows, Outside, relay, vars
<1>8. CASE Crash
  BY <1>4, <1>8 DEF Crash, Idle
<1> QED
  BY <1>2, <1>3, <1>5, <1>6, <1>7, <1>8 DEF Next, ApiStep, RelayStep

(* relayOnce: the safety half of PendingIsPublished.  A row that is marked  *)
(* is in its stream, however ticks overlap, fail and are cut off.           *)
THEOREM MarkedIsStreamed == Spec => []PublishedWasStreamed
<1>1. Init => MarkedAfterStreaming
  BY DEF Init, Idle, MarkedAfterStreaming, PublishedWasStreamed
<1>2. MarkedAfterStreaming => PublishedWasStreamed
  BY DEF MarkedAfterStreaming
<1> QED
  BY <1>1, <1>2, SpineTypes, StreamedInvariant, PTL DEF Spec
=============================================================================
