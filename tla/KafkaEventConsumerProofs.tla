---------------------- MODULE KafkaEventConsumerProofs ----------------------
(***************************************************************************)
(* The consumer loses no record and moves no committed position back, for  *)
(* every number of partitions, records and threads, and any number of      *)
(* rebalances, lost sessions, faults, crashes and stops.                   *)
(***************************************************************************)
EXTENDS KafkaEventConsumer, OffsetTrackerLemmas

-----------------------------------------------------------------------------
(* How the position a tracker offers moves under its operations.           *)

(* It is one past a registered record, and past what was confirmed.        *)
LEMMA CandidateFacts ==
    ASSUME NEW t, NEW registered, NEW completed,
           TrackerInv(t, registered, completed), NEW w \in CommitCandidate(t)
    PROVE  /\ w \in Nat
           /\ \E o \in registered : w = o + 1
           /\ \A c \in t.committed : c < w
           /\ CommitCandidate(t) = {w}
<1>0. WellTyped(t, registered, completed) /\ Consistent(t, registered, completed)
  BY DEF TrackerInv
<1>1. t \in Tracker /\ registered \subseteq Nat
  BY <1>0 DEF WellTyped
<1>2. PICK k : k = t.prefixDone
  OBVIOUS
<1>3. k # 0 /\ w = t.entries[k].offset + 1 /\ CommitCandidate(t) = {w}
  BY <1>2 DEF CommitCandidate
<1>4. k \in 1..Len(t.entries)
  BY <1>0, <1>1, <1>2, <1>3, TrackerTypes DEF Consistent, PrefixMaximal
<1>5. PICK o : o = t.entries[k].offset
  OBVIOUS
<1>6. o \in registered /\ o \in Nat /\ ~Covered(t, o)
  BY <1>0, <1>1, <1>4, <1>5 DEF Consistent, EntriesMatch
<1>7. \A c \in t.committed : c \in Nat /\ ~(o < c)
  BY <1>1, <1>6, TrackerTypes DEF Covered
<1> QED
  BY <1>3, <1>5, <1>6, <1>7

(* registerRecord leaves it alone.                                         *)
LEMMA RegisterCandidate ==
    ASSUME NEW t, NEW registered, NEW completed,
           TrackerInv(t, registered, completed), NEW o \in Nat
    PROVE  /\ CommitCandidate(Register(t, o)) = CommitCandidate(t)
           /\ Register(t, o).committed = t.committed
           /\ Register(t, o).lastRegistered = {o}
<1>1. t \in Tracker /\ t.prefixDone <= Len(t.entries)
  BY DEF TrackerInv, WellTyped, Consistent, PrefixMaximal
<1>2. PICK u : u = Register(t, o)
  OBVIOUS
<1>3. PICK e : e = [offset |-> o, done |-> FALSE]
  OBVIOUS
<1>4. /\ u.entries = Append(t.entries, e) /\ u.prefixDone = t.prefixDone
      /\ u.committed = t.committed /\ u.lastRegistered = {o}
  BY <1>1, <1>2, <1>3 DEF Register, Tracker
<1>5. t.prefixDone # 0 => u.entries[t.prefixDone] = t.entries[t.prefixDone]
  <2>1. t.prefixDone \in Nat /\ t.entries \in Seq(Entry) /\ e \in Entry
    BY <1>1, <1>3, TrackerTypes DEF Entry, Offset
  <2> QED
    BY <1>1, <1>4, <2>1, AppendProperties, TrackerTypes
<1> QED
  BY <1>2, <1>4, <1>5 DEF CommitCandidate

(* complete only moves it forward.                                         *)
LEMMA CompleteCandidate ==
    ASSUME NEW t, NEW registered, NEW completed,
           TrackerInv(t, registered, completed), NEW o
    PROVE  /\ \A w \in CommitCandidate(t) : \E v \in CommitCandidate(Complete(t, o)) : w <= v
           /\ Complete(t, o).committed = t.committed
           /\ Complete(t, o).lastRegistered = t.lastRegistered
<1>0. Consistent(t, registered, completed) /\ t \in Tracker
  BY DEF TrackerInv, WellTyped
<1>1. CASE Complete(t, o) = t
  <2>1. \A w \in CommitCandidate(t) : w \in Nat
    BY CandidateFacts
  <2> QED
    BY <1>1, <2>1
<1>2. CASE Complete(t, o) # t
  <2>1. PICK k : k = CHOOSE i \in 1..Len(t.entries) : t.entries[i].offset = o
    OBVIOUS
  <2>2. Complete(t, o) = MarkDone(t, k) /\ k \in 1..Len(t.entries)
    BY <1>2, <2>1 DEF Complete
  <2>3. PICK entries : entries = [t.entries EXCEPT ![k].done = TRUE]
    OBVIOUS
  <2>4. PICK n : n = AdvancePrefix(entries, t.prefixDone)
    OBVIOUS
  <2>5. PICK u : u = MarkDone(t, k)
    OBVIOUS
  <2>6. /\ u.entries = entries /\ u.prefixDone = n
        /\ u.committed = t.committed /\ u.lastRegistered = t.lastRegistered
    BY <1>0, <2>3, <2>4, <2>5 DEF MarkDone, Tracker
  <2>7. /\ entries \in Seq(Entry) /\ Len(entries) = Len(t.entries)
        /\ \A i \in 1..Len(t.entries) : entries[i].offset = t.entries[i].offset
    <3>1. t.entries[k] \in Entry /\ t.entries \in Seq(Entry)
      BY <1>0, <2>2, TrackerTypes
    <3>2. [t.entries[k] EXCEPT !.done = TRUE] \in Entry
      BY <3>1 DEF Entry
    <3>3. entries \in Seq(Entry) /\ Len(entries) = Len(t.entries)
      BY <2>2, <2>3, <3>1, <3>2
    <3>4. \A i \in 1..Len(t.entries) : i # k => entries[i] = t.entries[i]
      BY <2>2, <2>3, <3>1
    <3>5. entries[k].offset = t.entries[k].offset
      BY <2>2, <2>3, <3>1 DEF Entry
    <3> QED
      BY <3>3, <3>4, <3>5
  <2>8. t.prefixDone \in Nat /\ t.prefixDone <= Len(t.entries)
    BY <1>0, TrackerTypes DEF Consistent, PrefixMaximal
  <2>9. n \in t.prefixDone..Len(t.entries)
    BY <2>4, <2>7, <2>8, AdvancePrefixExit
  <2>10. ASSUME NEW w \in CommitCandidate(t) PROVE \E v \in CommitCandidate(u) : w <= v
    <3>1. PICK m : m = t.prefixDone
      OBVIOUS
    <3>2. m # 0 /\ w = t.entries[m].offset + 1
      BY <3>1 DEF CommitCandidate
    <3>3. m \in 1..Len(t.entries) /\ n \in 1..Len(t.entries) /\ (m = n \/ m < n) /\ n # 0
      BY <2>8, <2>9, <3>1, <3>2, TrackerTypes
    <3>4. m < n => t.entries[m].offset < t.entries[n].offset
      BY <1>0, <3>3 DEF Consistent, Sorted
    <3>5. t.entries[m].offset \in Nat /\ t.entries[n].offset \in Nat
      BY <1>0, <3>3, TrackerTypes
    <3>6. t.entries[n].offset + 1 \in CommitCandidate(u)
      BY <2>6, <2>7, <3>3 DEF CommitCandidate
    <3> QED
      BY <3>2, <3>3, <3>4, <3>5, <3>6
  <2> QED
    BY <2>2, <2>5, <2>6, <2>10
<1> QED
  BY <1>1, <1>2

(* confirmCommit takes over the position, or had a later one.              *)
LEMMA ConfirmCandidate ==
    ASSUME NEW t, t \in Tracker, NEW position
    PROVE  /\ \/ ConfirmCommit(t, position) = t
              \/ ConfirmCommit(t, position).committed = {position}
           /\ ConfirmCommit(t, position).lastRegistered = t.lastRegistered
BY DEF ConfirmCommit, DropCovered, Tracker

-----------------------------------------------------------------------------
(* The inductive invariant.  What the threads hold: tickets, and a thread  *)
(* that is about to complete one has handled or dead-lettered its record.  *)
Places == {"idle", "attempt", "invoke", "register", "pause", "sinkCheck", "send", "sinkPause",
           "finish"}

WorkersInv ==
    /\ queue \in Seq(RecordTicket) /\ backlog \in Seq(RecordTicket)
    /\ task \in [Worker -> RecordTicket \cup {NoTask}]
    /\ step \in [Worker -> Places]
    /\ \A w \in Worker : step[w] # Idle => task[w] \in RecordTicket
    /\ \A w \in Worker : step[w] = "finish" => Record(task[w]) \in handled \cup deadLettered

(* What the reader and the broker hold.                                    *)
ReaderTypes ==
    /\ DOMAIN partitions \subseteq PartitionKey
    /\ partitions \in [DOMAIN partitions -> PartitionState]
    /\ lastGeneration \in Nat
    /\ batch \in Seq(PartitionKey \X Nat)
    /\ committedAt \in [PartitionKey -> Nat]
    /\ readFrom \in [PartitionKey -> Nat]
    /\ positions \subseteq CommitPosition
    /\ owned \subseteq Assigned

ReaderPlace ==
    /\ ctl # "ingest" => batch = <<>>
    /\ ctl \notin {"sync", "confirm"} => positions = {}
    /\ \A i, j \in DOMAIN batch :
          i < j /\ batch[i][1] = batch[j][1] => batch[i][2] < batch[j][2]

(* One ownership of p, by which records s..n-1 were registered and those   *)
(* in done completed: they began where everything before was settled, the  *)
(* batch goes on where they end, and the position the broker has is behind *)
(* the one the tracker offers next.                                        *)
Reached(p, o) ==
    \E w \in CommitCandidate(partitions[p].tracker) \cup partitions[p].tracker.committed : o <= w

Ownership(p, s, n, done) ==
    /\ s <= n /\ n <= readFrom[p]
    /\ TrackerInv(partitions[p].tracker, s..(n - 1), done)
    /\ \A last \in partitions[p].tracker.lastRegistered : last = n - 1
    /\ \A o \in 0..(s - 1) : <<p, o>> \in Settled
    /\ \A o \in done : <<p, o>> \in Settled
    /\ \A o \in Nat : <<p, o>> \in Range(batch) <=> o \in n..(readFrom[p] - 1)
    /\ p \in owned => committedAt[p] <= s \/ Reached(p, committedAt[p])

Ownerships == \A p \in Assigned : \E s, n \in Nat : \E done \in SUBSET Nat : Ownership(p, s, n, done)

(* Positions that may be committed, in the broker's eyes and ours.         *)
SafePositions(cs) ==
    /\ \A c, d \in cs : c.partition = d.partition => c = d
    /\ \A c \in cs :
          /\ \A o \in 0..(c.offset - 1) : <<c.partition, o>> \in Settled
          /\ c.partition \in owned => committedAt[c.partition] <= c.offset
          /\ c.partition \in Assigned => Reached(c.partition, c.offset)

ReaderInv ==
    /\ ReaderTypes
    /\ ReaderPlace
    /\ Ownerships
    /\ SafePositions(positions)
    /\ NoRecordLost

ConsumerInv == WorkersInv /\ ReaderInv

-----------------------------------------------------------------------------
(* The threads *)

LEMMA GoToKeeps ==
    ASSUME WorkersInv, NEW w \in Worker, NEW place \in Places, GoTo(w, place),
           step[w] # Idle, UNCHANGED backlog,
           handled \subseteq handled', deadLettered \subseteq deadLettered',
           place = "finish" => Record(task[w]) \in handled' \cup deadLettered'
    PROVE  WorkersInv'
<1>1. /\ UNCHANGED <<queue, task, backlog>>
      /\ step' = [step EXCEPT ![w] = place]
  BY DEF GoTo, poolVars
<1>2. /\ step' \in [Worker -> Places]
      /\ \A v \in Worker : step'[v] = (IF v = w THEN place ELSE step[v])
  BY <1>1 DEF WorkersInv
<1>3. \A v \in Worker : Record(task[v])' = Record(task[v])
  BY <1>1 DEF Record
<1> QED
  BY <1>1, <1>2, <1>3 DEF WorkersInv

LEMMA ReturnKeeps ==
    ASSUME WorkersInv, NEW w \in Worker, Return(w), UNCHANGED backlog
    PROVE  WorkersInv'
<1>1. /\ UNCHANGED <<queue, backlog, handled, deadLettered>>
      /\ step' = [step EXCEPT ![w] = Idle]
      /\ task' = [task EXCEPT ![w] = NoTask]
  BY DEF Return, TaskReturns
<1>2. /\ step' \in [Worker -> Places]
      /\ task' \in [Worker -> RecordTicket \cup {NoTask}]
      /\ \A v \in Worker : step'[v] = (IF v = w THEN Idle ELSE step[v])
      /\ \A v \in Worker : v # w => task'[v] = task[v]
  BY <1>1 DEF WorkersInv, Idle, Places
<1>3. \A v \in Worker : v # w => Record(task[v])' = Record(task[v])
  BY <1>2 DEF Record
<1> QED
  BY <1>1, <1>2, <1>3 DEF WorkersInv, Idle

LEMMA ExecutorKeeps ==
    ASSUME WorkersInv, NEW w \in Worker, ExecutorStep(w), UNCHANGED backlog
    PROVE  WorkersInv' /\ handled \subseteq handled' /\ deadLettered \subseteq deadLettered'
<1>1. CASE BeginExecute(w)
  <2>1. PICK x : x = Head(queue)
    OBVIOUS
  <2>2. /\ queue # <<>> /\ queue' = Tail(queue)
        /\ task' = [task EXCEPT ![w] = x]
        /\ step' = [step EXCEPT ![w] = "attempt"]
        /\ UNCHANGED <<handled, deadLettered>>
    BY <1>1, <2>1 DEF BeginExecute, TakeTask
  <2>3. x \in RecordTicket /\ queue' \in Seq(RecordTicket)
    BY <2>1, <2>2 DEF WorkersInv
  <2>4. /\ step' \in [Worker -> Places]
        /\ task' \in [Worker -> RecordTicket \cup {NoTask}]
        /\ \A v \in Worker : step'[v] = (IF v = w THEN "attempt" ELSE step[v])
        /\ \A v \in Worker : task'[v] = (IF v = w THEN x ELSE task[v])
    BY <2>2, <2>3 DEF WorkersInv, Places
  <2>5. \A v \in Worker : v # w => Record(task[v])' = Record(task[v])
    BY <2>4 DEF Record
  <2> QED
    BY <2>2, <2>3, <2>4, <2>5 DEF WorkersInv
<1>2. CASE CheckAttempt(w)
  BY <1>2, ReturnKeeps, GoToKeeps DEF CheckAttempt, Abandon, Return, Idle, Places
<1>3. ASSUME NEW result \in BOOLEAN, Invoke(w, result)
      PROVE  WorkersInv' /\ handled \subseteq handled' /\ deadLettered \subseteq deadLettered'
  <2>1. PICK place : place = IF result THEN "finish" ELSE IF logger THEN AfterFailure(w) ELSE "register"
    OBVIOUS
  <2>2. place \in Places /\ (place = "finish" => result)
    BY <2>1 DEF AfterFailure, Places
  <2>3. /\ step[w] # Idle /\ GoTo(w, place) /\ UNCHANGED deadLettered
        /\ handled' = IF result THEN handled \cup {Record(task[w])} ELSE handled
    BY <1>3, <2>1 DEF Invoke, Idle
  <2> QED
    BY <2>2, <2>3, GoToKeeps
<1>4. CASE RegisterLogger(w)
  <2>1. CASE Return(w)
    BY <2>1, ReturnKeeps DEF Return
  <2>2. CASE GoTo(w, AfterFailure(w)) /\ UNCHANGED <<handled, deadLettered>>
    <3>1. AfterFailure(w) \in Places /\ AfterFailure(w) # "finish" /\ step[w] # Idle
      BY <1>4 DEF AfterFailure, RegisterLogger, Idle, Places
    <3>2. PICK place : place = AfterFailure(w)
      OBVIOUS
    <3> QED
      BY <2>2, <3>1, <3>2, GoToKeeps
  <2> QED
    BY <1>4, <2>1, <2>2 DEF RegisterLogger
<1>5. CASE Pause(w)
  BY <1>5, ReturnKeeps, GoToKeeps DEF Pause, Abandon, Return, Idle, Places
<1>6. CASE SinkCheck(w)
  BY <1>6, ReturnKeeps, GoToKeeps DEF SinkCheck, Abandon, Return, Idle, Places
<1>7. ASSUME NEW outcome \in SendOutcomes, Send(w, outcome[1], outcome[2])
      PROVE  WorkersInv' /\ handled \subseteq handled' /\ deadLettered \subseteq deadLettered'
  <2>0. outcome = <<TRUE, TRUE>> \/ outcome = <<FALSE, TRUE>> \/ outcome = <<FALSE, FALSE>>
    BY DEF SendOutcomes
  <2>1. PICK result, delivered \in BOOLEAN :
           result = outcome[1] /\ delivered = outcome[2] /\ (result => delivered)
    <3>1. CASE outcome = <<TRUE, TRUE>>
      <4>1. outcome[1] = TRUE /\ outcome[2] = TRUE
        BY <3>1
      <4> QED
        BY <4>1
    <3>2. CASE outcome = <<FALSE, TRUE>>
      <4>1. outcome[1] = FALSE /\ outcome[2] = TRUE
        BY <3>2
      <4> QED
        BY <4>1
    <3>3. CASE outcome = <<FALSE, FALSE>>
      <4>1. outcome[1] = FALSE /\ outcome[2] = FALSE
        BY <3>3
      <4> QED
        BY <4>1
    <3> QED
      BY <2>0, <3>1, <3>2, <3>3
  <2>2. PICK place : place = IF result THEN "finish" ELSE "sinkPause"
    OBVIOUS
  <2>3. /\ step[w] # Idle /\ GoTo(w, place) /\ UNCHANGED handled
        /\ deadLettered' = IF delivered THEN deadLettered \cup {Record(task[w])} ELSE deadLettered
    BY <1>7, <2>1, <2>2 DEF Send, Idle
  <2>4. place \in Places /\ (place = "finish" => delivered)
    BY <2>1, <2>2 DEF Places
  <2> QED
    BY <2>3, <2>4, GoToKeeps
<1>8. CASE SinkPause(w)
  BY <1>8, ReturnKeeps, GoToKeeps DEF SinkPause, Abandon, Return, Idle, Places
<1>9. CASE Finish(w)
  BY <1>9, ReturnKeeps DEF Finish, Return
<1>10. CASE (FallAsleep(w) \/ LeaveLoop(w)) /\ UNCHANGED <<registryVars, executorVars>>
  <2>1. UNCHANGED <<queue, task, backlog, step, handled, deadLettered>>
    BY <1>10 DEF FallAsleep, LeaveLoop, executorVars
  <2> QED
    BY <2>1 DEF WorkersInv, Record
<1> QED
  BY <1>1, <1>2, <1>3, <1>4, <1>5, <1>6, <1>7, <1>8, <1>9, <1>10 DEF ExecutorStep

-----------------------------------------------------------------------------
(* The reader.  A step that leaves registry and broker alone.              *)
LEMMA SettledGrows ==
    ASSUME handled \subseteq handled', deadLettered \subseteq deadLettered'
    PROVE  Settled \subseteq Settled'
BY DEF Settled

LEMMA BatchServed ==
    ASSUME ReaderInv, handled \subseteq handled', deadLettered \subseteq deadLettered',
           UNCHANGED <<partitions, lastGeneration, readFrom, committedAt, owned, positions>>,
           ReaderPlace', batch' \in Seq(PartitionKey \X Nat),
           \A p \in Assigned : \A o \in Nat :
              <<p, o>> \in Range(batch') <=> <<p, o>> \in Range(batch)
    PROVE  ReaderInv'
<1> USE DEF ReaderInv
<1>1. Settled \subseteq Settled'
  BY SettledGrows
<1>2. ReaderTypes'
  BY DEF ReaderTypes, Assigned
<1>4. \A p, o : Reached(p, o)' <=> Reached(p, o)
  BY DEF Reached
<1>5. Ownerships'
  <2> SUFFICES ASSUME NEW p \in Assigned'
               PROVE  \E s, n \in Nat : \E done \in SUBSET Nat : Ownership(p, s, n, done)'
    BY DEF Ownerships
  <2>0. p \in Assigned
    BY DEF Assigned
  <2>1. PICK s, n \in Nat : \E done \in SUBSET Nat : Ownership(p, s, n, done)
    BY <2>0 DEF Ownerships
  <2>2. PICK done \in SUBSET Nat : Ownership(p, s, n, done)
    BY <2>1
  <2>3. Ownership(p, s, n, done)'
    BY <1>1, <1>4, <2>0, <2>2 DEF Ownership
  <2> QED
    BY <2>3
<1>6. SafePositions(positions)'
  BY <1>1, <1>4 DEF SafePositions, Assigned
<1>7. NoRecordLost'
  BY <1>1 DEF NoRecordLost
<1> QED
  BY <1>2, <1>5, <1>6, <1>7

LEMMA ReaderKept ==
    ASSUME ReaderInv, handled \subseteq handled', deadLettered \subseteq deadLettered',
           UNCHANGED <<partitions, lastGeneration, batch, readFrom, committedAt, owned, positions>>,
           ctl' # "ingest" => batch = <<>>,
           ctl' \notin {"sync", "confirm"} => positions = {}
    PROVE  ReaderInv'
<1>1. ReaderPlace' /\ batch' \in Seq(PartitionKey \X Nat)
  BY DEF ReaderInv, ReaderPlace, ReaderTypes
<1> QED
  BY <1>1, BatchServed

(* What u offers or has committed is no less than what t has.              *)
NotBehind(u, t) ==
    \A x \in CommitCandidate(t) \cup t.committed :
       \E v \in CommitCandidate(u) \cup u.committed : x <= v

(* A step that operates the tracker of p and may take p's records from the *)
(* batch.                                                                  *)
LEMMA TrackerMoves ==
    ASSUME ReaderInv, NEW p \in Assigned, NEW u,
           partitions' = [partitions EXCEPT ![p].tracker = u],
           handled \subseteq handled', deadLettered \subseteq deadLettered',
           UNCHANGED <<lastGeneration, readFrom, committedAt, owned, positions>>,
           ReaderPlace', batch' \in Seq(PartitionKey \X Nat),
           \A q \in PartitionKey \ {p} : \A o \in Nat :
              <<q, o>> \in Range(batch') <=> <<q, o>> \in Range(batch),
           NEW s \in Nat, NEW n \in Nat, NEW done \in SUBSET Nat,
           s <= n, n <= readFrom[p],
           TrackerInv(u, s..(n - 1), done),
           \A last \in u.lastRegistered : last = n - 1,
           \A o \in 0..(s - 1) : <<p, o>> \in Settled,
           \A o \in done : <<p, o>> \in Settled',
           \A o \in Nat : <<p, o>> \in Range(batch') <=> o \in n..(readFrom[p] - 1),
           p \in owned => committedAt[p] <= s \/ Reached(p, committedAt[p]),
           NotBehind(u, partitions[p].tracker)
    PROVE  ReaderInv'
<1> USE DEF ReaderInv
<1>1. Settled \subseteq Settled'
  BY SettledGrows
<1>2. /\ p \in PartitionKey
      /\ partitions \in [Assigned -> PartitionState]
      /\ u \in Tracker
  BY DEF ReaderTypes, Assigned, TrackerInv, WellTyped
<1>3. /\ Assigned' = Assigned
      /\ partitions' \in [Assigned -> PartitionState]
      /\ partitions'[p].tracker = u
      /\ \A q \in Assigned \ {p} : partitions'[q] = partitions[q]
  BY <1>2 DEF Assigned, PartitionState
<1>4. ReaderTypes'
  BY <1>3 DEF ReaderTypes, Assigned
<1>5. PICK t : t = partitions[p].tracker
  OBVIOUS
<1>6. \A x \in CommitCandidate(t) \cup t.committed : x \in Nat
  <2>1. PICK r, done0 : TrackerInv(t, r, done0)
    BY <1>5 DEF Ownerships, Ownership
  <2> QED
    BY <2>1, CandidateSafe
<1>7. \A v \in CommitCandidate(u) \cup u.committed : v \in Nat
  BY CandidateSafe
<1>8. \A q \in Assigned, o \in Nat : Reached(q, o) => Reached(q, o)'
  <2> SUFFICES ASSUME NEW q \in Assigned, NEW o \in Nat, Reached(q, o) PROVE Reached(q, o)'
    OBVIOUS
  <2>1. CASE q = p
    <3>1. PICK x \in CommitCandidate(t) \cup t.committed : o <= x
      BY <1>5, <2>1 DEF Reached
    <3>2. PICK v \in CommitCandidate(u) \cup u.committed : x <= v
      BY <1>5, <3>1 DEF NotBehind
    <3>3. o <= v
      BY <1>6, <1>7, <3>1, <3>2
    <3> QED
      BY <1>3, <2>1, <3>3 DEF Reached
  <2>2. CASE q # p
    BY <1>3, <2>2 DEF Reached
  <2> QED
    BY <2>1, <2>2
<1>9. committedAt \in [PartitionKey -> Nat] /\ \A c \in positions : c.offset \in Nat
  BY DEF ReaderTypes, CommitPosition, Offset
<1>10. Ownerships'
  <2> SUFFICES ASSUME NEW q \in Assigned
               PROVE  \E a, b \in Nat : \E d \in SUBSET Nat : Ownership(q, a, b, d)'
    BY <1>3 DEF Ownerships
  <2>0. q \in PartitionKey
    BY DEF ReaderTypes, Assigned
  <2>1. CASE q = p
    <3>1. Ownership(p, s, n, done)'
      BY <1>1, <1>2, <1>3, <1>8, <1>9 DEF Ownership
    <3> QED
      BY <2>1, <3>1
  <2>2. CASE q # p
    <3>1. PICK a, b \in Nat : \E d \in SUBSET Nat : Ownership(q, a, b, d)
      BY DEF Ownerships
    <3>2. PICK d \in SUBSET Nat : Ownership(q, a, b, d)
      BY <3>1
    <3>3. partitions'[q] = partitions[q]
      BY <1>3, <2>2
    <3>4. Ownership(q, a, b, d)'
      BY <1>1, <1>8, <1>9, <2>0, <2>2, <3>2, <3>3 DEF Ownership
    <3> QED
      BY <3>4
  <2> QED
    BY <2>1, <2>2
<1>11. SafePositions(positions)'
  BY <1>1, <1>3, <1>8, <1>9 DEF SafePositions
<1>12. NoRecordLost'
  BY <1>1 DEF NoRecordLost
<1> QED
  BY <1>4, <1>10, <1>11, <1>12

-----------------------------------------------------------------------------
(* In the beginning nothing is assigned and nothing committed.             *)
LEMMA InitConsumer ==
    ASSUME Init
    PROVE  ConsumerInv
<1>1. /\ DOMAIN partitions = {} /\ partitions \in [DOMAIN partitions -> PartitionState]
      /\ lastGeneration = 0
  BY DEF Init, PipelineInit, RegistryInit
<1>2. /\ queue = <<>> /\ backlog = <<>> /\ batch = <<>>
      /\ task = [w \in Worker |-> NoTask] /\ step = [w \in Worker |-> Idle]
  BY DEF Init, PipelineInit, PoolInit, ExecutorInit, VolatileInit
<1>3. /\ committedAt = [p \in PartitionKey |-> 0] /\ readFrom = [p \in PartitionKey |-> 0]
      /\ positions = {} /\ owned = {} /\ ctl = "start"
  BY DEF Init, VolatileInit
<1>4. <<>> \in Seq(RecordTicket) /\ <<>> \in Seq(PartitionKey \X Nat) /\ DOMAIN <<>> = {}
  OBVIOUS
<1>5. WorkersInv
  BY <1>2, <1>4 DEF WorkersInv, Idle, Places
<1>6. ReaderTypes /\ Assigned = {}
  BY <1>1, <1>2, <1>3, <1>4 DEF ReaderTypes, Assigned
<1>7. ReaderPlace
  BY <1>2, <1>3, <1>4 DEF ReaderPlace
<1>8. Ownerships /\ SafePositions(positions) /\ NoRecordLost
  BY <1>3, <1>6 DEF Ownerships, SafePositions, NoRecordLost
<1> QED
  BY <1>5, <1>6, <1>7, <1>8 DEF ConsumerInv, ReaderInv

(* Only the end of execute() touches the registry.                         *)
LEMMA ExecutorRegistry ==
    ASSUME NEW w \in Worker, ExecutorStep(w)
    PROVE  Finish(w) \/ UNCHANGED registryVars
BY DEF ExecutorStep, BeginExecute, CheckAttempt, Invoke, RegisterLogger, Pause, SinkCheck,
       Send, SinkPause, Abandon, GoTo

LEMMA WorkerKeeps ==
    ASSUME ConsumerInv, NEW w \in Worker, WorkerStep(w)
    PROVE  ConsumerInv'
<1>1. /\ WorkersInv /\ ReaderInv /\ ExecutorStep(w)
      /\ UNCHANGED <<backlog, ctl, batch, positions, committedAt, owned, readFrom>>
  BY DEF ConsumerInv, WorkerStep, consumerVars, brokerVars
<1>2. WorkersInv' /\ handled \subseteq handled' /\ deadLettered \subseteq deadLettered'
  BY <1>1, ExecutorKeeps
<1>3. ReaderPlace /\ ReaderPlace'
  BY <1>1 DEF ReaderInv, ReaderPlace
<1>4. CASE UNCHANGED registryVars
  BY <1>1, <1>2, <1>3, <1>4, ReaderKept DEF ConsumerInv, registryVars, ReaderPlace
<1>5. CASE Finish(w)
  <2>1. PICK ticket : ticket = task[w]
    OBVIOUS
  <2>2. step[w] = "finish" /\ CompleteTicket(ticket) /\ UNCHANGED <<handled, deadLettered>>
    BY <1>5, <2>1 DEF Finish, Return
  <2>3. ticket \in RecordTicket /\ Record(ticket) \in handled \cup deadLettered
    BY <1>1, <2>1, <2>2 DEF WorkersInv, Idle
  <2>4. CASE ~IsCurrent(ticket)
    BY <1>1, <1>2, <1>3, <2>2, <2>4, ReaderKept DEF ConsumerInv, CompleteTicket, ReaderPlace
  <2>5. CASE IsCurrent(ticket)
    <3>1. PICK p : p = ticket.partition
      OBVIOUS
    <3>2. PICK o : o = ticket.offset
      OBVIOUS
    <3>3. p \in Assigned /\ p \in PartitionKey /\ o \in Nat /\ <<p, o>> \in Settled
      BY <2>3, <2>5, <3>1, <3>2 DEF IsCurrent, Assigned, RecordTicket, Offset, Record, Settled
    <3>4. PICK t : t = partitions[p].tracker
      OBVIOUS
    <3>5. PICK u : u = Complete(t, o)
      OBVIOUS
    <3>6. partitions' = [partitions EXCEPT ![p].tracker = u] /\ UNCHANGED lastGeneration
      BY <2>2, <2>5, <3>1, <3>2, <3>4, <3>5 DEF CompleteTicket
    <3>7. PICK s, n \in Nat : \E done \in SUBSET Nat : Ownership(p, s, n, done)
      BY <1>1, <3>3 DEF ReaderInv, Ownerships
    <3>8. PICK done \in SUBSET Nat : Ownership(p, s, n, done)
      BY <3>7
    <3>9. TrackerInv(t, s..(n - 1), done)
      BY <3>4, <3>8 DEF Ownership
    <3>10. PICK more : more = done \cup ((s..(n - 1)) \cap {o})
      OBVIOUS
    <3>11. TrackerInv(u, s..(n - 1), more) /\ more \in SUBSET Nat
      BY <3>3, <3>5, <3>9, <3>10, CompleteInv
    <3>12. /\ \A x \in CommitCandidate(t) : \E v \in CommitCandidate(u) : x <= v
           /\ u.committed = t.committed /\ u.lastRegistered = t.lastRegistered
      BY <3>5, <3>9, CompleteCandidate
    <3>13. \A x \in CommitCandidate(t) \cup t.committed : x \in Nat
      BY <3>9, CandidateSafe
    <3>14. NotBehind(u, t)
      BY <3>12, <3>13 DEF NotBehind
    <3>15. Settled \subseteq Settled'
      BY <1>2, SettledGrows
    <3>16. \A x \in more : <<p, x>> \in Settled'
      BY <3>3, <3>8, <3>10, <3>15 DEF Ownership
    <3>17. batch' = batch /\ batch' \in Seq(PartitionKey \X Nat)
      BY <1>1 DEF ReaderInv, ReaderTypes
    <3>18. /\ s <= n /\ n <= readFrom[p]
           /\ \A last \in u.lastRegistered : last = n - 1
           /\ \A x \in 0..(s - 1) : <<p, x>> \in Settled
           /\ \A x \in Nat : <<p, x>> \in Range(batch') <=> x \in n..(readFrom[p] - 1)
           /\ p \in owned => committedAt[p] <= s \/ Reached(p, committedAt[p])
      BY <3>4, <3>8, <3>12, <3>17 DEF Ownership
    <3>19. ReaderInv'
      BY <1>1, <1>2, <1>3, <3>3, <3>4, <3>6, <3>11, <3>14, <3>16, <3>17, <3>18, TrackerMoves
    <3> QED
      BY <1>2, <3>19 DEF ConsumerInv
  <2> QED
    BY <2>4, <2>5
<1> QED
  BY <1>1, <1>4, <1>5, ExecutorRegistry

-----------------------------------------------------------------------------
(* What commitCandidate answers for any partitions may be committed.       *)
LEMMA CandidatesSafe ==
    ASSUME ReaderInv, NEW S
    PROVE  Candidates(S) \subseteq CommitPosition /\ SafePositions(Candidates(S))
<1>1. ASSUME NEW c \in Candidates(S)
      PROVE  /\ c \in CommitPosition /\ c.partition \in Assigned
             /\ c.generation = partitions[c.partition].generation
             /\ CommitCandidate(partitions[c.partition].tracker) = {c.offset}
             /\ \A o \in 0..(c.offset - 1) : <<c.partition, o>> \in Settled
             /\ c.partition \in owned => committedAt[c.partition] <= c.offset
             /\ Reached(c.partition, c.offset)
  <2>1. PICK p \in S \cap Assigned :
           c \in {PositionOf(p, o) : o \in CommitCandidate(partitions[p].tracker)}
    BY DEF Candidates, Assigned
  <2>2. PICK t : t = partitions[p].tracker
    OBVIOUS
  <2>3. PICK w \in CommitCandidate(t) : c = PositionOf(p, w)
    BY <2>1, <2>2
  <2>4. PICK s, n \in Nat : \E done \in SUBSET Nat : Ownership(p, s, n, done)
    BY DEF ReaderInv, Ownerships
  <2>5. PICK done \in SUBSET Nat : Ownership(p, s, n, done)
    BY <2>4
  <2>6. TrackerInv(t, s..(n - 1), done)
    BY <2>2, <2>5 DEF Ownership
  <2>7. /\ w \in Nat /\ \E o \in s..(n - 1) : w = o + 1
        /\ \A x \in t.committed : x < w
        /\ CommitCandidate(t) = {w}
    BY <2>3, <2>6, CandidateFacts
  <2>8. \A o \in s..(n - 1) : o < w => o \in done
    BY <2>3, <2>6, CandidateSafe DEF CoversOnlyCompleted
  <2>9. p \in PartitionKey /\ partitions[p] \in PartitionState /\ committedAt[p] \in Nat
    BY DEF ReaderInv, ReaderTypes, Assigned
  <2>10. /\ c.partition = p /\ c.offset = w /\ c.generation = partitions[p].generation
         /\ c \in CommitPosition
    BY <2>3, <2>7, <2>9 DEF PositionOf, CommitPosition, PartitionState, Offset
  <2>11. ASSUME NEW o \in 0..(w - 1) PROVE <<p, o>> \in Settled
    <3>1. o \in 0..(s - 1) \/ o \in s..(n - 1)
      BY <2>7
    <3>2. o \in s..(n - 1) => o \in done
      BY <2>7, <2>8
    <3> QED
      BY <2>5, <3>1, <3>2 DEF Ownership
  <2>12. s < w
    BY <2>7
  <2>13. ASSUME p \in owned PROVE committedAt[p] <= w
    <3>1. CASE committedAt[p] <= s
      BY <2>7, <2>9, <2>12, <3>1
    <3>2. CASE Reached(p, committedAt[p])
      <4>1. PICK v \in CommitCandidate(t) \cup t.committed : committedAt[p] <= v
        BY <2>2, <3>2 DEF Reached
      <4>2. v \in Nat /\ (v = w \/ v < w)
        BY <2>6, <2>7, CandidateSafe
      <4> QED
        BY <2>7, <2>9, <4>1, <4>2
    <3> QED
      BY <2>5, <2>13, <3>1, <3>2 DEF Ownership
  <2>14. Reached(p, w)
    BY <2>2, <2>3, <2>7 DEF Reached
  <2> QED
    BY <2>1, <2>2, <2>7, <2>10, <2>11, <2>13, <2>14
<1>2. ASSUME NEW c \in Candidates(S), NEW d \in Candidates(S), c.partition = d.partition
      PROVE  c = d
  <2>1. c.generation = d.generation /\ {c.offset} = {d.offset}
    BY <1>1, <1>2
  <2> QED
    BY <1>1, <1>2, <2>1 DEF CommitPosition
<1> QED
  BY <1>1, <1>2 DEF SafePositions

(* A commit of such positions, accepted or not, moves none back and passes *)
(* no record that is not settled.                                          *)
LEMMA CommitIsSafe ==
    ASSUME committedAt \in [PartitionKey -> Nat], NoRecordLost,
           NEW cs, cs \subseteq CommitPosition, SafePositions(cs),
           NEW ok \in BOOLEAN, CommitSync(cs, ok)
    PROVE  /\ committedAt' \in [PartitionKey -> Nat]
           /\ \A p \in PartitionKey :
                 /\ \/ committedAt'[p] = committedAt[p]
                    \/ \E c \in cs : /\ p \in owned /\ c.partition = p
                                     /\ committedAt'[p] = c.offset
                 /\ committedAt[p] <= committedAt'[p]
                 /\ \A o \in 0..(committedAt'[p] - 1) : <<p, o>> \in Settled
<1>1. CASE UNCHANGED committedAt
  BY <1>1 DEF NoRecordLost
<1>2. CASE Accept(cs)
  <2>1. ASSUME NEW p \in PartitionKey
        PROVE  /\ committedAt'[p] \in Nat
               /\ \/ committedAt'[p] = committedAt[p]
                  \/ \E c \in cs : /\ p \in owned /\ c.partition = p
                                   /\ committedAt'[p] = c.offset
               /\ committedAt[p] <= committedAt'[p]
               /\ \A o \in 0..(committedAt'[p] - 1) : <<p, o>> \in Settled
    <3>1. CASE p \in owned /\ \E c \in cs : c.partition = p
      <4>1. PICK c : c = CHOOSE d \in cs : d.partition = p
        OBVIOUS
      <4>2. c \in cs /\ c.partition = p
        BY <3>1, <4>1
      <4>3. committedAt'[p] = c.offset
        BY <1>2, <3>1, <4>1 DEF Accept
      <4>4. c.offset \in Nat
        BY <4>2 DEF CommitPosition, Offset
      <4> QED
        BY <3>1, <4>2, <4>3, <4>4 DEF SafePositions
    <3>2. CASE ~(p \in owned /\ \E c \in cs : c.partition = p)
      <4>1. committedAt'[p] = committedAt[p]
        BY <1>2, <3>2 DEF Accept
      <4> QED
        BY <4>1 DEF NoRecordLost
    <3> QED
      BY <3>1, <3>2
  <2>2. committedAt' = [p \in PartitionKey |-> committedAt'[p]]
    BY <1>2 DEF Accept
  <2> QED
    BY <2>1, <2>2
<1> QED
  BY <1>1, <1>2 DEF CommitSync

-----------------------------------------------------------------------------
(* Ingesting the first record of the batch.                                *)

(* The batch is the record o of p and then b.                              *)
BatchSplit(p, o, b) ==
    /\ Head(batch) = <<p, o>> /\ Tail(batch) = b
    /\ \A q \in PartitionKey, x \in Nat :
          <<q, x>> \in Range(batch) <=> (q = p /\ x = o) \/ <<q, x>> \in Range(b)
    /\ \A x \in Nat : <<p, x>> \in Range(b) => o < x
    /\ \A i, j \in DOMAIN b : i < j /\ b[i][1] = b[j][1] => b[i][2] < b[j][2]

LEMMA BatchHead ==
    ASSUME ReaderTypes, ReaderPlace, batch # <<>>
    PROVE  \E p \in PartitionKey, o \in Nat, b \in Seq(PartitionKey \X Nat) : BatchSplit(p, o, b)
<1>9. PICK p : p = Head(batch)[1]
  OBVIOUS
<1>10. PICK o : o = Head(batch)[2]
  OBVIOUS
<1>11. PICK b : b = Tail(batch)
  OBVIOUS
<1>1. batch \in Seq(PartitionKey \X Nat) /\ Len(batch) \in Nat /\ DOMAIN batch = 1..Len(batch)
  BY DEF ReaderTypes
<1>2. /\ b \in Seq(PartitionKey \X Nat) /\ Len(b) = Len(batch) - 1 /\ DOMAIN b = 1..Len(b)
      /\ \A i \in 1..Len(b) : b[i] = batch[i + 1]
      /\ Head(batch) = batch[1] /\ 1 \in 1..Len(batch)
  BY <1>1, <1>11
<1>3. p = batch[1][1] /\ o = batch[1][2] /\ batch[1] = <<p, o>> /\ p \in PartitionKey /\ o \in Nat
  <2>1. batch[1] \in PartitionKey \X Nat
    BY <1>1, <1>2
  <2> QED
    BY <1>2, <1>9, <1>10, <2>1
<1>4. \A i \in 1..Len(b) : i + 1 \in 1..Len(batch)
  BY <1>1, <1>2
<1>5. ASSUME NEW i \in 1..Len(batch), i # 1 PROVE i - 1 \in 1..Len(b) /\ b[i - 1] = batch[i]
  BY <1>1, <1>2, <1>5
<1>6. ASSUME NEW q \in PartitionKey, NEW x \in Nat
      PROVE  <<q, x>> \in Range(batch) <=> (q = p /\ x = o) \/ <<q, x>> \in Range(b)
  <2>1. ASSUME <<q, x>> \in Range(batch) PROVE (q = p /\ x = o) \/ <<q, x>> \in Range(b)
    <3>1. PICK i \in 1..Len(batch) : batch[i] = <<q, x>>
      BY <1>1, <2>1 DEF Range
    <3>2. CASE i = 1
      BY <1>3, <3>1, <3>2
    <3>3. CASE i # 1
      <4>1. i - 1 \in 1..Len(b) /\ b[i - 1] = <<q, x>>
        BY <1>5, <3>1, <3>3
      <4>2. i - 1 \in DOMAIN b
        BY <1>2, <4>1
      <4> QED
        BY <4>1, <4>2 DEF Range
    <3> QED
      BY <3>2, <3>3
  <2>2. ASSUME q = p, x = o PROVE <<q, x>> \in Range(batch)
    BY <1>1, <1>2, <1>3, <2>2 DEF Range
  <2>3. ASSUME <<q, x>> \in Range(b) PROVE <<q, x>> \in Range(batch)
    <3>1. PICK i \in 1..Len(b) : b[i] = <<q, x>>
      BY <1>2, <2>3 DEF Range
    <3> QED
      BY <1>1, <1>2, <1>4, <3>1 DEF Range
  <2> QED
    BY <2>1, <2>2, <2>3
<1>7. ASSUME NEW x \in Nat, <<p, x>> \in Range(b) PROVE o < x
  <2>1. PICK i \in 1..Len(b) : b[i] = <<p, x>>
    BY <1>2, <1>7 DEF Range
  <2>2. i + 1 \in DOMAIN batch /\ batch[i + 1] = <<p, x>> /\ 1 < i + 1 /\ 1 \in DOMAIN batch
    <3>1. i + 1 \in DOMAIN batch /\ 1 \in DOMAIN batch
      BY <1>1, <1>2, <1>4
    <3>2. batch[i + 1] = <<p, x>>
      BY <1>2, <2>1
    <3>3. 1 < i + 1
      OBVIOUS
    <3> QED
      BY <3>1, <3>2, <3>3
  <2>3. batch[i + 1][1] = p /\ batch[i + 1][2] = x
    BY <2>2
  <2> QED
    BY <1>3, <2>2, <2>3 DEF ReaderPlace
<1>8. ASSUME NEW i \in DOMAIN b, NEW j \in DOMAIN b, i < j, b[i][1] = b[j][1] PROVE b[i][2] < b[j][2]
  <2>1. i + 1 \in DOMAIN batch /\ j + 1 \in DOMAIN batch /\ i + 1 < j + 1
    BY <1>1, <1>2, <1>4, <1>8
  <2>2. b[i] = batch[i + 1] /\ b[j] = batch[j + 1]
    BY <1>2, <1>8
  <2> QED
    BY <1>8, <2>1, <2>2 DEF ReaderPlace
<1>12. BatchSplit(p, o, b)
  BY <1>2, <1>3, <1>6, <1>7, <1>8, <1>11 DEF BatchSplit
<1> QED
  BY <1>2, <1>3, <1>12

(* The tracker takes the record that follows those it has seen.            *)
LEMMA IngestedFacts ==
    ASSUME NEW p \in Assigned, NEW s \in Nat, NEW n \in Nat, NEW done \in SUBSET Nat,
           Ownership(p, s, n, done)
    PROVE  /\ RegisterInResult(p, n) = Ok
           /\ \E more \in SUBSET Nat :
                 /\ TrackerInv(IngestedTracker(p, n), s..n, more)
                 /\ \A x \in more : x \in done \/ <<p, x>> \in InvalidEventId
           /\ IngestedTracker(p, n).lastRegistered = {n}
           /\ NotBehind(IngestedTracker(p, n), partitions[p].tracker)
<1>1. PICK t : t = partitions[p].tracker
  OBVIOUS
<1>2. /\ s <= n /\ TrackerInv(t, s..(n - 1), done)
      /\ \A last \in t.lastRegistered : last = n - 1
  BY <1>1 DEF Ownership
<1>3. RegisterResult(t, n) = Ok
  <2>1. \A last \in t.lastRegistered : ~(n <= last)
    BY <1>2
  <2> QED
    BY <2>1 DEF RegisterResult
<1>4. RegisterInResult(p, n) = Ok
  BY <1>1, <1>3 DEF RegisterInResult, Assigned
<1>5. PICK r : r = Register(t, n)
  OBVIOUS
<1>6. RegisterRecord(partitions[p].tracker, n) = r
  BY <1>1, <1>3, <1>5 DEF RegisterRecord
<1>7. TrackerInv(r, s..n, done)
  <2>1. (s..(n - 1)) \cup {n} = s..n
    BY <1>2
  <2>2. TrackerInv(Register(t, n), (s..(n - 1)) \cup {n}, done)
    BY <1>2, <1>3, RegisterInv
  <2> QED
    BY <1>5, <2>1, <2>2
<1>8. /\ CommitCandidate(r) = CommitCandidate(t) /\ r.committed = t.committed
      /\ r.lastRegistered = {n}
  BY <1>2, <1>5, RegisterCandidate
<1>9. \A x \in CommitCandidate(t) \cup t.committed : x \in Nat
  BY <1>2, CandidateSafe
<1>10. CASE <<p, n>> \notin InvalidEventId
  <2>1. IngestedTracker(p, n) = r
    BY <1>6, <1>10 DEF IngestedTracker
  <2>2. NotBehind(r, t)
    BY <1>8, <1>9 DEF NotBehind
  <2>3. \E more \in SUBSET Nat : /\ TrackerInv(r, s..n, more)
                                /\ \A x \in more : x \in done \/ <<p, x>> \in InvalidEventId
    BY <1>7
  <2> QED
    BY <1>1, <1>4, <1>8, <2>1, <2>2, <2>3
<1>11. CASE <<p, n>> \in InvalidEventId
  <2>1. PICK u : u = Complete(r, n)
    OBVIOUS
  <2>2. IngestedTracker(p, n) = u
    BY <1>6, <1>11, <2>1 DEF IngestedTracker
  <2>3. TrackerInv(u, s..n, done \cup {n})
    <3>1. (s..n) \cap {n} = {n}
      BY <1>2
    <3> QED
      BY <1>7, <2>1, <3>1, CompleteInv
  <2>4. /\ \A x \in CommitCandidate(r) : \E v \in CommitCandidate(u) : x <= v
        /\ u.committed = r.committed /\ u.lastRegistered = r.lastRegistered
    BY <1>7, <2>1, CompleteCandidate
  <2>5. NotBehind(u, t)
    BY <1>8, <1>9, <2>4 DEF NotBehind
  <2>6. \E more \in SUBSET Nat : /\ TrackerInv(u, s..n, more)
                                /\ \A x \in more : x \in done \/ <<p, x>> \in InvalidEventId
    <3>1. done \cup {n} \in SUBSET Nat
      OBVIOUS
    <3>2. \A x \in done \cup {n} : x \in done \/ <<p, x>> \in InvalidEventId
      BY <1>11
    <3> QED
      BY <2>3, <3>1, <3>2
  <2> QED
    BY <1>1, <1>4, <1>8, <2>2, <2>4, <2>5, <2>6
<1> QED
  BY <1>10, <1>11

(* A record of an assigned partition is registered: it is the next one.    *)
LEMMA IngestRegistered ==
    ASSUME ConsumerInv, IngestOne, NEW p \in Assigned, NEW o \in Nat,
           NEW b \in Seq(PartitionKey \X Nat), BatchSplit(p, o, b)
    PROVE  ConsumerInv'
<1>20. WorkersInv /\ ReaderInv /\ p \in PartitionKey
  BY DEF ConsumerInv, ReaderInv, ReaderTypes, Assigned
<1>21. Head(batch)[1] = p /\ Head(batch)[2] = o /\ Tail(batch) = b
  BY DEF BatchSplit
<1>22. /\ Ingest(p, o) /\ batch' = b
       /\ UNCHANGED <<ctl, positions, committedAt, owned, readFrom>>
  BY <1>21 DEF IngestOne, brokerVars
<1>23. UNCHANGED <<lastGeneration, queue, task, step, handled, deadLettered>>
  BY <1>22 DEF Ingest, poolVars, executorVars
<1>24. /\ \A q \in PartitionKey, x \in Nat :
             <<q, x>> \in Range(batch) <=> (q = p /\ x = o) \/ <<q, x>> \in Range(b)
       /\ \A x \in Nat : <<p, x>> \in Range(b) => o < x
  BY DEF BatchSplit
<1>25. ReaderPlace' /\ batch' \in Seq(PartitionKey \X Nat)
  BY <1>20, <1>22 DEF ReaderInv, ReaderPlace, BatchSplit, IngestOne
<1>1. PICK s, n \in Nat : \E done \in SUBSET Nat : Ownership(p, s, n, done)
  BY <1>20 DEF ReaderInv, Ownerships
<1>2. PICK done \in SUBSET Nat : Ownership(p, s, n, done)
  BY <1>1
<1>3. PICK t : t = partitions[p].tracker
  OBVIOUS
<1>4. /\ s <= n /\ n <= readFrom[p] /\ readFrom[p] \in Nat
      /\ TrackerInv(t, s..(n - 1), done)
      /\ \A last \in t.lastRegistered : last = n - 1
      /\ \A x \in Nat : <<p, x>> \in Range(batch) <=> x \in n..(readFrom[p] - 1)
  BY <1>20, <1>24, <1>2, <1>3 DEF Ownership, ReaderInv, ReaderTypes
<1>5. o = n /\ n \in n..(readFrom[p] - 1)
  <2>1. o \in n..(readFrom[p] - 1)
    BY <1>20, <1>24, <1>4
  <2>2. n \in n..(readFrom[p] - 1)
    BY <1>4, <2>1
  <2>3. o # n => <<p, n>> \in Range(b)
    BY <1>20, <1>24, <1>4, <2>2
  <2> QED
    BY <1>20, <1>24, <2>1, <2>2, <2>3
<1>6. n + 1 <= readFrom[p] /\ \A x \in Nat :
         <<p, x>> \in Range(b) <=> x \in (n + 1)..(readFrom[p] - 1)
  <2>1. n <= readFrom[p] - 1
    BY <1>5
  <2>2. \A x \in Nat : <<p, x>> \in Range(b) => x # n
    BY <1>20, <1>24, <1>5
  <2>3. \A x \in Nat : <<p, x>> \in Range(b) <=> x \in n..(readFrom[p] - 1) /\ x # n
    BY <1>20, <1>24, <1>4, <1>5, <2>2
  <2>4. \A x \in Nat :
           x \in (n + 1)..(readFrom[p] - 1) <=> x \in n..(readFrom[p] - 1) /\ x # n
    BY <1>4
  <2>5. n + 1 <= readFrom[p]
    BY <1>4, <2>1
  <2> QED
    BY <2>3, <2>4, <2>5
<1>7. PICK u : u = IngestedTracker(p, n)
  OBVIOUS
<1>8. /\ RegisterInResult(p, n) = Ok
      /\ \E more \in SUBSET Nat :
            /\ TrackerInv(u, s..n, more)
            /\ \A x \in more : x \in done \/ <<p, x>> \in InvalidEventId
      /\ u.lastRegistered = {n}
      /\ NotBehind(u, t)
  BY <1>2, <1>3, <1>7, IngestedFacts
<1>9. PICK more \in SUBSET Nat :
         /\ TrackerInv(u, s..n, more)
         /\ \A x \in more : x \in done \/ <<p, x>> \in InvalidEventId
  BY <1>8
<1>10. RegisterInResult(p, o) = Ok
  BY <1>5, <1>8
<1>11. /\ partitions' = [partitions EXCEPT ![p].tracker = u]
       /\ backlog' = IF <<p, n>> \notin InvalidEventId
                     THEN Append(backlog, PositionOf(p, n)) ELSE backlog
  BY <1>22, <1>5, <1>7, <1>10 DEF Ingest
<1>12. PositionOf(p, n) \in RecordTicket
  <2>1. partitions[p].generation \in Nat
    BY <1>20 DEF ReaderInv, ReaderTypes, Assigned, PartitionState
  <2> QED
    BY <1>20, <1>24, <2>1 DEF PositionOf, RecordTicket, Offset
<1>13. backlog' \in Seq(RecordTicket)
  BY <1>20, <1>11, <1>12 DEF WorkersInv
<1>14. WorkersInv'
  BY <1>20, <1>23, <1>13 DEF WorkersInv, Record
<1>15. more \in SUBSET Nat /\ \A x \in more : <<p, x>> \in Settled'
  <2>1. UNCHANGED Settled
    BY <1>23 DEF Settled
  <2>2. \A x \in done : <<p, x>> \in Settled
    BY <1>2 DEF Ownership
  <2> QED
    BY <1>9, <2>1, <2>2 DEF Settled
<1>16. /\ \A q \in PartitionKey \ {p} : \A x \in Nat :
             <<q, x>> \in Range(batch') <=> <<q, x>> \in Range(batch)
       /\ \A x \in Nat : <<p, x>> \in Range(batch') <=> x \in (n + 1)..(readFrom[p] - 1)
  BY <1>22, <1>20, <1>24, <1>6
<1>17. PICK m \in Nat : m = n + 1 /\ m - 1 = n
  OBVIOUS
<1>18. /\ s <= m /\ m <= readFrom[p]
       /\ TrackerInv(u, s..(m - 1), more)
       /\ \A last \in u.lastRegistered : last = m - 1
       /\ \A x \in 0..(s - 1) : <<p, x>> \in Settled
       /\ \A x \in Nat : <<p, x>> \in Range(batch') <=> x \in m..(readFrom[p] - 1)
       /\ p \in owned => committedAt[p] <= s \/ Reached(p, committedAt[p])
  <2>1. s <= m /\ m <= readFrom[p]
    BY <1>4, <1>6, <1>17
  <2>2. /\ TrackerInv(u, s..(m - 1), more)
        /\ \A last \in u.lastRegistered : last = m - 1
    BY <1>8, <1>9, <1>17
  <2> QED
    BY <1>2, <1>16, <1>17, <2>1, <2>2 DEF Ownership
<1>19. ReaderInv'
  BY <1>20, <1>22, <1>23, <1>25, <1>3, <1>8, <1>11, <1>15, <1>16, <1>18, TrackerMoves
<1> QED
  BY <1>14, <1>19 DEF ConsumerInv

LEMMA IngestKeeps ==
    ASSUME ConsumerInv, IngestOne
    PROVE  ConsumerInv'
<1>1. WorkersInv /\ ReaderInv /\ batch # <<>>
  BY DEF ConsumerInv, IngestOne
<1>2. PICK p \in PartitionKey, o \in Nat, b \in Seq(PartitionKey \X Nat) : BatchSplit(p, o, b)
  BY <1>1, BatchHead DEF ReaderInv
<1>3. CASE p \notin Assigned
  <2>1. Head(batch)[1] = p /\ Head(batch)[2] = o /\ Tail(batch) = b
    BY <1>2 DEF BatchSplit
  <2>2. /\ Ingest(p, o) /\ batch' = b
        /\ UNCHANGED <<ctl, positions, committedAt, owned, readFrom>>
    BY <2>1 DEF IngestOne, brokerVars
  <2>3. RegisterInResult(p, o) # Ok
    BY <1>3 DEF RegisterInResult, Assigned, Ok, PartitionNotAssigned
  <2>4. UNCHANGED <<partitions, lastGeneration, backlog, queue, task, step, handled, deadLettered>>
    BY <2>2, <2>3 DEF Ingest, poolVars, executorVars
  <2>5. ReaderPlace' /\ batch' \in Seq(PartitionKey \X Nat)
    BY <1>1, <1>2, <2>2 DEF ReaderInv, ReaderPlace, BatchSplit, IngestOne
  <2>6. \A q \in Assigned : \A x \in Nat : <<q, x>> \in Range(batch') <=> <<q, x>> \in Range(batch)
    BY <1>1, <1>2, <1>3, <2>2 DEF ReaderInv, ReaderTypes, Assigned, BatchSplit
  <2>7. ReaderInv'
    BY <1>1, <2>2, <2>4, <2>5, <2>6, BatchServed
  <2>8. WorkersInv'
    BY <1>1, <2>4 DEF WorkersInv, Record
  <2> QED
    BY <2>7, <2>8 DEF ConsumerInv
<1>4. CASE p \in Assigned
  BY <1>2, <1>4, IngestRegistered
<1> QED
  BY <1>3, <1>4

-----------------------------------------------------------------------------
(* Fetching and erasing                                                    *)

LEMMA WorkersKept ==
    ASSUME WorkersInv, queue' \in Seq(RecordTicket), backlog' \in Seq(RecordTicket),
           UNCHANGED <<task, step>>, handled \subseteq handled', deadLettered \subseteq deadLettered'
    PROVE  WorkersInv'
BY DEF WorkersInv, Record

(* The positions of a fetch are at or beyond those before it.              *)
LEMMA FetchFacts ==
    ASSUME readFrom \in [PartitionKey -> Nat], NEW to \in Fetches
    PROVE  /\ to \in [PartitionKey -> Nat]
           /\ \A p \in PartitionKey : readFrom[p] <= to[p]
           /\ IsFiniteSet(Fetched(to))
           /\ Fetched(to) \subseteq PartitionKey \X Nat
           /\ \A p \in PartitionKey, o \in Nat :
                 <<p, o>> \in Fetched(to) <=> o \in readFrom[p]..(to[p] - 1)
<1>1. /\ to \in [PartitionKey -> UNION {0..LogEnd[p] : p \in PartitionKey}]
      /\ \A p \in Fetchable : readFrom[p] <= to[p]
      /\ \A p \in PartitionKey \ Fetchable : to[p] = readFrom[p]
  BY DEF Fetches
<1>2. UNION {0..LogEnd[p] : p \in PartitionKey} \subseteq Nat
  BY ConsumerAssumption
<1>3. to \in [PartitionKey -> Nat]
  BY <1>1, <1>2
<1>4. ASSUME NEW p \in PartitionKey PROVE readFrom[p] <= to[p]
  BY <1>1, <1>3
<1>5. \A x : x \in Fetched(to) <=>
         \E p \in PartitionKey : \E o \in readFrom[p]..(to[p] - 1) : x = <<p, o>>
  BY DEF Fetched
<1>6. Fetched(to) \subseteq PartitionKey \X Nat
  BY <1>3, <1>5
<1>7. ASSUME NEW p \in PartitionKey, NEW o \in Nat
      PROVE  <<p, o>> \in Fetched(to) <=> o \in readFrom[p]..(to[p] - 1)
  BY <1>5
<1>8. IsFiniteSet(Fetched(to))
  <2> DEFINE part(p) == {p} \X (readFrom[p]..(to[p] - 1))
             f == [p \in PartitionKey |-> part(p)]
             parts == {part(p) : p \in PartitionKey}
  <2>1. f \in Surjection(PartitionKey, parts)
    BY DEF Surjection
  <2>2. IsFiniteSet(parts)
    BY <2>1, ConsumerAssumption, FS_Surjection
  <2>3. ASSUME NEW p \in PartitionKey PROVE IsFiniteSet(part(p))
    <3>1. readFrom[p] \in Int /\ to[p] - 1 \in Int
      BY <1>3
    <3>2. IsFiniteSet(readFrom[p]..(to[p] - 1))
      BY <3>1, FS_Interval
    <3> QED
      BY <3>2, FS_Singleton, FS_Product
  <2>4. IsFiniteSet(UNION parts)
    <3>1. \A T \in parts : IsFiniteSet(T)
      BY <2>3
    <3> QED
      BY <2>2, <3>1, FS_UNION
  <2> QED
    BY <2>4 DEF Fetched
<1> QED
  BY <1>3, <1>4, <1>6, <1>7, <1>8

LEMMA DeliveryFacts ==
    ASSUME NEW records, records \subseteq PartitionKey \X Nat, IsFiniteSet(records),
           NEW r \in Deliveries(records)
    PROVE  /\ r \in Seq(PartitionKey \X Nat)
           /\ Len(r) = Cardinality(records)
           /\ Range(r) = records
           /\ \A i, j \in DOMAIN r : i < j /\ r[i][1] = r[j][1] => r[i][2] < r[j][2]
<1>1. PICK n \in Nat : n = Cardinality(records)
  BY FS_CardinalityType
<1>2. /\ r \in [1..n -> records] /\ Range(r) = records
      /\ \A i, j \in DOMAIN r : i < j /\ r[i][1] = r[j][1] => r[i][2] < r[j][2]
  BY <1>1 DEF Deliveries
<1>3. r \in [1..n -> PartitionKey \X Nat]
  BY <1>2
<1>4. r \in Seq(PartitionKey \X Nat) /\ Len(r) = n
  BY <1>3
<1> QED
  BY <1>1, <1>2, <1>4

LEMMA ErasedFacts ==
    ASSUME NEW T, NEW items \in Seq(T), NEW S, NEW r \in Erased(S, items)
    PROVE  /\ r \in Seq(T)
           /\ Len(r) <= Len(items)
<1> DEFINE kept == {i \in DOMAIN items : items[i].partition \notin S}
<1>1. PICK k : k = kept
  OBVIOUS
<1>2. PICK n : n = Cardinality(k)
  OBVIOUS
<1>3. /\ k \subseteq 1..Len(items) /\ Len(items) \in Nat
      /\ \A i \in 1..Len(items) : items[i] \in T
  BY <1>1
<1>4. n \in Nat /\ n <= Len(items)
  <2>1. IsFiniteSet(1..Len(items)) /\ Cardinality(1..Len(items)) = Len(items)
    <3>1. 1 \in Int /\ Len(items) \in Int
      BY <1>3
    <3>2. /\ IsFiniteSet(1..Len(items))
          /\ Cardinality(1..Len(items)) = IF 1 > Len(items) THEN 0 ELSE Len(items) - 1 + 1
      BY <3>1, FS_Interval
    <3> QED
      BY <1>3, <3>2
  <2>2. IsFiniteSet(k) /\ Cardinality(k) <= Cardinality(1..Len(items))
    BY <1>3, <2>1, FS_Subset
  <2> QED
    BY <1>2, <2>1, <2>2, FS_CardinalityType
<1>5. PICK f \in [1..n -> k] : r = [i \in 1..n |-> items[f[i]]]
  <2>1. \E f \in [1..Cardinality(kept) -> kept] : r = [i \in 1..Cardinality(kept) |-> items[f[i]]]
    BY DEF Erased
  <2> QED
    BY <1>1, <1>2, <2>1
<1> HIDE DEF kept
<1>6. r \in [1..n -> T]
  BY <1>3, <1>5
<1>7. r \in Seq(T) /\ Len(r) = n
  BY <1>4, <1>6
<1> QED
  BY <1>4, <1>7

-----------------------------------------------------------------------------
(* One lemma per step of the reader that does more than move on.           *)

(* poll() hands out records, of partitions it has just taken away (S) too. *)
LEMMA FetchKeeps ==
    ASSUME ReaderInv, batch = <<>>, positions = {}, NEW S, NEW to \in Fetches,
           Assigned' = Assigned \ S, partitions' \in [Assigned' -> PartitionState],
           \A p \in Assigned \ S : partitions'[p] = partitions[p],
           UNCHANGED <<lastGeneration, handled, deadLettered, positions>>,
           owned' = owned \ S,
           committedAt' \in [PartitionKey -> Nat], NoRecordLost',
           \A p \in PartitionKey \ S : committedAt'[p] = committedAt[p],
           batch' \in Deliveries(Fetched(to)),
           readFrom' \in [PartitionKey -> Nat],
           \A p \in PartitionKey \ S : readFrom'[p] = to[p],
           ctl' = "ingest" \/ (ctl' = "start" /\ batch' = <<>>)
    PROVE  ReaderInv'
<1> USE DEF ReaderInv
<1>1. readFrom \in [PartitionKey -> Nat]
  BY DEF ReaderTypes
<1>2. /\ to \in [PartitionKey -> Nat]
      /\ \A p \in PartitionKey : readFrom[p] <= to[p]
      /\ IsFiniteSet(Fetched(to)) /\ Fetched(to) \subseteq PartitionKey \X Nat
      /\ \A p \in PartitionKey, o \in Nat :
            <<p, o>> \in Fetched(to) <=> o \in readFrom[p]..(to[p] - 1)
  BY <1>1, FetchFacts
<1>3. PICK r : r = batch'
  OBVIOUS
<1>4. /\ r \in Seq(PartitionKey \X Nat) /\ Range(r) = Fetched(to)
      /\ \A i, j \in DOMAIN r : i < j /\ r[i][1] = r[j][1] => r[i][2] < r[j][2]
  BY <1>2, <1>3, DeliveryFacts
<1>5. ReaderTypes'
  <2>1. DOMAIN partitions' = Assigned \ S
    BY DEF Assigned
  <2>2. Assigned \ S \subseteq PartitionKey /\ owned \ S \subseteq Assigned \ S
    BY DEF ReaderTypes, Assigned
  <2> QED
    BY <1>3, <1>4, <2>1, <2>2 DEF ReaderTypes, Assigned
<1>6. ReaderPlace'
  BY <1>3, <1>4 DEF ReaderPlace
<1>7. SafePositions(positions)'
  BY DEF SafePositions
<1>8. UNCHANGED Settled
  BY DEF Settled
<1>9. Ownerships'
  <2> SUFFICES ASSUME NEW p \in Assigned \ S
               PROVE  \E s, n \in Nat : \E done \in SUBSET Nat : Ownership(p, s, n, done)'
    BY DEF Ownerships
  <2>1. PICK s, n \in Nat : \E done \in SUBSET Nat : Ownership(p, s, n, done)
    BY DEF Ownerships
  <2>2. PICK done \in SUBSET Nat : Ownership(p, s, n, done)
    BY <2>1
  <2>3. /\ p \in PartitionKey /\ readFrom[p] \in Nat /\ to[p] \in Nat /\ readFrom[p] <= to[p]
        /\ readFrom'[p] = to[p] /\ partitions'[p] = partitions[p]
        /\ committedAt'[p] = committedAt[p] /\ (p \in owned' => p \in owned)
    BY <1>1, <1>2 DEF ReaderTypes, Assigned
  <2>4. s <= n /\ n <= readFrom[p] /\ \A o \in Nat : o \notin n..(readFrom[p] - 1)
    <3>1. Range(batch) = {}
      BY DEF Range
    <3> QED
      BY <2>2, <3>1 DEF Ownership
  <2>5. n = readFrom[p]
    <3>1. n \notin n..(readFrom[p] - 1)
      BY <2>4
    <3> QED
      BY <2>3, <2>4, <3>1
  <2>6. n <= to[p] /\ \A o \in Nat : <<p, o>> \in Range(r) <=> o \in n..(to[p] - 1)
    BY <1>2, <1>4, <2>3, <2>5
  <2>7. Reached(p, committedAt[p])' <=> Reached(p, committedAt[p])
    BY <2>3 DEF Reached
  <2>8. Ownership(p, s, n, done)'
    BY <1>3, <1>8, <2>2, <2>3, <2>6, <2>7 DEF Ownership
  <2> QED
    BY <2>8
<1> QED
  BY <1>5, <1>6, <1>7, <1>9

(* A call that moves no position hands out nothing.                        *)
LEMMA NothingFetched ==
    ASSUME ReaderInv, readFrom \in Fetches, batch' \in Deliveries(Fetched(readFrom))
    PROVE  batch' = <<>>
<1>1. readFrom \in [PartitionKey -> Nat]
  BY DEF ReaderInv, ReaderTypes
<1>2. Fetched(readFrom) = {}
  BY <1>1 DEF Fetched
<1>3. Cardinality(Fetched(readFrom)) = 0 /\ IsFiniteSet(Fetched(readFrom))
  BY <1>2, FS_EmptySet
<1>4. PICK r : r = batch'
  OBVIOUS
<1>5. r \in Seq(PartitionKey \X Nat) /\ Len(r) = 0
  BY <1>2, <1>3, <1>4, DeliveryFacts
<1> QED
  BY <1>4, <1>5

LEMMA RevokedFacts ==
    ASSUME ConsumerInv, NEW S, NEW ok \in BOOLEAN, OnRevoked(S, ok)
    PROVE  /\ WorkersInv'
           /\ Assigned' = Assigned \ S /\ partitions' \in [Assigned' -> PartitionState]
           /\ \A p \in Assigned \ S : partitions'[p] = partitions[p]
           /\ UNCHANGED <<lastGeneration, handled, deadLettered>>
           /\ owned' = owned \ S
           /\ committedAt' \in [PartitionKey -> Nat] /\ NoRecordLost'
           /\ \A p \in PartitionKey \ S : committedAt'[p] = committedAt[p]
           /\ \A p \in PartitionKey : committedAt[p] <= committedAt'[p]
<1>1. /\ Revoke(S) /\ backlog' \in Erased(S, backlog)
      /\ UNCHANGED <<queue, task, step, handled, deadLettered>>
      /\ CommitSync(Candidates(S), ok) /\ owned' = owned \ S
  BY DEF OnRevoked, onPartitionsRevoked, poolVars, executorVars
<1>2. WorkersInv /\ ReaderInv
  BY DEF ConsumerInv
<1>3. WorkersInv'
  <2>1. queue' \in Seq(RecordTicket) /\ backlog \in Seq(RecordTicket)
    BY <1>1, <1>2 DEF WorkersInv
  <2>2. PICK kept : kept = backlog'
    OBVIOUS
  <2>3. kept \in Seq(RecordTicket)
    BY <1>1, <2>1, <2>2, ErasedFacts
  <2> QED
    BY <1>1, <1>2, <2>1, <2>2, <2>3, WorkersKept
<1>4. /\ partitions' = [p \in Assigned \ S |-> partitions[p]]
      /\ UNCHANGED lastGeneration
  <2>1. (Assigned \cap (Assigned \ S)) = Assigned \ S
    OBVIOUS
  <2> QED
    BY <1>1, <2>1 DEF Revoke, Restrict, Assigned
<1>5. /\ Assigned' = Assigned \ S /\ partitions' \in [Assigned' -> PartitionState]
      /\ \A p \in Assigned \ S : partitions'[p] = partitions[p]
  BY <1>2, <1>4 DEF ReaderInv, ReaderTypes, Assigned
<1>6. PICK cs : cs = Candidates(S)
  OBVIOUS
<1>7. cs \subseteq CommitPosition /\ SafePositions(cs)
  BY <1>2, <1>6, CandidatesSafe
<1>8. \A c \in cs : c.partition \in S
  BY <1>6 DEF Candidates, PositionOf
<1>9. committedAt \in [PartitionKey -> Nat] /\ NoRecordLost
  BY <1>2 DEF ReaderInv, ReaderTypes
<1>10. /\ committedAt' \in [PartitionKey -> Nat]
       /\ \A p \in PartitionKey :
             /\ \/ committedAt'[p] = committedAt[p]
                \/ \E c \in cs : /\ p \in owned /\ c.partition = p
                                 /\ committedAt'[p] = c.offset
             /\ committedAt[p] <= committedAt'[p]
             /\ \A o \in 0..(committedAt'[p] - 1) : <<p, o>> \in Settled
  BY <1>1, <1>6, <1>7, <1>9, CommitIsSafe
<1>11. NoRecordLost'
  <2>1. UNCHANGED Settled
    BY <1>1 DEF Settled
  <2> QED
    BY <1>10, <2>1 DEF NoRecordLost
<1> QED
  BY <1>1, <1>3, <1>4, <1>5, <1>8, <1>10, <1>11

LEMMA PollKeeps ==
    ASSUME ConsumerInv, NEW to \in Fetches, Poll(to)
    PROVE  ConsumerInv'
<1>1. WorkersInv /\ ReaderInv
  BY DEF ConsumerInv
<1>2. /\ ctl = "poll" /\ ctl' = "ingest" /\ batch' \in Deliveries(Fetched(to)) /\ readFrom' = to
      /\ UNCHANGED <<partitions, lastGeneration, queue, task, step, handled, deadLettered,
                     backlog, positions, committedAt, owned>>
  BY DEF Poll, LoopEntered, pipelineVars, registryVars, poolVars, executorVars
<1>3. batch = <<>> /\ positions = {}
  BY <1>1, <1>2 DEF ReaderInv, ReaderPlace
<1>4. /\ partitions \in [Assigned -> PartitionState] /\ Assigned' = Assigned
      /\ committedAt \in [PartitionKey -> Nat] /\ readFrom \in [PartitionKey -> Nat]
  BY <1>1, <1>2 DEF ReaderInv, ReaderTypes, Assigned
<1>5. to \in [PartitionKey -> Nat]
  BY <1>4, FetchFacts
<1>6. NoRecordLost'
  BY <1>1, <1>2 DEF ReaderInv, NoRecordLost, Settled
<1>7. PICK S : S = {}
  OBVIOUS
<1>8. Assigned \ S = Assigned /\ owned \ S = owned
  BY <1>7
<1>9. ReaderInv'
  BY <1>1, <1>2, <1>3, <1>4, <1>5, <1>6, <1>8, FetchKeeps
<1>10. WorkersInv'
  BY <1>1, <1>2, WorkersKept DEF WorkersInv
<1> QED
  BY <1>9, <1>10 DEF ConsumerInv

LEMMA PollRevokedKeeps ==
    ASSUME ConsumerInv, NEW S \in SUBSET Assigned, NEW ok \in BOOLEAN, NEW to \in Fetches,
           PollRevoked(S, ok, to)
    PROVE  ConsumerInv'
<1>1. WorkersInv /\ ReaderInv
  BY DEF ConsumerInv
<1>2. /\ batch' \in Deliveries(Fetched(to))
      /\ OnRevoked(S, ok) /\ UNCHANGED positions
      /\ readFrom' = [p \in PartitionKey |-> IF p \in S THEN 0 ELSE to[p]]
      /\ ctl \in {"poll", "start"}
      /\ ctl' = "ingest" \/ (ctl' = "start" /\ to = readFrom)
  BY DEF PollRevoked, InClientCall, Subscribing, LoopEntered
<1>3. batch = <<>> /\ positions = {}
  BY <1>1, <1>2 DEF ReaderInv, ReaderPlace
<1>4. /\ WorkersInv'
      /\ Assigned' = Assigned \ S /\ partitions' \in [Assigned' -> PartitionState]
      /\ \A p \in Assigned \ S : partitions'[p] = partitions[p]
      /\ UNCHANGED <<lastGeneration, handled, deadLettered>>
      /\ owned' = owned \ S
      /\ committedAt' \in [PartitionKey -> Nat] /\ NoRecordLost'
      /\ \A p \in PartitionKey \ S : committedAt'[p] = committedAt[p]
  BY <1>2, RevokedFacts
<1>5. to \in [PartitionKey -> Nat]
  BY <1>1, FetchFacts DEF ReaderInv, ReaderTypes
<1>6. /\ readFrom' \in [PartitionKey -> Nat]
      /\ \A p \in PartitionKey \ S : readFrom'[p] = to[p]
  BY <1>2, <1>5
<1>7. ctl' = "ingest" \/ (ctl' = "start" /\ batch' = <<>>)
  BY <1>1, <1>2, NothingFetched
<1>8. ReaderInv'
  BY <1>1, <1>2, <1>3, <1>4, <1>6, <1>7, FetchKeeps
<1> QED
  BY <1>4, <1>8 DEF ConsumerInv

LEMMA CloseKeeps ==
    ASSUME ConsumerInv, NEW ok \in BOOLEAN, Close(ok)
    PROVE  ConsumerInv'
<1>1. WorkersInv /\ ReaderInv
  BY DEF ConsumerInv
<1>2. /\ ctl = "close" /\ ctl' = "closed" /\ OnRevoked(Assigned, ok)
      /\ UNCHANGED <<batch, positions, readFrom>>
  BY DEF Close
<1>3. /\ WorkersInv'
      /\ Assigned' = {} /\ partitions' \in [Assigned' -> PartitionState]
      /\ UNCHANGED <<lastGeneration, handled, deadLettered>>
      /\ owned' = owned \ Assigned
      /\ committedAt' \in [PartitionKey -> Nat] /\ NoRecordLost'
  BY <1>2, RevokedFacts
<1>4. batch = <<>> /\ positions = {} /\ owned' = {}
  BY <1>1, <1>2, <1>3 DEF ReaderInv, ReaderPlace, ReaderTypes
<1>5. ReaderTypes'
  BY <1>1, <1>2, <1>3, <1>4 DEF ReaderInv, ReaderTypes, Assigned
<1>6. ReaderPlace' /\ Ownerships' /\ SafePositions(positions)'
  BY <1>1, <1>2, <1>3, <1>4 DEF ReaderInv, ReaderPlace, Ownerships, SafePositions
<1> QED
  BY <1>3, <1>5, <1>6 DEF ConsumerInv, ReaderInv

LEMMA AssignedKeeps ==
    ASSUME ConsumerInv, NEW ps \in PartitionLists, PollAssigned(ps)
    PROVE  ConsumerInv'
<1>1. WorkersInv /\ ReaderInv
  BY DEF ConsumerInv
<1>2. PICK R : R = Range(ps)
  OBVIOUS
<1>3. /\ ps \in Seq(PartitionKey) /\ R \subseteq PartitionKey /\ Len(ps) \in Nat
      /\ \A p \in R : \E i \in DOMAIN ps : ps[i] = p
      /\ DOMAIN ps \subseteq Nat
  <2>1. PICK n \in 1..Cardinality(PartitionKey) : ps \in [1..n -> PartitionKey]
    BY DEF PartitionLists
  <2>2. n \in Nat
    BY <2>1, ConsumerAssumption, FS_CardinalityType
  <2>3. ps \in Seq(PartitionKey)
    BY <2>1, <2>2
  <2> QED
    BY <1>2, <2>3 DEF Range
<1>4. PICK place : place = [p \in R |-> CHOOSE i \in DOMAIN ps : ps[i] = p]
  OBVIOUS
<1>5. \A p \in R : place[p] \in Nat
  BY <1>3, <1>4
<1>6. /\ ctl \in {"poll", "start"} /\ ctl' \in {"pump", "start"} /\ R \cap (Assigned \cup owned) = {}
      /\ partitions' = [p \in Assigned \cup R |->
                           IF p \in R
                           THEN [generation |-> lastGeneration + place[p], tracker |-> NewTracker]
                           ELSE partitions[p]]
      /\ lastGeneration' = lastGeneration + Len(ps)
      /\ owned' = owned \cup R
      /\ readFrom' = [p \in PartitionKey |-> IF p \in R THEN committedAt[p] ELSE readFrom[p]]
      /\ UNCHANGED <<queue, task, step, handled, deadLettered, backlog, batch, positions, committedAt>>
  BY <1>2, <1>4 DEF PollAssigned, InClientCall, Subscribing, LoopEntered, onPartitionsAssigned, Assign, Assigned,
                    poolVars, executorVars
<1>7. WorkersInv'
  BY <1>1, <1>6, WorkersKept DEF WorkersInv
<1>8. batch = <<>> /\ positions = {} /\ Range(batch) = {}
  <2>1. batch = <<>> /\ positions = {}
    BY <1>1, <1>6 DEF ReaderInv, ReaderPlace
  <2> QED
    BY <2>1 DEF Range
<1>9. /\ DOMAIN partitions = Assigned /\ partitions \in [Assigned -> PartitionState]
      /\ Assigned \subseteq PartitionKey /\ lastGeneration \in Nat
      /\ committedAt \in [PartitionKey -> Nat] /\ readFrom \in [PartitionKey -> Nat]
      /\ owned \subseteq Assigned
  BY <1>1 DEF ReaderInv, ReaderTypes, Assigned
<1>10. TrackerInv(NewTracker, {}, {}) /\ NewTracker \in Tracker
  BY NewTrackerInv DEF TrackerInv, WellTyped
<1>11. \A p \in R : [generation |-> lastGeneration + place[p], tracker |-> NewTracker] \in PartitionState
  BY <1>5, <1>9, <1>10 DEF PartitionState
<1>12. /\ Assigned' = Assigned \cup R
       /\ \A p \in Assigned : p \notin R /\ partitions'[p] = partitions[p]
       /\ \A p \in R : partitions'[p].tracker = NewTracker
       /\ partitions' \in [Assigned' -> PartitionState]
  <2>1. DOMAIN partitions' = Assigned \cup R
    BY <1>6
  <2>2. Assigned' = Assigned \cup R
    BY <2>1 DEF Assigned
  <2>3. \A p \in Assigned \cup R : partitions'[p] \in PartitionState
    BY <1>6, <1>9, <1>11
  <2>4. \A p \in Assigned : p \notin R /\ partitions'[p] = partitions[p]
    BY <1>6
  <2>5. \A p \in R : partitions'[p].tracker = NewTracker
    BY <1>6
  <2>6. partitions' = [p \in Assigned \cup R |-> partitions'[p]]
    BY <1>6
  <2> QED
    BY <2>2, <2>3, <2>4, <2>5, <2>6
<1>13. ReaderTypes'
  <2>1. readFrom' \in [PartitionKey -> Nat]
    BY <1>6, <1>9
  <2>2. DOMAIN partitions' = Assigned'
    BY DEF Assigned
  <2>3. lastGeneration' \in Nat /\ owned' \subseteq Assigned' /\ Assigned' \subseteq PartitionKey
    BY <1>3, <1>6, <1>9, <1>12
  <2> QED
    BY <1>1, <1>6, <1>12, <2>1, <2>2, <2>3 DEF ReaderInv, ReaderTypes
<1>14. ReaderPlace' /\ SafePositions(positions)' /\ NoRecordLost'
  BY <1>1, <1>6, <1>8 DEF ReaderInv, ReaderPlace, SafePositions, NoRecordLost, Settled
<1>15. UNCHANGED Settled /\ Range(batch)' = {}
  BY <1>6, <1>8 DEF Settled
<1>16. ASSUME NEW p \in R
       PROVE  \E s, n \in Nat : \E done \in SUBSET Nat : Ownership(p, s, n, done)'
  <2>1. PICK c \in Nat : c = committedAt[p] /\ p \in PartitionKey
    BY <1>3, <1>9
  <2>2. readFrom'[p] = c /\ committedAt'[p] = c /\ c..(c - 1) = {}
    BY <1>3, <1>6, <2>1
  <2>3. \A last \in NewTracker.lastRegistered : last = c - 1
    BY DEF NewTracker
  <2>4. \A o \in 0..(c - 1) : <<p, o>> \in Settled
    BY <1>1, <2>1 DEF ReaderInv, NoRecordLost
  <2>5. Ownership(p, c, c, {})'
    BY <1>10, <1>12, <1>15, <2>1, <2>2, <2>3, <2>4 DEF Ownership
  <2> QED
    BY <2>5
<1>17. ASSUME NEW p \in Assigned
       PROVE  \E s, n \in Nat : \E done \in SUBSET Nat : Ownership(p, s, n, done)'
  <2>1. PICK s, n \in Nat : \E done \in SUBSET Nat : Ownership(p, s, n, done)
    BY <1>1 DEF ReaderInv, Ownerships
  <2>2. PICK done \in SUBSET Nat : Ownership(p, s, n, done)
    BY <2>1
  <2>3. /\ partitions'[p] = partitions[p] /\ readFrom'[p] = readFrom[p]
        /\ committedAt'[p] = committedAt[p] /\ (p \in owned' => p \in owned)
    BY <1>6, <1>9, <1>12
  <2>4. Reached(p, committedAt[p])' <=> Reached(p, committedAt[p])
    BY <2>3 DEF Reached
  <2>5. Ownership(p, s, n, done)'
    BY <1>8, <1>15, <2>2, <2>3, <2>4 DEF Ownership
  <2> QED
    BY <2>5
<1>18. Ownerships'
  BY <1>12, <1>16, <1>17 DEF Ownerships
<1> QED
  BY <1>7, <1>13, <1>14, <1>18 DEF ConsumerInv, ReaderInv

(* The broker moves what it has for an ownership to a position that the    *)
(* tracker has reached, or leaves it.                                      *)
LEMMA SyncKeeps ==
    ASSUME ConsumerInv, NEW ok \in BOOLEAN, Sync(ok)
    PROVE  ConsumerInv'
<1>1. WorkersInv /\ ReaderInv
  BY DEF ConsumerInv
<1>2. /\ ctl = "sync" /\ CommitSync(positions, ok)
      /\ ctl' = IF ok THEN "confirm" ELSE AfterCommit
      /\ positions' = IF ok THEN positions ELSE {}
      /\ UNCHANGED <<partitions, lastGeneration, queue, task, step, handled, deadLettered,
                     backlog, batch, owned, readFrom>>
  BY DEF Sync, pipelineVars, registryVars, poolVars, executorVars
<1>3. WorkersInv'
  BY <1>1, <1>2, WorkersKept DEF WorkersInv
<1>4. /\ committedAt \in [PartitionKey -> Nat] /\ NoRecordLost
      /\ positions \subseteq CommitPosition /\ SafePositions(positions)
      /\ Assigned \subseteq PartitionKey /\ owned \subseteq Assigned
  BY <1>1 DEF ReaderInv, ReaderTypes, Assigned
<1>5. /\ committedAt' \in [PartitionKey -> Nat]
      /\ \A p \in PartitionKey :
            /\ \/ committedAt'[p] = committedAt[p]
               \/ \E c \in positions : /\ p \in owned /\ c.partition = p
                                       /\ committedAt'[p] = c.offset
            /\ committedAt[p] <= committedAt'[p]
            /\ \A o \in 0..(committedAt'[p] - 1) : <<p, o>> \in Settled
  BY <1>2, <1>4, CommitIsSafe
<1>6. UNCHANGED Settled /\ Assigned' = Assigned
  BY <1>2 DEF Settled, Assigned
<1>7. ReaderTypes'
  BY <1>1, <1>2, <1>5 DEF ReaderInv, ReaderTypes, Assigned
<1>8. ReaderPlace'
  BY <1>1, <1>2 DEF ReaderInv, ReaderPlace, AfterCommit
<1>9. NoRecordLost'
  BY <1>5, <1>6 DEF NoRecordLost
<1>10. \A p, o : Reached(p, o)' <=> Reached(p, o)
  BY <1>2 DEF Reached
<1>11. SafePositions(positions)'
  <2>1. ASSUME NEW c \in positions, c.partition \in owned
        PROVE  committedAt'[c.partition] <= c.offset
    <3>1. PICK p \in PartitionKey : p = c.partition
      BY <1>4 DEF CommitPosition
    <3>2. c.offset \in Nat
      BY <1>4 DEF CommitPosition, Offset
    <3>3. CASE committedAt'[p] = committedAt[p]
      BY <1>4, <2>1, <3>1, <3>3 DEF SafePositions
    <3>4. CASE \E d \in positions : d.partition = p /\ committedAt'[p] = d.offset
      BY <1>4, <3>1, <3>2, <3>4 DEF SafePositions
    <3> QED
      BY <1>5, <3>1, <3>3, <3>4
  <2>2. positions' \subseteq positions
    BY <1>2
  <2> QED
    BY <1>2, <1>4, <1>6, <1>10, <2>1, <2>2 DEF SafePositions
<1>12. Ownerships'
  <2> SUFFICES ASSUME NEW p \in Assigned
               PROVE  \E s, n \in Nat : \E done \in SUBSET Nat : Ownership(p, s, n, done)'
    BY <1>6 DEF Ownerships
  <2>1. PICK s, n \in Nat : \E done \in SUBSET Nat : Ownership(p, s, n, done)
    BY <1>1 DEF ReaderInv, Ownerships
  <2>2. PICK done \in SUBSET Nat : Ownership(p, s, n, done)
    BY <2>1
  <2>3. p \in owned => committedAt'[p] <= s \/ Reached(p, committedAt'[p])
    <3>1. CASE committedAt'[p] = committedAt[p]
      BY <2>2, <3>1 DEF Ownership
    <3>2. CASE \E c \in positions : c.partition = p /\ committedAt'[p] = c.offset
      BY <1>4, <3>2 DEF SafePositions
    <3> QED
      BY <1>4, <1>5, <3>1, <3>2
  <2>4. p \in owned => committedAt'[p] <= s \/ Reached(p, committedAt[p])'
    <3>1. PICK x : x = committedAt'[p]
      OBVIOUS
    <3>2. Reached(p, x) => Reached(p, committedAt[p])'
      BY <1>2, <3>1 DEF Reached
    <3> QED
      BY <2>3, <3>1, <3>2
  <2>5. Ownership(p, s, n, done)'
    BY <1>2, <1>6, <2>2, <2>4 DEF Ownership
  <2> QED
    BY <2>5
<1> QED
  BY <1>3, <1>7, <1>8, <1>9, <1>11, <1>12 DEF ConsumerInv, ReaderInv

(* The trackers take over what was committed for their ownership.          *)
LEMMA ConfirmKeeps ==
    ASSUME ConsumerInv, Confirm
    PROVE  ConsumerInv'
<1>1. WorkersInv /\ ReaderInv
  BY DEF ConsumerInv
<1>2. /\ ctl = "confirm" /\ ctl' = AfterCommit /\ ConfirmAll(positions) /\ positions' = {}
      /\ UNCHANGED <<lastGeneration, queue, task, step, handled, deadLettered,
                     backlog, batch, owned, readFrom, committedAt>>
  BY DEF Confirm, ConfirmAll, poolVars, executorVars, brokerVars
<1>3. WorkersInv'
  BY <1>1, <1>2, WorkersKept DEF WorkersInv
<1>4. /\ DOMAIN partitions = Assigned /\ partitions \in [Assigned -> PartitionState]
      /\ committedAt \in [PartitionKey -> Nat] /\ Assigned \subseteq PartitionKey
      /\ positions \subseteq CommitPosition /\ SafePositions(positions)
  BY <1>1 DEF ReaderInv, ReaderTypes, Assigned
<1>5. DOMAIN partitions' = Assigned /\ Assigned' = Assigned
  BY <1>2 DEF ConfirmAll, Assigned
<1>6. ASSUME NEW p \in Assigned
      PROVE  \/ partitions'[p] = partitions[p]
             \/ \E c \in positions :
                   /\ c.partition = p /\ c.offset \in Nat
                   /\ partitions'[p] = [partitions[p] EXCEPT !.tracker = ConfirmCommit(@, c.offset)]
  <2>1. PICK mine : mine = {c \in positions : c.partition = p /\ IsCurrent(c)}
    OBVIOUS
  <2>2. PICK c : c = CHOOSE d \in mine : TRUE
    OBVIOUS
  <2>3. partitions'[p] = IF mine = {} THEN partitions[p]
                         ELSE [partitions[p] EXCEPT !.tracker = ConfirmCommit(@, c.offset)]
    BY <1>2, <1>4, <2>1, <2>2 DEF ConfirmAll
  <2>4. mine # {} => c \in positions /\ c.partition = p
    BY <2>1, <2>2
  <2>5. \A d \in positions : d.offset \in Nat
    BY <1>4 DEF CommitPosition, Offset
  <2> QED
    BY <2>3, <2>4, <2>5
<1>7. ASSUME NEW p \in Assigned
      PROVE  /\ partitions'[p] \in PartitionState
             /\ \E s, n \in Nat : \E done \in SUBSET Nat : Ownership(p, s, n, done)'
  <2>1. PICK s, n \in Nat : \E done \in SUBSET Nat : Ownership(p, s, n, done)
    BY <1>1 DEF ReaderInv, Ownerships
  <2>2. PICK done \in SUBSET Nat : Ownership(p, s, n, done)
    BY <2>1
  <2>3. UNCHANGED Settled
    BY <1>2 DEF Settled
  <2>4. p \in PartitionKey /\ committedAt[p] \in Nat
    BY <1>4
  <2>5. CASE partitions'[p] = partitions[p]
    <3>1. Reached(p, committedAt[p])' <=> Reached(p, committedAt[p])
      BY <1>2, <2>4, <2>5 DEF Reached
    <3>2. Ownership(p, s, n, done)'
      BY <1>2, <2>2, <2>3, <2>4, <2>5, <3>1 DEF Ownership
    <3> QED
      BY <1>4, <2>5, <3>2
  <2>6. ASSUME NEW c \in positions, c.partition = p, c.offset \in Nat,
               partitions'[p] = [partitions[p] EXCEPT !.tracker = ConfirmCommit(@, c.offset)]
        PROVE  /\ partitions'[p] \in PartitionState
               /\ \E a, b \in Nat : \E done0 \in SUBSET Nat : Ownership(p, a, b, done0)'
    <3>1. PICK x \in Nat : x = c.offset
      BY <2>6
    <3>2. PICK t : t = partitions[p].tracker
      OBVIOUS
    <3>3. PICK u : u = ConfirmCommit(t, x)
      OBVIOUS
    <3>4. TrackerInv(t, s..(n - 1), done) /\ t \in Tracker
      BY <2>2, <3>2 DEF Ownership, TrackerInv, WellTyped
    <3>5. TrackerInv(u, s..(n - 1), done) /\ u \in Tracker
      <4>1. TrackerInv(u, s..(n - 1), done)
        BY <3>3, <3>4, ConfirmInv
      <4> QED
        BY <4>1 DEF TrackerInv, WellTyped
    <3>6. (u = t \/ u.committed = {x}) /\ u.lastRegistered = t.lastRegistered
      BY <3>3, <3>4, ConfirmCandidate
    <3>7. partitions'[p].tracker = u /\ partitions'[p] \in PartitionState
      BY <1>4, <2>6, <3>1, <3>2, <3>3, <3>5 DEF PartitionState
    <3>8. p \in owned => committedAt[p] <= x
      BY <1>4, <2>6, <3>1 DEF SafePositions
    <3>9. p \in owned => committedAt[p] <= s \/ Reached(p, committedAt[p])'
      <4>1. CASE u = t
        <5>1. Reached(p, committedAt[p]) => Reached(p, committedAt[p])'
          BY <1>2, <2>4, <3>2, <3>7, <4>1 DEF Reached
        <5> QED
          BY <2>2, <5>1 DEF Ownership
      <4>2. CASE u.committed = {x}
        BY <1>2, <3>7, <3>8, <4>2 DEF Reached
      <4> QED
        BY <3>6, <4>1, <4>2
    <3>10. Ownership(p, s, n, done)'
      BY <1>2, <2>2, <2>3, <2>4, <3>2, <3>5, <3>6, <3>7, <3>9 DEF Ownership
    <3> QED
      BY <3>7, <3>10
  <2> QED
    BY <1>6, <2>5, <2>6
<1>8. Ownerships'
  BY <1>5, <1>7 DEF Ownerships
<1>9. ReaderTypes'
  <2>1. partitions' \in [Assigned -> PartitionState]
    <3>1. partitions' = [p \in Assigned |-> partitions'[p]]
      BY <1>2, <1>4 DEF ConfirmAll
    <3> QED
      BY <1>7, <3>1
  <2> QED
    BY <1>1, <1>2, <1>5, <2>1 DEF ReaderInv, ReaderTypes, Assigned
<1>10. ReaderPlace' /\ SafePositions(positions)' /\ NoRecordLost'
  BY <1>1, <1>2 DEF ReaderInv, ReaderPlace, SafePositions, NoRecordLost, Settled, AfterCommit
<1> QED
  BY <1>3, <1>8, <1>9, <1>10 DEF ConsumerInv, ReaderInv

(* What commitReady collects may be committed.                             *)
LEMMA CollectKeeps ==
    ASSUME ConsumerInv, Collect
    PROVE  ConsumerInv'
<1>1. WorkersInv /\ ReaderInv
  BY DEF ConsumerInv
<1>2. /\ ctl = "collect" /\ ctl' = "sync" /\ positions' = Candidates(PartitionKey)
      /\ UNCHANGED <<partitions, lastGeneration, queue, task, step, handled, deadLettered,
                     backlog, batch, owned, readFrom, committedAt>>
  BY DEF Collect, commitCandidates, pipelineVars, registryVars, poolVars, executorVars, brokerVars
<1>3. WorkersInv'
  BY <1>1, <1>2, WorkersKept DEF WorkersInv
<1>4. PICK cs : cs = Candidates(PartitionKey)
  OBVIOUS
<1>5. cs \subseteq CommitPosition /\ SafePositions(cs)
  BY <1>1, <1>4, CandidatesSafe
<1>6. ReaderTypes' /\ ReaderPlace'
  BY <1>1, <1>2, <1>4, <1>5 DEF ReaderInv, ReaderTypes, ReaderPlace, Assigned
<1>7. UNCHANGED <<Settled, Assigned>> /\ \A p, o : Reached(p, o)' <=> Reached(p, o)
  BY <1>2 DEF Settled, Assigned, Reached
<1>8. SafePositions(positions)'
  BY <1>2, <1>4, <1>5, <1>7 DEF SafePositions
<1>9. Ownerships' /\ NoRecordLost'
  <2>1. NoRecordLost'
    BY <1>1, <1>2, <1>7 DEF ReaderInv, NoRecordLost
  <2> SUFFICES ASSUME NEW p \in Assigned
               PROVE  \E s, n \in Nat : \E done \in SUBSET Nat : Ownership(p, s, n, done)'
    BY <1>7, <2>1 DEF Ownerships
  <2>2. PICK s, n \in Nat : \E done \in SUBSET Nat : Ownership(p, s, n, done)
    BY <1>1 DEF ReaderInv, Ownerships
  <2>3. PICK done \in SUBSET Nat : Ownership(p, s, n, done)
    BY <2>2
  <2>4. Ownership(p, s, n, done)'
    BY <1>2, <1>7, <2>3 DEF Ownership
  <2> QED
    BY <2>4
<1> QED
  BY <1>3, <1>6, <1>8, <1>9 DEF ConsumerInv, ReaderInv

-----------------------------------------------------------------------------
(* The steps that move tickets to the pool, or move on only.               *)
LEMMA QuietKeeps ==
    ASSUME ConsumerInv, queue' \in Seq(RecordTicket), backlog' \in Seq(RecordTicket),
           UNCHANGED <<partitions, lastGeneration, batch, readFrom, committedAt, owned, positions,
                       task, step, handled, deadLettered>>,
           ctl' # "ingest" => batch = <<>>,
           ctl' \notin {"sync", "confirm"} => positions = {}
    PROVE  ConsumerInv'
BY ReaderKept, WorkersKept DEF ConsumerInv

(* start() gives up: nothing was read before, and no partition is left.    *)
LEMMA ResetKeeps ==
    ASSUME ConsumerInv, PipelineReset, ctl = "start", ctl' = "failed",
           UNCHANGED <<batch, positions, readFrom, committedAt>>
    PROVE  ConsumerInv'
<1>1. WorkersInv /\ ReaderInv /\ batch = <<>> /\ positions = {}
  BY DEF ConsumerInv, ReaderInv, ReaderPlace
<1>2. /\ partitions' = [p \in {} |-> {}]
      /\ queue' = <<>> /\ backlog' = <<>> /\ owned' = {}
      /\ task' = [w \in Worker |-> NoTask] /\ step' = [w \in Worker |-> Idle]
      /\ UNCHANGED <<lastGeneration, handled, deadLettered>>
  BY DEF PipelineReset
<1>3. DOMAIN partitions' = {} /\ partitions' \in [DOMAIN partitions' -> PartitionState]
  BY <1>2
<1>4. <<>> \in Seq(RecordTicket)
  OBVIOUS
<1>5. WorkersInv'
  BY <1>2, <1>4 DEF WorkersInv, Idle, Places
<1>6. ReaderTypes' /\ Assigned' = {}
  BY <1>1, <1>2, <1>3 DEF ReaderInv, ReaderTypes, Assigned
<1>7. ReaderPlace' /\ NoRecordLost'
  BY <1>1, <1>2 DEF ReaderInv, ReaderPlace, NoRecordLost, Settled
<1>8. Ownerships' /\ SafePositions(positions)'
  BY <1>1, <1>6 DEF Ownerships, SafePositions
<1> QED
  BY <1>5, <1>6, <1>7, <1>8 DEF ConsumerInv, ReaderInv

LEMMA ReaderKeeps ==
    ASSUME ConsumerInv, ReaderStep
    PROVE  ConsumerInv'
<1> DEFINE rest == <<partitions, lastGeneration, batch, readFrom, committedAt, owned, positions,
                     task, step, handled, deadLettered>>
<1> USE DEF pipelineVars, registryVars, poolVars, executorVars, consumerVars, brokerVars
<1>1. /\ queue \in Seq(RecordTicket) /\ backlog \in Seq(RecordTicket)
      /\ ctl # "ingest" => batch = <<>>
      /\ ctl \notin {"sync", "confirm"} => positions = {}
  BY DEF ConsumerInv, WorkersInv, ReaderInv, ReaderPlace
<1>2. CASE SubscribeReturns \/ SubscribeFails
  <2>1. CASE ctl' # "failed"
    BY <1>1, <1>2, <2>1, QuietKeeps DEF SubscribeReturns, SubscribeFails, Subscribing
  <2>2. CASE ctl' = "failed"
    BY <1>2, <2>2, ResetKeeps DEF SubscribeReturns, SubscribeFails, Subscribing
  <2> QED
    BY <2>1, <2>2
<1>3. CASE IngestEnds
  BY <1>1, <1>3, QuietKeeps DEF IngestEnds
<1>4. CASE Pump
  <2>1. /\ backlog # <<>> /\ queue' = Append(queue, Head(backlog)) /\ backlog' = Tail(backlog)
        /\ ctl = "pump" /\ UNCHANGED <<ctl, rest>>
    BY <1>4 DEF Pump, PumpOne, Submit
  <2>2. PICK head : head = Head(backlog)
    OBVIOUS
  <2>3. head \in RecordTicket /\ backlog' \in Seq(RecordTicket)
    BY <1>1, <2>1, <2>2
  <2>4. queue' \in Seq(RecordTicket)
    BY <1>1, <2>1, <2>2, <2>3
  <2> QED
    BY <1>1, <2>1, <2>3, <2>4, QuietKeeps
<1>5. ASSUME NEW drained \in BOOLEAN, Backpressure(drained) PROVE ConsumerInv'
  BY <1>1, <1>5, QuietKeeps DEF Backpressure
<1>6. CASE KafkaException
  BY <1>1, <1>6, QuietKeeps DEF KafkaException, LoopEntered
<1>7. CASE Backoff
  BY <1>1, <1>7, QuietKeeps DEF Backoff
<1>8. CASE CommitSkipped
  BY <1>1, <1>8, QuietKeeps DEF CommitSkipped, AfterCommit
<1> QED
  BY <1>2, <1>3, <1>4, <1>5, <1>6, <1>7, <1>8, PollKeeps, AssignedKeeps, PollRevokedKeeps,
     IngestKeeps, CollectKeeps, SyncKeeps, ConfirmKeeps DEF ReaderStep

LEMMA StopKeeps ==
    ASSUME ConsumerInv, StopStep \/ RequestReaderStop
    PROVE  ConsumerInv'
<1> USE DEF pipelineVars, registryVars, poolVars, executorVars, consumerVars, brokerVars
<1>1. /\ queue \in Seq(RecordTicket) /\ backlog \in Seq(RecordTicket)
      /\ <<>> \in Seq(RecordTicket)
      /\ ctl # "ingest" => batch = <<>>
      /\ ctl \notin {"sync", "confirm"} => positions = {}
  BY DEF ConsumerInv, WorkersInv, ReaderInv, ReaderPlace
<1>2. CASE LeaveReader
  BY <1>1, <1>2, QuietKeeps DEF LeaveReader
<1>3. CASE StopThreads
  BY <1>1, <1>3, QuietKeeps DEF StopThreads, StopBegins, StopPool
<1>4. ASSUME NEW w \in Worker, StopThread(w) PROVE ConsumerInv'
  BY <1>1, <1>4, QuietKeeps DEF StopThread, RequestStop
<1>5. CASE PipelineStopped
  BY <1>1, <1>5, QuietKeeps DEF PipelineStopped, StopEnds
<1>6. CASE RequestReaderStop
  BY <1>1, <1>6, QuietKeeps DEF RequestReaderStop
<1> QED
  BY <1>2, <1>3, <1>4, <1>5, <1>6, CloseKeeps DEF StopStep

-----------------------------------------------------------------------------
(* The surroundings                                                        *)

LEMMA SessionLostKeeps ==
    ASSUME ConsumerInv, NEW p \in PartitionKey, SessionLost(p)
    PROVE  ConsumerInv'
<1>1. WorkersInv /\ ReaderInv
  BY DEF ConsumerInv
<1>2. /\ owned' \subseteq owned
      /\ UNCHANGED <<partitions, lastGeneration, queue, task, step, handled, deadLettered,
                     backlog, ctl, batch, positions, readFrom, committedAt>>
  BY DEF SessionLost, pipelineVars, registryVars, poolVars, executorVars, consumerVars
<1>3. WorkersInv'
  BY <1>1, <1>2, WorkersKept DEF WorkersInv
<1>4. UNCHANGED <<Settled, Assigned>> /\ \A q, o : Reached(q, o)' <=> Reached(q, o)
  BY <1>2 DEF Settled, Assigned, Reached
<1>5. ReaderTypes' /\ ReaderPlace' /\ NoRecordLost'
  BY <1>1, <1>2, <1>4 DEF ReaderInv, ReaderTypes, ReaderPlace, NoRecordLost, Assigned
<1>6. SafePositions(positions)'
  BY <1>1, <1>2, <1>4 DEF ReaderInv, SafePositions
<1>7. Ownerships'
  <2> SUFFICES ASSUME NEW q \in Assigned
               PROVE  \E s, n \in Nat : \E done \in SUBSET Nat : Ownership(q, s, n, done)'
    BY <1>4 DEF Ownerships
  <2>1. PICK s, n \in Nat : \E done \in SUBSET Nat : Ownership(q, s, n, done)
    BY <1>1 DEF ReaderInv, Ownerships
  <2>2. PICK done \in SUBSET Nat : Ownership(q, s, n, done)
    BY <2>1
  <2>3. Ownership(q, s, n, done)'
    BY <1>2, <1>4, <2>2 DEF Ownership
  <2> QED
    BY <2>3
<1> QED
  BY <1>3, <1>5, <1>6, <1>7 DEF ConsumerInv, ReaderInv

(* The other member settles a record before it moves the position of a     *)
(* partition that is not ours.                                             *)
LEMMA OtherMemberKeeps ==
    ASSUME ConsumerInv, NEW p \in PartitionKey, OtherMember(p)
    PROVE  ConsumerInv' /\ \A q \in PartitionKey : committedAt[q] <= committedAt'[q]
<1>1. WorkersInv /\ ReaderInv
  BY DEF ConsumerInv
<1>2. /\ p \notin owned
      /\ handled' = IF <<p, committedAt[p]>> \in InvalidEventId THEN handled
                    ELSE handled \cup {<<p, committedAt[p]>>}
      /\ committedAt' = [committedAt EXCEPT ![p] = @ + 1]
      /\ UNCHANGED <<partitions, lastGeneration, queue, task, step, deadLettered,
                     backlog, ctl, batch, positions, readFrom, owned>>
  BY DEF OtherMember, registryVars, poolVars, consumerVars
<1>3. handled \subseteq handled' /\ WorkersInv'
  BY <1>1, <1>2, WorkersKept DEF WorkersInv
<1>4. Settled \subseteq Settled' /\ <<p, committedAt[p]>> \in Settled'
  BY <1>2 DEF Settled
<1>5. /\ Assigned' = Assigned /\ \A q, o : Reached(q, o)' <=> Reached(q, o)
      /\ committedAt \in [PartitionKey -> Nat]
      /\ Assigned \subseteq PartitionKey /\ owned \subseteq Assigned
  BY <1>1, <1>2 DEF Assigned, Reached, ReaderInv, ReaderTypes
<1>6. /\ committedAt' \in [PartitionKey -> Nat]
      /\ committedAt'[p] = committedAt[p] + 1
      /\ \A q \in PartitionKey : q # p => committedAt'[q] = committedAt[q]
  BY <1>2, <1>5
<1>7. \A q \in PartitionKey : committedAt[q] <= committedAt'[q]
  BY <1>5, <1>6
<1>8. ReaderTypes' /\ ReaderPlace'
  BY <1>1, <1>2, <1>6 DEF ReaderInv, ReaderTypes, ReaderPlace, Assigned
<1>9. NoRecordLost'
  <2> SUFFICES ASSUME NEW q \in PartitionKey, NEW o \in 0..(committedAt'[q] - 1)
               PROVE  <<q, o>> \in Settled'
    BY DEF NoRecordLost
  <2>1. CASE q = p /\ o = committedAt[p]
    BY <1>4, <2>1
  <2>2. CASE ~(q = p /\ o = committedAt[p])
    <3>1. o \in 0..(committedAt[q] - 1)
      BY <1>5, <1>6, <2>2
    <3> QED
      BY <1>1, <1>4, <3>1 DEF ReaderInv, NoRecordLost
  <2> QED
    BY <2>1, <2>2
<1>10. \A q \in owned : q # p /\ committedAt'[q] = committedAt[q]
  BY <1>2, <1>5, <1>6
<1>11. SafePositions(positions)'
  BY <1>1, <1>2, <1>4, <1>5, <1>10 DEF ReaderInv, SafePositions
<1>12. Ownerships'
  <2> SUFFICES ASSUME NEW q \in Assigned
               PROVE  \E s, n \in Nat : \E done \in SUBSET Nat : Ownership(q, s, n, done)'
    BY <1>5 DEF Ownerships
  <2>1. PICK s, n \in Nat : \E done \in SUBSET Nat : Ownership(q, s, n, done)
    BY <1>1 DEF ReaderInv, Ownerships
  <2>2. PICK done \in SUBSET Nat : Ownership(q, s, n, done)
    BY <2>1
  <2>3. q \in owned => committedAt'[q] <= s \/ Reached(q, committedAt[q])'
    <3>1. q \in owned /\ Reached(q, committedAt[q]) => Reached(q, committedAt[q])'
      BY <1>2, <1>10 DEF Reached
    <3> QED
      BY <1>10, <2>2, <3>1 DEF Ownership
  <2>4. Ownership(q, s, n, done)'
    BY <1>2, <1>4, <2>2, <2>3 DEF Ownership
  <2> QED
    BY <2>4
<1> QED
  BY <1>3, <1>7, <1>8, <1>9, <1>11, <1>12 DEF ConsumerInv, ReaderInv

LEMMA CrashKeeps ==
    ASSUME ConsumerInv, Crash
    PROVE  ConsumerInv'
<1>1. /\ partitions' = [p \in {} |-> {}] /\ lastGeneration' = 0
      /\ queue' = <<>> /\ backlog' = <<>> /\ batch' = <<>>
      /\ task' = [w \in Worker |-> NoTask] /\ step' = [w \in Worker |-> Idle]
      /\ readFrom' = [p \in PartitionKey |-> 0]
      /\ positions' = {} /\ owned' = {} /\ ctl' = "start"
      /\ UNCHANGED <<handled, deadLettered, committedAt>>
  BY DEF Crash
<1>2. DOMAIN partitions' = {} /\ partitions' \in [DOMAIN partitions' -> PartitionState]
  BY <1>1
<1>3. <<>> \in Seq(RecordTicket) /\ <<>> \in Seq(PartitionKey \X Nat) /\ DOMAIN <<>> = {}
  OBVIOUS
<1>4. WorkersInv'
  BY <1>1, <1>3 DEF WorkersInv, Idle, Places
<1>5. ReaderTypes' /\ Assigned' = {}
  BY <1>1, <1>2, <1>3 DEF ConsumerInv, ReaderInv, ReaderTypes, Assigned
<1>6. ReaderPlace'
  BY <1>1, <1>3 DEF ReaderPlace
<1>7. NoRecordLost'
  BY <1>1 DEF ConsumerInv, ReaderInv, NoRecordLost, Settled
<1>8. Ownerships' /\ SafePositions(positions)'
  BY <1>1, <1>5 DEF Ownerships, SafePositions
<1> QED
  BY <1>4, <1>5, <1>6, <1>7, <1>8 DEF ConsumerInv, ReaderInv

-----------------------------------------------------------------------------
LEMMA NextKeeps ==
    ASSUME ConsumerInv, [Next]_vars
    PROVE  ConsumerInv'
<1>1. CASE UNCHANGED vars
  <2>1. /\ queue \in Seq(RecordTicket) /\ backlog \in Seq(RecordTicket)
        /\ ctl # "ingest" => batch = <<>>
        /\ ctl \notin {"sync", "confirm"} => positions = {}
    BY DEF ConsumerInv, WorkersInv, ReaderInv, ReaderPlace
  <2> QED
    BY <1>1, <2>1, QuietKeeps DEF vars, pipelineVars, registryVars, poolVars, executorVars,
                                  consumerVars, brokerVars
<1>2. CASE Next
  BY <1>1, <1>2, ReaderKeeps, StopKeeps, WorkerKeeps, SessionLostKeeps, OtherMemberKeeps,
     CrashKeeps DEF Next, Terminated
<1> QED
  BY <1>1, <1>2

(* No committed position is moved back: the commits of this consumer are   *)
(* ahead of what the broker has of the same ownership, and nobody else     *)
(* writes the position meanwhile.                                          *)
LEMMA CommitsMoveForward ==
    ASSUME ConsumerInv, [Next]_vars, NEW p \in PartitionKey
    PROVE  committedAt[p] <= committedAt'[p]
<1>1. /\ ReaderInv /\ committedAt \in [PartitionKey -> Nat] /\ NoRecordLost
      /\ positions \subseteq CommitPosition /\ SafePositions(positions)
  BY DEF ConsumerInv, ReaderInv, ReaderTypes
<1>2. ASSUME UNCHANGED committedAt PROVE committedAt[p] <= committedAt'[p]
  BY <1>1, <1>2
<1>3. ASSUME NEW S, NEW ok \in BOOLEAN, OnRevoked(S, ok) PROVE committedAt[p] <= committedAt'[p]
  BY <1>3, RevokedFacts
<1>4. ASSUME NEW ok \in BOOLEAN, Sync(ok) PROVE committedAt[p] <= committedAt'[p]
  BY <1>1, <1>4, CommitIsSafe DEF Sync
<1>5. CASE ReaderStep
  BY <1>2, <1>3, <1>4, <1>5
     DEF ReaderStep, SubscribeReturns, SubscribeFails, Poll, PollAssigned, PollRevoked, IngestOne, IngestEnds, Pump,
         Backpressure, KafkaException, Backoff, CommitSkipped, Collect, Confirm, brokerVars
<1>6. CASE StopStep \/ RequestReaderStop
  BY <1>2, <1>3, <1>6
     DEF StopStep, LeaveReader, StopThreads, StopThread, PipelineStopped, Close,
         RequestReaderStop, brokerVars
<1>7. CASE \E w \in Worker : WorkerStep(w)
  BY <1>2, <1>7 DEF WorkerStep, brokerVars
<1>8. CASE \E q \in PartitionKey : SessionLost(q) \/ OtherMember(q)
  BY <1>2, <1>8, OtherMemberKeeps DEF SessionLost
<1>9. CASE Crash \/ UNCHANGED vars
  BY <1>2, <1>9 DEF Crash, vars, brokerVars
<1> QED
  BY <1>5, <1>6, <1>7, <1>8, <1>9 DEF Next, Terminated

LEMMA ConsumerInvariant == Spec => []ConsumerInv
<1>1. Init => ConsumerInv
  BY InitConsumer
<1>2. ConsumerInv /\ [Next]_vars => ConsumerInv'
  BY NextKeeps
<1> QED
  BY <1>1, <1>2, PTL DEF Spec

(* No record is lost: commitSync is given only positions below which every *)
(* record was handled, dead-lettered or has no valid eventId, whatever     *)
(* rebalances, lost sessions, failed commits, stops and crashes come       *)
(* between registering a record and committing it.                         *)
THEOREM EveryRecordSettled == Spec => []NoRecordLost
<1>1. ConsumerInv => NoRecordLost
  BY DEF ConsumerInv, ReaderInv
<1> QED
  BY <1>1, ConsumerInvariant, PTL

(* The broker's position of a partition never moves back: a late commit of *)
(* revoked partitions or a repeated one cannot undo another member's.      *)
THEOREM CommitsNeverMoveBack == Spec => CommittedNeverMovesBack
<1>1. ConsumerInv /\ [Next]_vars => [\A p \in PartitionKey : committedAt[p] <= committedAt'[p]]_vars
  BY CommitsMoveForward
<1> QED
  BY <1>1, ConsumerInvariant, PTL DEF Spec, CommittedNeverMovesBack

-----------------------------------------------------------------------------
(* The pool: what a step of the system is to it.                           *)
PoolStep ==
    \/ \E ticket : Submit(ticket)
    \/ StopPool
    \/ \E w \in Worker :
          RequestStop(w) \/ FallAsleep(w) \/ TakeTask(w) \/ LeaveLoop(w) \/ TaskReturns(w)
    \/ UNCHANGED poolVars

LEMMA PoolSteps ==
    ASSUME [Next]_vars, ~Crash, ~PipelineReset
    PROVE  PoolStep
<1>1. CASE UNCHANGED vars
  BY <1>1 DEF PoolStep, vars, pipelineVars
<1>2. CASE ReaderStep
  BY <1>2 DEF PoolStep, ReaderStep, SubscribeReturns, SubscribeFails, Poll, PollAssigned, onPartitionsAssigned,
              PollRevoked, OnRevoked, onPartitionsRevoked, IngestOne, Ingest, IngestEnds,
              Pump, PumpOne, Backpressure, KafkaException, Backoff, CommitSkipped, Collect,
              Sync, Confirm, ConfirmAll, pipelineVars
<1>3. CASE StopStep \/ RequestReaderStop
  BY <1>3 DEF PoolStep, StopStep, LeaveReader, StopThreads, StopBegins, StopThread,
              PipelineStopped, StopEnds, Close, OnRevoked, onPartitionsRevoked,
              RequestReaderStop, pipelineVars
<1>4. ASSUME NEW w \in Worker, WorkerStep(w) PROVE PoolStep
  BY <1>4 DEF PoolStep, WorkerStep, ExecutorStep, BeginExecute, CheckAttempt, Invoke,
              RegisterLogger, Pause, SinkCheck, Send, SinkPause, Finish, Abandon, Return, GoTo
<1>5. CASE \E p \in PartitionKey : SessionLost(p) \/ OtherMember(p)
  BY <1>5 DEF PoolStep, SessionLost, OtherMember, pipelineVars
<1> QED
  BY <1>1, <1>2, <1>3, <1>4, <1>5 DEF Next, Terminated

PoolInv ==
    /\ thread \in [Worker -> {"ready", "asleep", "busy", "exited"}]
    /\ stopped \in BOOLEAN
    /\ stopped => queue = <<>>
    /\ SomeoneAwake

LEMMA PoolKeeps ==
    ASSUME PoolInv, [Next]_vars
    PROVE  PoolInv'
<1> USE DEF PoolInv, SomeoneAwake
<1>1. CASE Crash \/ PipelineReset
  BY <1>1 DEF Crash, PipelineReset
<1>2. ASSUME NEW ticket, Submit(ticket) PROVE PoolInv'
  <2>1. CASE Asleep = {} /\ UNCHANGED thread
    <3>1. \A w \in Worker : thread'[w] # "asleep"
      BY <2>1 DEF Asleep
    <3>2. Worker # {}
      BY PoolAssumption
    <3> QED
      BY <1>2, <2>1, <3>1, <3>2 DEF Submit, Accepts
  <2>2. ASSUME NEW w \in Asleep, thread' = [thread EXCEPT ![w] = "ready"] PROVE PoolInv'
    <3>1. w \in Worker /\ thread'[w] = "ready"
      BY <2>2 DEF Asleep
    <3> QED
      BY <1>2, <2>2, <3>1 DEF Submit, Accepts
  <2> QED
    BY <1>2, <2>1, <2>2 DEF Submit
<1>3. CASE StopPool
  BY <1>3 DEF StopPool
<1>4. ASSUME NEW w \in Worker,
             RequestStop(w) \/ FallAsleep(w) \/ LeaveLoop(w) \/ TaskReturns(w)
      PROVE  PoolInv'
  <2>1. CASE RequestStop(w)
    <3>1. \A v \in Worker : thread[v] # "asleep" => thread'[v] # "asleep"
      BY <2>1 DEF RequestStop
    <3> QED
      BY <2>1, <3>1 DEF RequestStop
  <2>2. CASE FallAsleep(w)
    BY <2>2 DEF FallAsleep
  <2>3. CASE LeaveLoop(w) \/ TaskReturns(w)
    <3>1. \A v \in Worker : thread[v] # "asleep" => thread'[v] # "asleep"
      BY <2>3 DEF LeaveLoop, TaskReturns
    <3> QED
      BY <2>3, <3>1 DEF LeaveLoop, TaskReturns
  <2> QED
    BY <1>4, <2>1, <2>2, <2>3
<1>5. ASSUME NEW w \in Worker, TakeTask(w) PROVE PoolInv'
  <2>1. thread'[w] = "busy" /\ ~stopped
    BY <1>5 DEF TakeTask
  <2> QED
    BY <1>5, <2>1 DEF TakeTask
<1>6. CASE UNCHANGED poolVars
  BY <1>6 DEF poolVars
<1> QED
  BY <1>1, <1>2, <1>3, <1>4, <1>5, <1>6, PoolSteps DEF PoolStep

LEMMA PoolInvariant == Spec => []PoolInv
<1>1. Init => PoolInv
  BY DEF Init, PipelineInit, PoolInit, PoolInv, SomeoneAwake
<1>2. PoolInv /\ [Next]_vars => PoolInv'
  BY PoolKeeps
<1> QED
  BY <1>1, <1>2, PTL DEF Spec

(* No lost wakeup in WorkerPool: trySubmit pushes and notifies under one   *)
(* mutex with the wait predicate, so a queued ticket never waits with      *)
(* every thread asleep in condition.wait.                                  *)
THEOREM NoLostWakeup == Spec => []SomeoneAwake
BY PoolInvariant, PTL DEF PoolInv

(* A thread that stop() has not asked yet begins nothing any more, because *)
(* the queue was emptied under the mutex before and takes nothing since.   *)
THEOREM StoppedPoolBeginsNothing == Spec => NothingBeginsAfterStop
<1>1. ConsumerInv /\ PoolInv /\ [Next]_vars =>
         [stopped => \A w \in Worker : task'[w] \in {task[w], NoTask}]_vars
  <2> SUFFICES ASSUME ConsumerInv, PoolInv, [Next]_vars, stopped, NEW w \in Worker
               PROVE  task'[w] \in {task[w], NoTask}
    OBVIOUS
  <2>1. queue = <<>> /\ task \in [Worker -> RecordTicket \cup {NoTask}]
    BY DEF PoolInv, ConsumerInv, WorkersInv
  <2>2. CASE Crash \/ PipelineReset
    BY <2>2 DEF Crash, PipelineReset
  <2>3. CASE PoolStep
    BY <2>1, <2>3 DEF PoolStep, Submit, StopPool, RequestStop, FallAsleep, TakeTask, LeaveLoop,
                      TaskReturns, poolVars
  <2> QED
    BY <2>2, <2>3, PoolSteps
<1> QED
  BY <1>1, ConsumerInvariant, PoolInvariant, PTL DEF Spec, NothingBeginsAfterStop

-----------------------------------------------------------------------------
(* Backpressure *)

(* The client is paused only while _paused says so: every pause() sets the *)
(* flag, every resume() that clears it resumes all, and a rebalance only   *)
(* takes paused partitions away.                                           *)
THEOREM NoForgottenPause == Spec => []PausesRemembered
<1> DEFINE Inv == pausedFlag \in BOOLEAN /\ PausesRemembered
<1>1. Init => Inv
  BY DEF Init, VolatileInit, PausesRemembered
<1>2. ASSUME Inv, [Next]_vars PROVE Inv'
  <2> USE DEF PausesRemembered
  <2>1. CASE UNCHANGED vars
    BY <1>2, <2>1 DEF vars, consumerVars, brokerVars
  <2>2. CASE ReaderStep
    <3>1. ASSUME NEW drained \in BOOLEAN, Backpressure(drained) PROVE Inv'
      BY <1>2, <3>1 DEF Backpressure
    <3>2. ASSUME NEW S, NEW ok, NEW to, PollRevoked(S, ok, to) PROVE Inv'
      BY <1>2, <3>2 DEF PollRevoked, OnRevoked
    <3> QED
      BY <1>2, <2>2, <3>1, <3>2
         DEF ReaderStep, SubscribeReturns, SubscribeFails, Poll, PollAssigned, IngestOne, IngestEnds, Pump,
             KafkaException, Backoff, CommitSkipped, Collect, Sync, Confirm,
             consumerVars, brokerVars
  <2>3. CASE StopStep \/ RequestReaderStop
    BY <1>2, <2>3 DEF StopStep, LeaveReader, StopThreads, StopThread, PipelineStopped, Close, OnRevoked,
                RequestReaderStop, consumerVars, brokerVars
  <2>4. CASE (\E w \in Worker : WorkerStep(w)) \/ Crash
             \/ \E p \in PartitionKey : SessionLost(p) \/ OtherMember(p)
    BY <1>2, <2>4 DEF WorkerStep, Crash, SessionLost, OtherMember, consumerVars, brokerVars
  <2> QED
    BY <1>2, <2>1, <2>2, <2>3, <2>4 DEF Next, Terminated
<1> QED
  BY <1>1, <1>2, PTL DEF Spec

(* How much may wait: a poll's records, and another poll's for every       *)
(* exception that kept the partitions from being paused.  Outside ingest   *)
(* and pump no more than that is there already, or nothing is read; while  *)
(* start() subscribes nothing was read yet.                                *)
Allowance == MaxPoll * faults

BackpressureInv ==
    /\ faults \in Nat
    /\ Len(backlog) + Len(batch) <= Allowance + MaxPoll
    /\ ctl \notin {"ingest", "pump"} => Assigned \subseteq pausedAt \/ Len(backlog) <= Allowance
    /\ ctl = "start" => Len(backlog) = 0

LEMMA AllowanceFacts ==
    ASSUME faults \in Nat
    PROVE  /\ Allowance \in Nat
           /\ MaxPoll * (1 + faults) = Allowance + MaxPoll
           /\ faults' = faults + 1 => Allowance' = Allowance + MaxPoll
           /\ faults' = faults => Allowance' = Allowance
BY ConsumerAssumption DEF Allowance

LEMMA LengthFacts ==
    ASSUME ConsumerInv
    PROVE  Len(backlog) \in Nat /\ Len(batch) \in Nat
BY DEF ConsumerInv, WorkersInv, ReaderInv, ReaderTypes

(* A step that reads nothing.                                              *)
LEMMA NothingRead ==
    ASSUME ConsumerInv, ConsumerInv', BackpressureInv,
           UNCHANGED faults, Len(backlog') <= Len(backlog), Len(batch') <= Len(batch),
           \A p \in Assigned' : p \notin pausedAt' => p \in Assigned /\ p \notin pausedAt,
           ctl' \notin {"ingest", "pump"} => ctl \notin {"ingest", "pump"},
           ctl' = "start" => ctl = "start"
    PROVE  BackpressureInv'
<1>1. /\ Len(backlog) \in Nat /\ Len(batch) \in Nat
      /\ Len(backlog') \in Nat /\ Len(batch') \in Nat
  <2>1. WorkersInv' /\ ReaderInv'
    BY DEF ConsumerInv
  <2>2. backlog' \in Seq(RecordTicket)
    BY <2>1 DEF WorkersInv
  <2>3. batch' \in Seq(PartitionKey \X Nat)
    BY <2>1 DEF ReaderInv, ReaderTypes
  <2> QED
    BY <2>2, <2>3, LengthFacts
<1>2. /\ Allowance' = Allowance /\ Allowance \in Nat /\ faults \in Nat /\ MaxPoll \in Nat
      /\ Len(backlog) + Len(batch) <= Allowance + MaxPoll
  BY AllowanceFacts, ConsumerAssumption DEF BackpressureInv
<1>3. Len(backlog') + Len(batch') <= Allowance' + MaxPoll
  BY <1>1, <1>2
<1>4. Assigned \subseteq pausedAt => Assigned' \subseteq pausedAt'
  OBVIOUS
<1>5. Len(backlog) <= Allowance => Len(backlog') <= Allowance'
  BY <1>1, <1>2
<1>6. Len(backlog) = 0 => Len(backlog') = 0
  BY <1>1
<1> QED
  BY <1>2, <1>3, <1>4, <1>5, <1>6 DEF BackpressureInv

LEMMA FetchBounded ==
    ASSUME ConsumerInv, BackpressureInv, NEW to \in Fetches, ctl = "poll", ctl' = "ingest",
           batch' \in Deliveries(Fetched(to)), Len(backlog') \in Nat,
           Len(backlog') <= Len(backlog), UNCHANGED faults
    PROVE  BackpressureInv'
<1>1. readFrom \in [PartitionKey -> Nat] /\ Assigned \subseteq PartitionKey /\ batch = <<>>
  BY DEF ConsumerInv, ReaderInv, ReaderTypes, ReaderPlace, Assigned
<1>2. /\ IsFiniteSet(Fetched(to)) /\ Fetched(to) \subseteq PartitionKey \X Nat
      /\ to \in [PartitionKey -> Nat]
  BY <1>1, FetchFacts
<1>3. PICK n \in Nat : n = Cardinality(Fetched(to))
  BY <1>2, FS_CardinalityType
<1>4. PICK r : r = batch'
  OBVIOUS
<1>5. Len(r) = n
  BY <1>2, <1>3, <1>4, DeliveryFacts
<1>6. n <= MaxPoll
  BY <1>3 DEF Fetches
<1>7. CASE Assigned \subseteq pausedAt
  <2>1. \A p \in PartitionKey : to[p] = readFrom[p]
    BY <1>7 DEF Fetches, Fetchable
  <2>2. Fetched(to) = {}
    BY <1>1, <2>1 DEF Fetched
  <2>3. n = 0
    BY <1>3, <2>2, FS_EmptySet
  <2>4. /\ Allowance' = Allowance /\ Allowance \in Nat /\ faults \in Nat /\ MaxPoll \in Nat
        /\ Len(backlog) \in Nat /\ Len(batch) \in Nat
        /\ Len(backlog) + Len(batch) <= Allowance + MaxPoll
    BY AllowanceFacts, LengthFacts, ConsumerAssumption DEF BackpressureInv
  <2>5. Len(backlog') + Len(r) <= Allowance + MaxPoll
    BY <1>5, <2>3, <2>4
  <2> QED
    BY <1>4, <2>4, <2>5 DEF BackpressureInv
<1>8. CASE Len(backlog) <= Allowance
  <2>1. /\ Allowance' = Allowance /\ Allowance \in Nat /\ faults \in Nat /\ MaxPoll \in Nat
        /\ Len(backlog) \in Nat
    BY AllowanceFacts, LengthFacts, ConsumerAssumption DEF BackpressureInv
  <2>2. Len(backlog') + Len(r) <= Allowance + MaxPoll
    BY <1>5, <1>6, <1>8, <2>1
  <2> QED
    BY <1>4, <2>1, <2>2 DEF BackpressureInv
<1> QED
  BY <1>7, <1>8 DEF BackpressureInv

LEMMA IngestBounded ==
    ASSUME ConsumerInv, BackpressureInv, IngestOne
    PROVE  BackpressureInv'
<1>1. /\ batch # <<>> /\ batch' = Tail(batch) /\ ctl = "ingest" /\ UNCHANGED <<ctl, faults>>
      /\ \/ backlog' = backlog
         \/ \E x : backlog' = Append(backlog, x)
  BY DEF IngestOne, Ingest, boundVars
<1>2. /\ batch \in Seq(PartitionKey \X Nat) /\ backlog \in Seq(RecordTicket)
      /\ Len(batch) \in Nat /\ Len(backlog) \in Nat
  BY DEF ConsumerInv, WorkersInv, ReaderInv, ReaderTypes
<1>3. Len(batch') = Len(batch) - 1
  BY <1>1, <1>2
<1>4. Len(backlog') \in Nat /\ Len(backlog') <= Len(backlog) + 1
  <2>1. \A x : Len(Append(backlog, x)) = Len(backlog) + 1
    BY <1>2
  <2> QED
    BY <1>1, <1>2, <2>1
<1>5. /\ Allowance' = Allowance /\ Allowance \in Nat /\ faults \in Nat /\ MaxPoll \in Nat
      /\ Len(backlog) + Len(batch) <= Allowance + MaxPoll
  BY <1>1, AllowanceFacts, ConsumerAssumption DEF BackpressureInv
<1>6. Len(backlog') + Len(batch') <= Allowance' + MaxPoll
  BY <1>2, <1>3, <1>4, <1>5
<1> QED
  BY <1>1, <1>5, <1>6 DEF BackpressureInv

LEMMA BackpressureKeeps ==
    ASSUME ConsumerInv, ConsumerInv', BackpressureInv, [Next]_vars
    PROVE  BackpressureInv'
<1> USE DEF pipelineVars, registryVars, poolVars, executorVars, consumerVars, brokerVars, boundVars
<1>1. /\ backlog \in Seq(RecordTicket) /\ batch \in Seq(PartitionKey \X Nat)
      /\ Len(backlog) \in Nat /\ Len(batch) \in Nat
      /\ Len(backlog') \in Nat /\ Len(batch') \in Nat
      /\ ctl # "ingest" => batch = <<>>
      /\ owned \subseteq Assigned
  BY LengthFacts DEF ConsumerInv, WorkersInv, ReaderInv, ReaderTypes, ReaderPlace
<1>2. /\ faults \in Nat /\ MaxPoll \in Nat /\ Allowance \in Nat
      /\ faults' = faults + 1 => Allowance' = Allowance + MaxPoll
      /\ faults' = faults => Allowance' = Allowance
      /\ Len(backlog) + Len(batch) <= Allowance + MaxPoll
  BY AllowanceFacts, ConsumerAssumption DEF BackpressureInv
<1>3. Len(<<>>) = 0
  OBVIOUS
<1>4. ASSUME NEW S, NEW ok \in BOOLEAN, OnRevoked(S, ok)
      PROVE  /\ Len(backlog') <= Len(backlog)
             /\ Assigned' = Assigned \ S /\ pausedAt' = pausedAt \ S
  <2>1. PICK r : r = backlog'
    OBVIOUS
  <2>2. r \in Erased(S, backlog)
    BY <1>4, <2>1 DEF OnRevoked, onPartitionsRevoked
  <2> QED
    BY <1>1, <1>4, <2>1, <2>2, ErasedFacts, RevokedFacts DEF OnRevoked
<1>5. CASE ReaderStep
  <2>1. CASE SubscribeReturns \/ SubscribeFails
    <3>1. CASE UNCHANGED pipelineVars
      BY <1>1, <2>1, <3>1, NothingRead DEF SubscribeReturns, SubscribeFails, Subscribing, Assigned
    <3>2. CASE ~UNCHANGED pipelineVars
      <4>1. PipelineReset /\ UNCHANGED <<batch, faults>> /\ ctl = "start" /\ ctl' = "failed"
        BY <2>1, <3>2 DEF SubscribeReturns, SubscribeFails, Subscribing
      <4>2. backlog' = <<>> /\ batch' = <<>>
        BY <1>1, <4>1 DEF PipelineReset
      <4>3. Len(backlog') <= Allowance' /\ Len(backlog') + Len(batch') <= Allowance' + MaxPoll
        BY <1>2, <1>3, <4>1, <4>2
      <4> QED
        BY <1>2, <4>1, <4>3 DEF BackpressureInv
    <3> QED
      BY <3>1, <3>2
  <2>2. ASSUME NEW to \in Fetches, Poll(to) PROVE BackpressureInv'
    BY <1>1, <2>2, FetchBounded DEF Poll, LoopEntered
  <2>3. ASSUME NEW ps, PollAssigned(ps) PROVE BackpressureInv'
    <3>1. /\ UNCHANGED <<backlog, batch, faults>>
          /\ \/ ctl' = "pump"
             \/ ctl = "start" /\ ctl' = "start"
      BY <2>3 DEF PollAssigned, Subscribing, onPartitionsAssigned
    <3>2. ctl = "start" => Len(backlog) = 0
      BY DEF BackpressureInv
    <3>3. /\ Len(backlog') + Len(batch') <= Allowance' + MaxPoll
          /\ ctl' = "start" => Len(backlog') = 0 /\ Len(backlog') <= Allowance'
      BY <1>1, <1>2, <3>1, <3>2
    <3> QED
      BY <1>2, <3>1, <3>3 DEF BackpressureInv
  <2>4. ASSUME NEW S \in SUBSET Assigned, NEW ok \in BOOLEAN, NEW to \in Fetches,
               PollRevoked(S, ok, to)
        PROVE  BackpressureInv'
    <3>1. /\ Len(backlog') <= Len(backlog) /\ Assigned' = Assigned \ S
          /\ pausedAt' = pausedAt \ S /\ UNCHANGED faults
          /\ batch' \in Deliveries(Fetched(to))
      BY <1>4, <2>4 DEF PollRevoked
    <3>2. CASE ctl # "start"
      <4>1. ctl = "poll" /\ ctl' = "ingest"
        BY <2>4, <3>2 DEF PollRevoked, InClientCall, Subscribing, LoopEntered
      <4> QED
        BY <1>1, <3>1, <4>1, FetchBounded
    <3>3. CASE ctl = "start"
      <4>1. ctl' = "start" /\ to = readFrom
        BY <2>4, <3>3 DEF PollRevoked, InClientCall, Subscribing, LoopEntered
      <4>2. batch' = <<>>
        BY <3>1, <4>1, NothingFetched DEF ConsumerInv
      <4>3. Len(batch') <= Len(batch)
        BY <1>1, <1>3, <4>2
      <4> QED
        BY <3>1, <3>3, <4>1, <4>3, NothingRead
    <3> QED
      BY <3>2, <3>3
  <2>5. CASE IngestEnds
    BY <1>1, <1>2, <2>5 DEF IngestEnds, BackpressureInv
  <2>6. CASE Pump
    <3>1. Len(backlog') = Len(backlog) - 1
      BY <1>1, <2>6 DEF Pump, PumpOne
    <3>2. Len(backlog') <= Len(backlog)
      BY <1>1, <3>1
    <3> QED
      BY <1>1, <2>6, <3>2, NothingRead DEF Pump, PumpOne, Assigned
  <2>7. ASSUME NEW drained \in BOOLEAN, Backpressure(drained) PROVE BackpressureInv'
    <3>1. /\ UNCHANGED <<backlog, batch, faults, partitions>> /\ ctl' = "collect"
          /\ backlog = <<>> \/ pausedAt' = Assigned
      BY <2>7 DEF Backpressure, PumpEnds
    <3>2. Assigned' = Assigned
      BY <3>1 DEF Assigned
    <3> QED
      BY <1>2, <1>3, <3>1, <3>2 DEF BackpressureInv
  <2>8. CASE KafkaException
    <3>1. /\ UNCHANGED <<backlog, batch>> /\ faults' = faults + 1 /\ ctl' = "backoff"
          /\ batch = <<>>
      BY <1>1, <2>8 DEF KafkaException, LoopEntered
    <3>2. Len(backlog') <= Allowance' /\ Len(backlog') + Len(batch') <= Allowance' + MaxPoll
      BY <1>1, <1>2, <1>3, <3>1
    <3> QED
      BY <1>2, <3>1, <3>2 DEF BackpressureInv
  <2>9. CASE Backoff \/ CommitSkipped \/ Collect
    BY <1>1, <2>9, NothingRead DEF Backoff, CommitSkipped, Collect, AfterCommit, Assigned
  <2>10. ASSUME NEW ok \in BOOLEAN, Sync(ok) PROVE BackpressureInv'
    BY <1>1, <2>10, NothingRead DEF Sync, AfterCommit, Assigned
  <2>11. CASE Confirm
    <3>1. Assigned' = Assigned
      BY <2>11 DEF Confirm, ConfirmAll, Assigned
    <3> QED
      BY <1>1, <2>11, <3>1, NothingRead DEF Confirm, ConfirmAll, AfterCommit
  <2> QED
    BY <1>5, <2>1, <2>2, <2>3, <2>4, <2>5, <2>6, <2>7, <2>8, <2>9, <2>10, <2>11, IngestBounded
       DEF ReaderStep
<1>6. CASE StopStep \/ RequestReaderStop
  <2>1. CASE LeaveReader \/ StopThreads \/ RequestReaderStop
    BY <1>1, <2>1, NothingRead DEF LeaveReader, StopThreads, StopBegins, RequestReaderStop, Assigned
  <2>2. ASSUME NEW w, StopThread(w) PROVE BackpressureInv'
    BY <1>1, <2>2, NothingRead DEF StopThread, Assigned
  <2>3. CASE PipelineStopped
    BY <1>1, <1>3, <2>3, NothingRead DEF PipelineStopped, StopEnds, Assigned
  <2>4. ASSUME NEW ok \in BOOLEAN, Close(ok) PROVE BackpressureInv'
    BY <1>1, <1>4, <2>4, NothingRead DEF Close
  <2> QED
    BY <1>6, <2>1, <2>2, <2>3, <2>4 DEF StopStep
<1>7. ASSUME NEW w \in Worker, WorkerStep(w) PROVE BackpressureInv'
  <2>1. Assigned' = Assigned
    BY <1>7, ExecutorRegistry DEF WorkerStep, Finish, CompleteTicket, Assigned, ConsumerInv,
                                  ReaderInv, ReaderTypes
  <2> QED
    BY <1>1, <1>7, <2>1, NothingRead DEF WorkerStep
<1>8. CASE \E p \in PartitionKey : SessionLost(p) \/ OtherMember(p)
  BY <1>1, <1>8, NothingRead DEF SessionLost, OtherMember, Assigned
<1>9. CASE Crash
  <2>1. /\ backlog' = <<>> /\ batch' = <<>> /\ UNCHANGED faults
    BY <1>9 DEF Crash
  <2>2. Len(backlog') <= Allowance' /\ Len(backlog') + Len(batch') <= Allowance' + MaxPoll
    BY <1>2, <1>3, <2>1
  <2> QED
    BY <1>2, <2>1, <2>2 DEF BackpressureInv
<1>10. CASE UNCHANGED vars
  BY <1>1, <1>10, NothingRead DEF vars, Assigned
<1> QED
  BY <1>5, <1>6, <1>7, <1>8, <1>9, <1>10 DEF Next, Terminated

(* Backpressure bounds the backlog: after a poll whose records do not all  *)
(* fit into the pool's queue every assigned partition is paused, so that   *)
(* the next poll brings nothing, unless pause() threw in between.          *)
THEOREM BacklogNeverOutgrowsPolls == Spec => []BacklogBounded
<1>1. Init => BackpressureInv
  <2> SUFFICES ASSUME Init PROVE BackpressureInv
    OBVIOUS
  <2>1. faults = 0 /\ backlog = <<>> /\ batch = <<>>
    BY DEF Init, PipelineInit, VolatileInit
  <2>2. Allowance \in Nat /\ MaxPoll \in Nat
    BY <2>1, ConsumerAssumption DEF Allowance
  <2>3. Len(backlog) = 0 /\ Len(batch) = 0
    BY <2>1
  <2> QED
    BY <2>1, <2>2, <2>3 DEF BackpressureInv
<1>2. ConsumerInv /\ ConsumerInv' /\ BackpressureInv /\ [Next]_vars => BackpressureInv'
  BY BackpressureKeeps
<1>3. ConsumerInv /\ BackpressureInv => BacklogBounded
  <2> SUFFICES ASSUME ConsumerInv, BackpressureInv PROVE BacklogBounded
    OBVIOUS
  <2>1. /\ MaxPoll * (1 + faults) = Allowance + MaxPoll /\ Allowance \in Nat /\ MaxPoll \in Nat
        /\ Len(backlog) + Len(batch) <= Allowance + MaxPoll
    BY AllowanceFacts, ConsumerAssumption DEF BackpressureInv
  <2> QED
    BY <2>1, LengthFacts DEF BacklogBounded
<1> QED
  BY <1>1, <1>2, <1>3, ConsumerInvariant, PTL DEF Spec

-----------------------------------------------------------------------------
(* The last commit of stop()                                               *)

(* Confirming the position a tracker offers leaves nothing to offer.       *)
LEMMA ConfirmClears ==
    ASSUME NEW t, NEW registered, NEW completed,
           TrackerInv(t, registered, completed), NEW w \in CommitCandidate(t)
    PROVE  CommitCandidate(ConfirmCommit(t, w)) = {}
<1>1. /\ t \in Tracker /\ Sorted(t) /\ PrefixMaximal(t)
  BY DEF TrackerInv, WellTyped, Consistent
<1>2. w \in Nat /\ \A c \in t.committed : c < w
  BY CandidateFacts
<1>3. \A c \in t.committed : c \in Nat
  BY <1>1, TrackerTypes
<1>4. ~AlreadyCommitted(t, w) /\ ConfirmResult(t, w) = Ok
  <2>1. ~AlreadyCommitted(t, w)
    BY <1>2, <1>3 DEF AlreadyCommitted
  <2>2. w <= w
    BY <1>2
  <2> QED
    BY <2>1, <2>2 DEF ConfirmResult
<1>5. PICK u : u = ConfirmCommit(t, w)
  OBVIOUS
<1>6. PICK n : n = CoveredPrefix(t.entries, w)
  OBVIOUS
<1>7. PICK k : k = t.prefixDone
  OBVIOUS
<1>8. u.prefixDone = k - n
  BY <1>1, <1>4, <1>5, <1>6, <1>7 DEF ConfirmCommit, DropCovered, Tracker
<1>9. u.prefixDone \in Nat
  <2>1. u \in Tracker
    BY <1>2, <1>5, ConfirmInv DEF TrackerInv, WellTyped
  <2> QED
    BY <2>1, TrackerTypes
<1>10. /\ n \in 0..Len(t.entries)
       /\ n < Len(t.entries) => t.entries[n + 1].offset >= w
  BY <1>1, <1>2, <1>6, DropCoveredExit, TrackerTypes
<1>11. k \in 1..Len(t.entries) /\ w = t.entries[k].offset + 1
  BY <1>1, <1>7, TrackerTypes DEF CommitCandidate, PrefixMaximal
<1>12. ~(n < k)
  <2> SUFFICES ASSUME n < k PROVE FALSE
    OBVIOUS
  <2>1. n + 1 \in 1..Len(t.entries) /\ (n + 1 = k \/ n + 1 < k) /\ n < Len(t.entries)
    BY <1>10, <1>11
  <2>2. n + 1 < k => t.entries[n + 1].offset < t.entries[k].offset
    BY <1>1, <1>11, <2>1 DEF Sorted
  <2>3. t.entries[n + 1].offset \in Nat /\ t.entries[k].offset \in Nat
    BY <1>1, <1>11, <2>1, TrackerTypes
  <2>4. n + 1 = k => t.entries[n + 1].offset < w
    BY <1>11, <2>3
  <2>5. n + 1 < k => t.entries[n + 1].offset < w
    <3>1. PICK a \in Nat, b \in Nat : a = t.entries[n + 1].offset /\ b = t.entries[k].offset
      BY <2>3
    <3>2. n + 1 < k => a < b
      BY <2>2, <3>1
    <3>3. w = b + 1
      BY <1>11, <3>1
    <3>4. n + 1 < k => a < w
      BY <3>2, <3>3
    <3> QED
      BY <3>1, <3>4
  <2>6. t.entries[n + 1].offset < w
    BY <2>1, <2>4, <2>5
  <2>7. w \in Nat
    BY <1>11, <2>3
  <2>8. t.entries[n + 1].offset >= w
    BY <1>10, <2>1
  <2> QED
    BY <2>3, <2>6, <2>7, <2>8
<1>13. u.prefixDone = 0
  BY <1>8, <1>9, <1>10, <1>11, <1>12
<1> QED
  BY <1>5, <1>13 DEF CommitCandidate

(* Once the pool is stopped and its threads have left, nobody completes    *)
(* records any more, and what is committed is all there is to commit.      *)
LastCommitInv ==
    /\ \A w \in Worker : step[w] # Idle => thread[w] = "busy"
    /\ stopped => ctl \in {"join", "collect", "sync", "confirm", "close", "closed", "failed"}
    /\ stopped /\ ctl # "join" => Joined
    /\ stopped /\ ctl \in {"sync", "confirm"} => positions = commitCandidates

LEMMA NobodyWorks ==
    ASSUME LastCommitInv, Joined, NEW w \in Worker
    PROVE  ~ExecutorStep(w)
<1>1. thread[w] = "exited" /\ step[w] = Idle
  BY DEF LastCommitInv, Joined
<1> QED
  BY <1>1 DEF ExecutorStep, BeginExecute, TakeTask, CheckAttempt, Invoke, RegisterLogger, Pause,
              SinkCheck, Send, SinkPause, Finish, FallAsleep, LeaveLoop, Idle

LEMMA ThreadsBusy ==
    ASSUME PoolInv, ConsumerInv, LastCommitInv, NEW w \in Worker, ExecutorStep(w)
    PROVE  \A v \in Worker : (step[v] # Idle => thread[v] = "busy")'
<1>1. /\ thread \in [Worker -> {"ready", "asleep", "busy", "exited"}]
      /\ step \in [Worker -> Places]
      /\ \A v \in Worker : step[v] # Idle => thread[v] = "busy"
  BY DEF PoolInv, ConsumerInv, WorkersInv, LastCommitInv
<1>2. CASE BeginExecute(w)
  BY <1>1, <1>2 DEF BeginExecute, TakeTask
<1>3. CASE Return(w)
  BY <1>1, <1>3 DEF Return, TaskReturns
<1>4. ASSUME NEW place, GoTo(w, place), step[w] # Idle
      PROVE  \A v \in Worker : (step[v] # Idle => thread[v] = "busy")'
  BY <1>1, <1>4 DEF GoTo, poolVars
<1>5. CASE (FallAsleep(w) \/ LeaveLoop(w)) /\ UNCHANGED executorVars
  BY <1>1, <1>5 DEF FallAsleep, LeaveLoop, executorVars
<1> QED
  BY <1>2, <1>3, <1>4, <1>5
     DEF ExecutorStep, CheckAttempt, Invoke, RegisterLogger, Pause, SinkCheck, Send, SinkPause,
         Finish, Abandon, Idle

(* A step that leaves the threads and the registry alone.                  *)
LEMMA LastCommitQuiet ==
    ASSUME LastCommitInv, UNCHANGED <<step, thread, stopped, partitions, positions>>,
           stopped => ctl' \in {"join", "collect", "sync", "confirm", "close", "closed", "failed"},
           stopped /\ ctl' # "join" => ctl # "join",
           stopped /\ ctl' \in {"sync", "confirm"} => ctl \in {"sync", "confirm"}
    PROVE  LastCommitInv'
<1>1. commitCandidates' = commitCandidates
  BY DEF commitCandidates, Candidates, PositionOf
<1>2. Joined => Joined'
  BY DEF Joined
<1> QED
  BY <1>1, <1>2 DEF LastCommitInv

LEMMA LastCommitKeeps ==
    ASSUME PoolInv, ConsumerInv, LastCommitInv, [Next]_vars
    PROVE  LastCommitInv'
<1> USE DEF pipelineVars, registryVars, poolVars, executorVars, consumerVars, brokerVars, boundVars
<1>1. /\ stopped => ctl \in {"join", "collect", "sync", "confirm", "close", "closed", "failed"}
      /\ stopped /\ ctl # "join" => Joined
      /\ stopped \in BOOLEAN
      /\ \A w \in Worker : step[w] # Idle => thread[w] = "busy"
  BY DEF LastCommitInv, PoolInv
<1>2. ASSUME NEW S, NEW ok, ctl' \in {"ingest", "start", "closed"}, ctl # "join", OnRevoked(S, ok),
             stopped => ctl' = "closed"
      PROVE  LastCommitInv'
  <2>1. UNCHANGED <<step, thread, stopped>>
    BY <1>2 DEF OnRevoked, onPartitionsRevoked
  <2>2. Joined => Joined'
    BY <2>1 DEF Joined
  <2> QED
    BY <1>1, <1>2, <2>1, <2>2 DEF LastCommitInv
<1>3. CASE ReaderStep
  <2>1. CASE SubscribeReturns \/ SubscribeFails
    <3>1. CASE UNCHANGED pipelineVars
      BY <1>1, <2>1, <3>1, LastCommitQuiet DEF SubscribeReturns, SubscribeFails, Subscribing
    <3>2. CASE ~UNCHANGED pipelineVars
      <4>1. PipelineReset /\ ctl' = "failed"
        BY <2>1, <3>2 DEF SubscribeReturns, SubscribeFails
      <4> QED
        BY <4>1 DEF PipelineReset, LastCommitInv, Joined
    <3> QED
      BY <3>1, <3>2
  <2>2. ASSUME NEW to \in Fetches, Poll(to) PROVE LastCommitInv'
    BY <1>1, <2>2, LastCommitQuiet DEF Poll, LoopEntered
  <2>3. ASSUME NEW ps, PollAssigned(ps) PROVE LastCommitInv'
    <3>1. UNCHANGED <<step, thread, stopped>> /\ ~stopped
      BY <1>1, <2>3 DEF PollAssigned, InClientCall, Subscribing, LoopEntered, onPartitionsAssigned
    <3> QED
      BY <1>1, <3>1 DEF LastCommitInv
  <2>4. ASSUME NEW S, NEW ok, NEW to, PollRevoked(S, ok, to) PROVE LastCommitInv'
    BY <1>1, <1>2, <2>4 DEF PollRevoked, InClientCall, Subscribing, LoopEntered
  <2>5. CASE IngestOne \/ Pump
    <3>1. /\ UNCHANGED <<step, stopped>> /\ ~stopped
          /\ \A w \in Worker : thread[w] = "busy" => thread'[w] = "busy"
      BY <1>1, <2>5 DEF IngestOne, Ingest, Pump, PumpOne, Submit, Accepts, PoolInv, Asleep
    <3> QED
      BY <1>1, <3>1 DEF LastCommitInv
  <2>6. CASE IngestEnds \/ KafkaException \/ Backoff
    BY <1>1, <2>6, LastCommitQuiet DEF IngestEnds, KafkaException, Backoff, LoopEntered
  <2>7. ASSUME NEW drained \in BOOLEAN, Backpressure(drained) PROVE LastCommitInv'
    BY <1>1, <2>7, LastCommitQuiet DEF Backpressure
  <2>8. CASE CommitSkipped
    BY <1>1, <2>8, LastCommitQuiet DEF CommitSkipped, AfterCommit, Forced
  <2>9. CASE Collect
    <3>1. /\ UNCHANGED <<step, thread, stopped, partitions>> /\ ctl = "collect" /\ ctl' = "sync"
          /\ positions' = commitCandidates
      BY <2>9 DEF Collect
    <3>2. commitCandidates' = commitCandidates
      BY <3>1 DEF commitCandidates, Candidates, PositionOf
    <3>3. Joined => Joined'
      BY <3>1 DEF Joined
    <3> QED
      BY <1>1, <3>1, <3>2, <3>3 DEF LastCommitInv
  <2>10. ASSUME NEW ok \in BOOLEAN, Sync(ok) PROVE LastCommitInv'
    <3>1. CASE ok
      BY <1>1, <2>10, <3>1, LastCommitQuiet DEF Sync
    <3>2. CASE ~ok
      <4>1. /\ UNCHANGED <<step, thread, stopped>> /\ ctl = "sync"
            /\ ctl' = IF stopped THEN "close" ELSE "poll"
        BY <2>10, <3>2 DEF Sync, AfterCommit, Forced
      <4>2. Joined => Joined'
        BY <4>1 DEF Joined
      <4> QED
        BY <1>1, <4>1, <4>2 DEF LastCommitInv
    <3> QED
      BY <3>1, <3>2
  <2>11. CASE Confirm
    <3>1. /\ UNCHANGED <<step, thread, stopped>> /\ ctl = "confirm"
          /\ ctl' = IF stopped THEN "close" ELSE "poll"
      BY <2>11 DEF Confirm, ConfirmAll, AfterCommit, Forced
    <3>2. Joined => Joined'
      BY <3>1 DEF Joined
    <3> QED
      BY <1>1, <3>1, <3>2 DEF LastCommitInv
  <2> QED
    BY <1>3, <2>1, <2>2, <2>3, <2>4, <2>5, <2>6, <2>7, <2>8, <2>9, <2>10, <2>11 DEF ReaderStep
<1>4. CASE StopStep \/ RequestReaderStop
  <2>1. CASE LeaveReader \/ RequestReaderStop
    BY <1>1, <2>1, LastCommitQuiet DEF LeaveReader, RequestReaderStop
  <2>2. CASE StopThreads
    BY <1>1, <2>2 DEF StopThreads, StopBegins, StopPool, LastCommitInv
  <2>3. ASSUME NEW w \in Worker, StopThread(w) PROVE LastCommitInv'
    <3>1. /\ UNCHANGED <<step, stopped, ctl>> /\ ctl = "join"
          /\ \A v \in Worker : thread[v] = "busy" => thread'[v] = "busy"
      BY <2>3 DEF StopThread, RequestStop, PoolInv
    <3> QED
      BY <1>1, <3>1 DEF LastCommitInv
  <2>4. CASE PipelineStopped
    <3>1. UNCHANGED <<step, thread, stopped>> /\ Joined /\ ctl' = "collect"
      BY <2>4 DEF PipelineStopped, StopEnds
    <3>2. Joined'
      BY <3>1 DEF Joined
    <3> QED
      BY <1>1, <3>1, <3>2 DEF LastCommitInv
  <2>5. ASSUME NEW ok \in BOOLEAN, Close(ok) PROVE LastCommitInv'
    BY <1>1, <1>2, <2>5 DEF Close
  <2> QED
    BY <1>4, <2>1, <2>2, <2>3, <2>4, <2>5 DEF StopStep
<1>5. ASSUME NEW w \in Worker, WorkerStep(w) PROVE LastCommitInv'
  <2>1. ExecutorStep(w) /\ UNCHANGED <<ctl, positions>>
    BY <1>5 DEF WorkerStep
  <2>2. ~(stopped /\ ctl # "join")
    BY <1>1, <2>1, NobodyWorks
  <2>3. \A v \in Worker : (step[v] # Idle => thread[v] = "busy")'
    BY <2>1, ThreadsBusy
  <2>4. UNCHANGED stopped
    BY <2>1 DEF ExecutorStep, BeginExecute, TakeTask, CheckAttempt, Invoke, RegisterLogger, Pause,
                SinkCheck, Send, SinkPause, Finish, FallAsleep, LeaveLoop, Abandon, Return,
                TaskReturns, GoTo
  <2> QED
    BY <1>1, <2>1, <2>2, <2>3, <2>4 DEF LastCommitInv
<1>6. CASE \E p \in PartitionKey : SessionLost(p) \/ OtherMember(p)
  BY <1>1, <1>6, LastCommitQuiet DEF SessionLost, OtherMember
<1>7. CASE Crash
  BY <1>7 DEF Crash, LastCommitInv
<1>8. CASE UNCHANGED vars
  BY <1>1, <1>8, LastCommitQuiet DEF vars
<1> QED
  BY <1>3, <1>4, <1>5, <1>6, <1>7, <1>8 DEF Next, Terminated

(* When stop()'s last commit was accepted nothing finished stays behind:   *)
(* the threads are joined before the positions are collected, so that none *)
(* completes a record between the two.                                     *)
THEOREM LastCommitLeavesNothing == Spec => NothingLeftAfterLastCommit
<1>1. Init => LastCommitInv
  BY DEF Init, PipelineInit, PoolInit, ExecutorInit, VolatileInit, LastCommitInv
<1>2. PoolInv /\ ConsumerInv /\ LastCommitInv /\ [Next]_vars => LastCommitInv'
  BY LastCommitKeeps
<1>3. ASSUME ConsumerInv, LastCommitInv, Confirm, ctl' = "close"
      PROVE  commitCandidates' = {}
  <2>1. /\ ctl = "confirm" /\ stopped /\ ConfirmAll(positions)
        /\ positions = Candidates(PartitionKey)
    BY <1>3 DEF Confirm, AfterCommit, Forced, LastCommitInv, commitCandidates
  <2>2. ASSUME NEW p \in Assigned PROVE CommitCandidate(partitions'[p].tracker) = {}
    <3>1. PICK t : t = partitions[p].tracker
      OBVIOUS
    <3>2. PICK mine : mine = {c \in positions : c.partition = p /\ IsCurrent(c)}
      OBVIOUS
    <3>3. PICK c : c = CHOOSE d \in mine : TRUE
      OBVIOUS
    <3>4. partitions'[p] = IF mine = {} THEN partitions[p]
                           ELSE [partitions[p] EXCEPT !.tracker = ConfirmCommit(@, c.offset)]
      BY <2>1, <3>2, <3>3 DEF ConfirmAll, Assigned
    <3>5. p \in PartitionKey /\ partitions[p] \in PartitionState
      BY <1>3 DEF ConsumerInv, ReaderInv, ReaderTypes, Assigned
    <3>6. \A d \in mine : d.offset \in CommitCandidate(t)
      BY <2>1, <3>1, <3>2 DEF Candidates, PositionOf
    <3>7. ASSUME NEW w \in CommitCandidate(t) PROVE mine # {}
      <4>1. PositionOf(p, w) \in positions
        BY <2>1, <3>1, <3>5 DEF Candidates, Assigned
      <4>2. PositionOf(p, w).partition = p /\ IsCurrent(PositionOf(p, w))
        BY DEF PositionOf, IsCurrent, Assigned
      <4> QED
        BY <3>2, <4>1, <4>2
    <3>8. CASE mine = {}
      <4>1. CommitCandidate(t) = {}
        BY <3>7, <3>8
      <4> QED
        BY <3>1, <3>4, <3>8, <4>1
    <3>9. CASE mine # {}
      <4>1. c.offset \in CommitCandidate(t)
        BY <3>3, <3>6, <3>9
      <4>2. PICK r, done : TrackerInv(t, r, done)
        BY <1>3, <3>1 DEF ConsumerInv, ReaderInv, Ownerships, Ownership
      <4>3. CommitCandidate(ConfirmCommit(t, c.offset)) = {}
        BY <4>1, <4>2, ConfirmClears
      <4>4. partitions'[p].tracker = ConfirmCommit(t, c.offset)
        BY <3>1, <3>4, <3>5, <3>9 DEF PartitionState
      <4> QED
        BY <4>3, <4>4
    <3> QED
      BY <3>8, <3>9
  <2>3. DOMAIN partitions' = Assigned
    BY <2>1 DEF ConfirmAll, Assigned
  <2> QED
    BY <2>2, <2>3 DEF commitCandidates, Candidates
<1>4. ConsumerInv /\ LastCommitInv /\ [Next]_vars =>
         [ctl = "confirm" /\ ctl' = "close" => commitCandidates' = {}]_vars
  <2> SUFFICES ASSUME ConsumerInv, LastCommitInv, Next, ctl = "confirm", ctl' = "close"
               PROVE  commitCandidates' = {}
    OBVIOUS
  <2>1. Confirm
    BY DEF Next, Terminated, ReaderStep, SubscribeReturns, SubscribeFails, Subscribing, Poll, PollAssigned, PollRevoked,
           InClientCall, LoopEntered,
           IngestOne, IngestEnds, Pump, Backpressure, KafkaException, Backoff, CommitSkipped,
           Collect, Sync, StopStep, LeaveReader, StopThreads, StopThread, PipelineStopped, Close,
           RequestReaderStop, WorkerStep, SessionLost, OtherMember, Crash, vars, consumerVars
  <2> QED
    BY <1>3, <2>1
<1> QED
  BY <1>1, <1>2, <1>4, PoolInvariant, ConsumerInvariant, PTL DEF Spec, NothingLeftAfterLastCommit

-----------------------------------------------------------------------------
(* A ticket is in one place.  The reader registers each record of an       *)
(* ownership once, so the ticket it makes is one that nobody holds: its    *)
(* offset lies beyond those registered so far, and no ticket of an earlier *)
(* ownership has its generation.                                           *)
Held == Range(backlog) \cup Range(queue) \cup (Range(task) \ {NoTask})

PlacesInv ==
    /\ IsInjective(backlog) /\ IsInjective(queue)
    /\ Range(backlog) \cap Range(queue) = {}
    /\ \A v, w \in Worker : task[v] # NoTask /\ task[v] = task[w] => v = w
    /\ \A w \in Worker : task[w] = NoTask \/ task[w] \notin Range(backlog) \cup Range(queue)

(* The generation of x was given out, and when it is the present one its   *)
(* record was registered.                                                  *)
Known(x) ==
    /\ x.generation <= lastGeneration
    /\ IsCurrent(x) => \E last \in partitions[x.partition].tracker.lastRegistered : x.offset <= last

CurrencyInv ==
    /\ \A p \in Assigned : partitions[p].generation <= lastGeneration
    /\ \A x \in Held : Known(x)
    /\ \A x \in Range(backlog) : IsCurrent(x)

(* Ownerships end, go on with their trackers moving forward, or begin with *)
(* a generation of their own.                                              *)
RegistryContinues ==
    /\ lastGeneration <= lastGeneration'
    /\ \A p \in Assigned' :
          /\ partitions'[p].generation <= lastGeneration'
          /\ \/ lastGeneration < partitions'[p].generation
             \/ /\ p \in Assigned /\ partitions'[p].generation = partitions[p].generation
                /\ \A last \in partitions[p].tracker.lastRegistered :
                      \E next \in partitions'[p].tracker.lastRegistered : last <= next

(* Sequences in which nothing comes twice.                                 *)
LEMMA AppendOnce ==
    ASSUME NEW T, NEW s \in Seq(T), NEW x \in T, IsInjective(s), x \notin Range(s)
    PROVE  IsInjective(Append(s, x)) /\ Range(Append(s, x)) = Range(s) \cup {x}
<1>1. PICK r : r = Append(s, x)
  OBVIOUS
<1>2. /\ DOMAIN s = 1..Len(s) /\ DOMAIN r = 1..(Len(s) + 1) /\ Len(s) \in Nat
      /\ \A i \in 1..Len(s) : r[i] = s[i]
      /\ r[Len(s) + 1] = x
  BY <1>1
<1>3. \A i \in 1..Len(s) : r[i] # x /\ r[i] \in Range(s)
  BY <1>2 DEF Range
<1>4. IsInjective(r)
  <2> SUFFICES ASSUME NEW i \in DOMAIN r, NEW j \in DOMAIN r, r[i] = r[j] PROVE i = j
    BY DEF IsInjective
  <2>1. (i \in 1..Len(s) \/ i = Len(s) + 1) /\ (j \in 1..Len(s) \/ j = Len(s) + 1)
    BY <1>2
  <2> QED
    BY <1>2, <1>3, <2>1 DEF IsInjective
<1>5. Range(r) = Range(s) \cup {x}
  <2>1. \A i \in DOMAIN r : i \in 1..Len(s) \/ i = Len(s) + 1
    BY <1>2
  <2>2. \A y \in Range(r) : y \in Range(s) \/ y = x
    BY <1>2, <1>3, <2>1 DEF Range
  <2>3. \A i \in DOMAIN s : i \in DOMAIN r /\ r[i] = s[i]
    BY <1>2
  <2>4. \A y \in Range(s) : y \in Range(r)
    BY <2>3 DEF Range
  <2>5. Len(s) + 1 \in DOMAIN r /\ r[Len(s) + 1] = x
    BY <1>2
  <2>6. x \in Range(r)
    BY <2>5 DEF Range
  <2> QED
    BY <2>2, <2>4, <2>6
<1> QED
  BY <1>1, <1>4, <1>5

LEMMA TailOnce ==
    ASSUME NEW T, NEW s \in Seq(T), s # <<>>, IsInjective(s)
    PROVE  /\ IsInjective(Tail(s)) /\ Range(Tail(s)) = Range(s) \ {Head(s)}
           /\ Head(s) \in Range(s) /\ Head(s) \in T
<1>1. PICK r : r = Tail(s)
  OBVIOUS
<1>2. PICK x : x = Head(s)
  OBVIOUS
<1>3. /\ DOMAIN s = 1..Len(s) /\ DOMAIN r = 1..(Len(s) - 1) /\ Len(s) \in Nat /\ Len(s) > 0
      /\ \A i \in 1..(Len(s) - 1) : r[i] = s[i + 1] /\ i + 1 \in 1..Len(s) /\ i + 1 # 1
      /\ x = s[1] /\ 1 \in 1..Len(s) /\ x \in T
  BY <1>1, <1>2
<1>4. IsInjective(r)
  <2> SUFFICES ASSUME NEW i \in DOMAIN r, NEW j \in DOMAIN r, r[i] = r[j] PROVE i = j
    BY DEF IsInjective
  <2>1. /\ i \in 1..(Len(s) - 1) /\ j \in 1..(Len(s) - 1)
        /\ s[i + 1] = s[j + 1] /\ i + 1 \in DOMAIN s /\ j + 1 \in DOMAIN s
    BY <1>3
  <2>2. i + 1 = j + 1
    BY <2>1 DEF IsInjective
  <2> QED
    BY <2>1, <2>2
<1>5. \A i \in DOMAIN r : r[i] \in Range(s) /\ r[i] # x
  BY <1>3 DEF Range, IsInjective
<1>6. ASSUME NEW y \in Range(s), y # x PROVE y \in Range(r)
  <2>1. PICK i \in 1..Len(s) : s[i] = y
    BY <1>3 DEF Range
  <2>2. i - 1 \in 1..(Len(s) - 1) /\ (i - 1) + 1 = i
    BY <1>3, <1>6, <2>1
  <2>3. i - 1 \in DOMAIN r /\ r[i - 1] = y
    BY <1>3, <2>1, <2>2
  <2> QED
    BY <2>3 DEF Range
<1>7. Range(r) = Range(s) \ {x}
  BY <1>5, <1>6 DEF Range
<1>8. x \in Range(s)
  BY <1>3 DEF Range
<1> QED
  BY <1>1, <1>2, <1>3, <1>4, <1>7, <1>8

LEMMA ErasedOnce ==
    ASSUME NEW T, NEW items \in Seq(T), NEW S, NEW r \in Erased(S, items), IsInjective(items)
    PROVE  /\ IsInjective(r)
           /\ \A x \in Range(r) : x \in Range(items) /\ x.partition \notin S
<1> DEFINE kept == {i \in DOMAIN items : items[i].partition \notin S}
<1>1. PICK k : k = kept
  OBVIOUS
<1>2. PICK n : n = Cardinality(k)
  OBVIOUS
<1>3. n \in Nat
  <2>1. k \subseteq 1..Len(items) /\ Len(items) \in Nat
    BY <1>1
  <2>2. IsFiniteSet(1..Len(items))
    BY <2>1, FS_Interval
  <2> QED
    BY <1>2, <2>1, <2>2, FS_Subset, FS_CardinalityType
<1>4. PICK f \in [1..n -> k] : /\ \A i, j \in DOMAIN f : i < j => f[i] < f[j]
                              /\ r = [i \in 1..n |-> items[f[i]]]
  <2>1. \E f \in [1..Cardinality(kept) -> kept] :
           /\ \A i, j \in DOMAIN f : i < j => f[i] < f[j]
           /\ r = [i \in 1..Cardinality(kept) |-> items[f[i]]]
    BY DEF Erased
  <2> QED
    BY <1>1, <1>2, <2>1
<1>5. \A i \in k : i \in DOMAIN items /\ items[i].partition \notin S /\ i \in Nat
  BY <1>1
<1> HIDE DEF kept
<1>6. DOMAIN r = 1..n /\ \A i \in 1..n : r[i] = items[f[i]] /\ f[i] \in k
  BY <1>4
<1>7. IsInjective(r)
  <2> SUFFICES ASSUME NEW i \in 1..n, NEW j \in 1..n, r[i] = r[j] PROVE i = j
    BY <1>6 DEF IsInjective
  <2>1. f[i] = f[j] /\ f[i] \in Nat
    BY <1>5, <1>6 DEF IsInjective
  <2>2. ~(i < j) /\ ~(j < i)
    BY <1>3, <1>4, <2>1
  <2> QED
    BY <1>3, <2>2
<1>8. \A x \in Range(r) : x \in Range(items) /\ x.partition \notin S
  BY <1>5, <1>6 DEF Range
<1> QED
  BY <1>7, <1>8

(* What is known of a ticket stays so while the registry goes on.          *)
LEMMA RegistryTypes ==
    ASSUME ConsumerInv
    PROVE  /\ lastGeneration \in Nat
           /\ \A p \in Assigned :
                 /\ partitions[p].generation \in Nat /\ partitions[p].tracker \in Tracker
                 /\ \A last \in partitions[p].tracker.lastRegistered : last \in Nat
<1>1. lastGeneration \in Nat /\ \A p \in Assigned : partitions[p] \in PartitionState
  BY DEF ConsumerInv, ReaderInv, ReaderTypes, Assigned
<1>2. \A p \in Assigned : partitions[p].generation \in Nat /\ partitions[p].tracker \in Tracker
  BY <1>1 DEF PartitionState
<1> QED
  BY <1>1, <1>2, TrackerTypes

LEMMA KnownStays ==
    ASSUME ConsumerInv, ConsumerInv', RegistryContinues, NEW x \in RecordTicket, Known(x)
    PROVE  Known(x)'
<1>1. x.generation \in Nat /\ x.offset \in Nat /\ x.generation <= lastGeneration
  BY DEF RecordTicket, Offset, Known
<1>2. lastGeneration \in Nat /\ lastGeneration' \in Nat /\ lastGeneration <= lastGeneration'
  BY RegistryTypes DEF RegistryContinues, ConsumerInv, ReaderInv, ReaderTypes
<1>3. x.generation <= lastGeneration'
  BY <1>1, <1>2
<1>4. ASSUME IsCurrent(x)'
      PROVE  \E last \in partitions'[x.partition].tracker.lastRegistered : x.offset <= last
  <2>1. PICK p : p = x.partition
    OBVIOUS
  <2>2. p \in Assigned' /\ partitions'[p].generation = x.generation
    BY <1>4, <2>1 DEF IsCurrent, Assigned
  <2>3. /\ p \in Assigned /\ partitions[p].generation = partitions'[p].generation
        /\ \A last \in partitions[p].tracker.lastRegistered :
              \E next \in partitions'[p].tracker.lastRegistered : last <= next
    BY <1>1, <1>2, <2>2 DEF RegistryContinues
  <2>4. PICK last \in partitions[p].tracker.lastRegistered : x.offset <= last
    BY <2>1, <2>2, <2>3 DEF Known, IsCurrent, Assigned
  <2>5. PICK next \in partitions'[p].tracker.lastRegistered : last <= next
    BY <2>3, <2>4
  <2>6. last \in Nat
    BY <2>3, <2>4, RegistryTypes
  <2>7. next \in Nat
    <3>1. partitions'[p] \in PartitionState
      BY <2>2 DEF ConsumerInv, ReaderInv, ReaderTypes, Assigned
    <3>2. partitions'[p].tracker \in Tracker
      BY <3>1 DEF PartitionState
    <3> QED
      BY <2>5, <3>2, TrackerTypes
  <2>8. x.offset <= next
    BY <1>1, <2>4, <2>5, <2>6, <2>7
  <2> QED
    BY <2>1, <2>5, <2>8
<1> QED
  BY <1>3, <1>4 DEF Known

LEMMA HeldAreTickets ==
    ASSUME ConsumerInv
    PROVE  /\ Held \subseteq RecordTicket
           /\ backlog \in Seq(RecordTicket) /\ queue \in Seq(RecordTicket)
           /\ task \in [Worker -> RecordTicket \cup {NoTask}]
<1>1. /\ backlog \in Seq(RecordTicket) /\ queue \in Seq(RecordTicket)
      /\ task \in [Worker -> RecordTicket \cup {NoTask}]
  BY DEF ConsumerInv, WorkersInv
<1>2. Range(backlog) \subseteq RecordTicket /\ Range(queue) \subseteq RecordTicket
  BY <1>1 DEF Range
<1>3. Range(task) \subseteq RecordTicket \cup {NoTask}
  BY <1>1 DEF Range
<1> QED
  BY <1>1, <1>2, <1>3 DEF Held

LEMMA CurrencyKept ==
    ASSUME ConsumerInv, ConsumerInv', CurrencyInv, RegistryContinues,
           \A x : x \in Held' => x \in Held \/ Known(x)',
           \A x : x \in Range(backlog)' => IsCurrent(x)'
    PROVE  CurrencyInv'
<1>1. \A x \in Held' : Known(x)'
  BY KnownStays, HeldAreTickets DEF CurrencyInv
<1> QED
  BY <1>1 DEF CurrencyInv, RegistryContinues

(* The steps of the registry.                                              *)
LEMMA RegistryRests ==
    ASSUME ConsumerInv, CurrencyInv, UNCHANGED registryVars
    PROVE  /\ RegistryContinues
           /\ \A x : IsCurrent(x) => IsCurrent(x)'
<1>1. UNCHANGED <<lastGeneration, partitions, Assigned>>
  BY DEF registryVars, Assigned
<1>2. \A p \in Assigned : \A last \in partitions[p].tracker.lastRegistered : last <= last
  BY RegistryTypes
<1> QED
  BY <1>1, <1>2, RegistryTypes DEF RegistryContinues, CurrencyInv, IsCurrent

(* One tracker moves on.                                                   *)
LEMMA OneTrackerMoves ==
    ASSUME ConsumerInv, CurrencyInv, NEW p \in Assigned, NEW u,
           partitions' = [partitions EXCEPT ![p].tracker = u], UNCHANGED lastGeneration,
           \A last \in partitions[p].tracker.lastRegistered : \E next \in u.lastRegistered : last <= next
    PROVE  /\ RegistryContinues
           /\ \A x : IsCurrent(x) => IsCurrent(x)'
<1>1. partitions \in [Assigned -> PartitionState] /\ DOMAIN partitions = Assigned
  BY DEF ConsumerInv, ReaderInv, ReaderTypes, Assigned
<1>2. /\ DOMAIN partitions' = Assigned /\ Assigned' = Assigned
      /\ \A q \in Assigned : partitions'[q].generation = partitions[q].generation
      /\ \A q \in Assigned \ {p} : partitions'[q] = partitions[q]
      /\ partitions'[p].tracker = u
  <2>1. DOMAIN partitions' = Assigned
    BY <1>1
  <2>2. \A q \in Assigned \ {p} : partitions'[q] = partitions[q]
    BY <1>1
  <2>3. partitions[p] \in PartitionState
    BY <1>1
  <2>4. partitions'[p].generation = partitions[p].generation /\ partitions'[p].tracker = u
    BY <1>1, <2>3 DEF PartitionState
  <2> QED
    BY <2>1, <2>2, <2>4 DEF Assigned
<1>3. \A q \in Assigned : \A last \in partitions[q].tracker.lastRegistered : last <= last
  BY RegistryTypes
<1>4. \A q \in Assigned : partitions'[q].generation <= lastGeneration'
  BY <1>2 DEF CurrencyInv
<1>5. \A q \in Assigned : \A last \in partitions[q].tracker.lastRegistered :
         \E next \in partitions'[q].tracker.lastRegistered : last <= next
  BY <1>2, <1>3
<1>6. lastGeneration <= lastGeneration'
  BY RegistryTypes
<1>7. \A x : IsCurrent(x) => IsCurrent(x)'
  BY <1>1, <1>2 DEF IsCurrent
<1> QED
  BY <1>2, <1>4, <1>5, <1>6, <1>7 DEF RegistryContinues

LEMMA FinishContinues ==
    ASSUME ConsumerInv, CurrencyInv, NEW w \in Worker, Finish(w)
    PROVE  /\ RegistryContinues
           /\ \A x : IsCurrent(x) => IsCurrent(x)'
<1>1. CASE ~IsCurrent(task[w])
  BY <1>1, RegistryRests DEF Finish, CompleteTicket, registryVars
<1>2. CASE IsCurrent(task[w])
  <2>1. PICK p : p = task[w].partition
    OBVIOUS
  <2>2. PICK o : o = task[w].offset
    OBVIOUS
  <2>3. PICK t : t = partitions[p].tracker
    OBVIOUS
  <2>4. PICK u : u = Complete(t, o)
    OBVIOUS
  <2>5. /\ p \in Assigned /\ partitions' = [partitions EXCEPT ![p].tracker = u]
        /\ UNCHANGED lastGeneration
    BY <1>2, <2>1, <2>2, <2>3, <2>4 DEF Finish, CompleteTicket, IsCurrent, Assigned
  <2>6. PICK r, done : TrackerInv(t, r, done)
    BY <2>3, <2>5 DEF ConsumerInv, ReaderInv, Ownerships, Ownership
  <2>7. u.lastRegistered = t.lastRegistered
    BY <2>4, <2>6, CompleteCandidate
  <2>8. \A last \in t.lastRegistered : last <= last
    BY <2>3, <2>5, RegistryTypes
  <2> QED
    BY <2>3, <2>5, <2>7, <2>8, OneTrackerMoves
<1> QED
  BY <1>1, <1>2

LEMMA ConfirmContinues ==
    ASSUME ConsumerInv, CurrencyInv, Confirm
    PROVE  /\ RegistryContinues
           /\ \A x : IsCurrent(x) => IsCurrent(x)'
<1>1. /\ partitions \in [Assigned -> PartitionState] /\ DOMAIN partitions = Assigned
      /\ ConfirmAll(positions) /\ UNCHANGED lastGeneration
  BY DEF ConsumerInv, ReaderInv, ReaderTypes, Assigned, Confirm, ConfirmAll
<1>2. DOMAIN partitions' = Assigned /\ Assigned' = Assigned
  BY <1>1 DEF ConfirmAll, Assigned
<1>3. ASSUME NEW p \in Assigned
      PROVE  /\ partitions'[p].generation = partitions[p].generation
             /\ partitions'[p].tracker.lastRegistered = partitions[p].tracker.lastRegistered
  <2>1. PICK mine : mine = {c \in positions : c.partition = p /\ IsCurrent(c)}
    OBVIOUS
  <2>2. PICK c : c = CHOOSE d \in mine : TRUE
    OBVIOUS
  <2>3. partitions'[p] = IF mine = {} THEN partitions[p]
                         ELSE [partitions[p] EXCEPT !.tracker = ConfirmCommit(@, c.offset)]
    BY <1>1, <2>1, <2>2 DEF ConfirmAll
  <2>4. partitions[p] \in PartitionState /\ partitions[p].tracker \in Tracker
    BY <1>1, RegistryTypes
  <2>5. PICK t : t = partitions[p].tracker
    OBVIOUS
  <2>6. ConfirmCommit(t, c.offset).lastRegistered = t.lastRegistered
    BY <2>4, <2>5, ConfirmCandidate
  <2> QED
    BY <2>3, <2>4, <2>5, <2>6 DEF PartitionState
<1>4. \A p \in Assigned : \A last \in partitions[p].tracker.lastRegistered :
         \E next \in partitions'[p].tracker.lastRegistered : last <= next
  BY <1>3, RegistryTypes
<1>5. lastGeneration <= lastGeneration' /\ \A p \in Assigned : partitions'[p].generation <= lastGeneration'
  BY <1>1, <1>3, RegistryTypes DEF CurrencyInv
<1>6. \A x : IsCurrent(x) => IsCurrent(x)'
  BY <1>1, <1>2, <1>3 DEF IsCurrent
<1> QED
  BY <1>2, <1>3, <1>4, <1>5, <1>6 DEF RegistryContinues

LEMMA RevokeContinues ==
    ASSUME ConsumerInv, CurrencyInv, NEW S, NEW ok \in BOOLEAN, OnRevoked(S, ok)
    PROVE  /\ RegistryContinues
           /\ \A x : IsCurrent(x) /\ x.partition \notin S => IsCurrent(x)'
<1>1. /\ Assigned' = Assigned \ S /\ \A p \in Assigned \ S : partitions'[p] = partitions[p]
      /\ UNCHANGED lastGeneration
  BY RevokedFacts
<1>2. \A p \in Assigned : \A last \in partitions[p].tracker.lastRegistered : last <= last
  BY RegistryTypes
<1>3. RegistryContinues
  BY <1>1, <1>2, RegistryTypes DEF RegistryContinues, CurrencyInv
<1>4. \A x : IsCurrent(x) /\ x.partition \notin S => IsCurrent(x)'
  BY <1>1 DEF IsCurrent, Assigned
<1> QED
  BY <1>3, <1>4

LEMMA AssignContinues ==
    ASSUME ConsumerInv, CurrencyInv, NEW ps \in PartitionLists, PollAssigned(ps)
    PROVE  /\ RegistryContinues
           /\ \A x : IsCurrent(x) => IsCurrent(x)'
<1>1. PICK R : R = Range(ps)
  OBVIOUS
<1>2. /\ Len(ps) \in Nat /\ DOMAIN ps = 1..Len(ps)
      /\ \A p \in R : \E i \in DOMAIN ps : ps[i] = p
  <2>1. PICK n \in 1..Cardinality(PartitionKey) : ps \in [1..n -> PartitionKey]
    BY DEF PartitionLists
  <2>2. n \in Nat
    BY <2>1, ConsumerAssumption, FS_CardinalityType
  <2>3. ps \in Seq(PartitionKey)
    BY <2>1, <2>2
  <2> QED
    BY <1>1, <2>3 DEF Range
<1>3. PICK place : place = [p \in R |-> CHOOSE i \in DOMAIN ps : ps[i] = p]
  OBVIOUS
<1>4. \A p \in R : place[p] \in 1..Len(ps)
  BY <1>2, <1>3
<1>5. /\ R \cap Assigned = {}
      /\ partitions' = [p \in Assigned \cup R |->
                           IF p \in R
                           THEN [generation |-> lastGeneration + place[p], tracker |-> NewTracker]
                           ELSE partitions[p]]
      /\ lastGeneration' = lastGeneration + Len(ps)
  BY <1>1, <1>3 DEF PollAssigned, onPartitionsAssigned, Assign, Assigned
<1>6. /\ DOMAIN partitions' = Assigned \cup R
      /\ \A p \in Assigned : partitions'[p] = partitions[p]
      /\ \A p \in R : partitions'[p].generation = lastGeneration + place[p]
  BY <1>5
<1>7. Assigned' = Assigned \cup R
  BY <1>6 DEF Assigned
<1>8. \A p \in Assigned : \A last \in partitions[p].tracker.lastRegistered : last <= last
  BY RegistryTypes
<1>9. lastGeneration \in Nat /\ lastGeneration <= lastGeneration'
  BY <1>2, <1>5, RegistryTypes
<1>10. ASSUME NEW p \in R
       PROVE  lastGeneration < partitions'[p].generation /\ partitions'[p].generation <= lastGeneration'
  <2>1. PICK g : g = place[p]
    OBVIOUS
  <2>2. g \in 1..Len(ps) /\ partitions'[p].generation = lastGeneration + g
    BY <1>4, <1>6, <2>1
  <2> QED
    BY <1>2, <1>5, <1>9, <2>2
<1>11. ASSUME NEW p \in Assigned PROVE partitions'[p].generation <= lastGeneration'
  <2>1. partitions[p].generation \in Nat /\ partitions[p].generation <= lastGeneration
    BY RegistryTypes DEF CurrencyInv
  <2> QED
    BY <1>2, <1>5, <1>6, <1>9, <2>1
<1>12. RegistryContinues
  BY <1>6, <1>7, <1>8, <1>9, <1>10, <1>11 DEF RegistryContinues
<1>13. \A x : IsCurrent(x) => IsCurrent(x)'
  BY <1>6 DEF IsCurrent, Assigned
<1> QED
  BY <1>12, <1>13

LEMMA IngestedLast ==
    ASSUME ConsumerInv, NEW p \in PartitionKey, NEW o \in Nat, RegisterInResult(p, o) = Ok
    PROVE  /\ p \in Assigned
           /\ IngestedTracker(p, o).lastRegistered = {o}
           /\ \A last \in partitions[p].tracker.lastRegistered : last < o
<1>1. p \in Assigned
  BY DEF RegisterInResult, Assigned, Ok, PartitionNotAssigned
<1>2. PICK t : t = partitions[p].tracker
  OBVIOUS
<1>3. RegisterResult(t, o) = Ok
  BY <1>1, <1>2 DEF RegisterInResult, Assigned
<1>4. PICK r, done : TrackerInv(t, r, done)
  BY <1>1, <1>2 DEF ConsumerInv, ReaderInv, Ownerships, Ownership
<1>5. PICK v : v = Register(t, o)
  OBVIOUS
<1>6. RegisterRecord(partitions[p].tracker, o) = v
  BY <1>2, <1>3, <1>5 DEF RegisterRecord
<1>7. TrackerInv(v, r \cup {o}, done) /\ v.lastRegistered = {o}
  BY <1>3, <1>4, <1>5, RegisterInv, RegisterCandidate
<1>8. Complete(v, o).lastRegistered = {o}
  BY <1>7, CompleteCandidate
<1>9. IngestedTracker(p, o).lastRegistered = {o}
  BY <1>6, <1>7, <1>8 DEF IngestedTracker
<1>10. ASSUME NEW last \in t.lastRegistered PROVE last < o
  <2>1. last \in Nat
    BY <1>1, <1>2, RegistryTypes
  <2>2. ~(o <= last)
    BY <1>3 DEF RegisterResult, Ok, OutOfOrderRegistration
  <2> QED
    BY <2>1, <2>2
<1> QED
  BY <1>1, <1>2, <1>9, <1>10

(* The ticket that ingest makes is one that nobody holds.                  *)
LEMMA IngestFresh ==
    ASSUME ConsumerInv, CurrencyInv, IngestOne
    PROVE  /\ RegistryContinues
           /\ \A x : IsCurrent(x) => IsCurrent(x)'
           /\ \/ backlog' = backlog
              \/ \E x \in RecordTicket : /\ backlog' = Append(backlog, x)
                                         /\ x \notin Held /\ Known(x)' /\ IsCurrent(x)'
<1>1. ReaderTypes /\ ReaderPlace /\ batch # <<>>
  BY DEF ConsumerInv, ReaderInv, IngestOne
<1>2. PICK p \in PartitionKey, o \in Nat, b \in Seq(PartitionKey \X Nat) : BatchSplit(p, o, b)
  BY <1>1, BatchHead
<1>3. Head(batch)[1] = p /\ Head(batch)[2] = o
  BY <1>2 DEF BatchSplit
<1>4. Ingest(p, o) /\ UNCHANGED lastGeneration
  BY <1>3 DEF IngestOne, Ingest
<1>5. CASE RegisterInResult(p, o) # Ok
  BY <1>4, <1>5, RegistryRests DEF Ingest, registryVars
<1>6. CASE RegisterInResult(p, o) = Ok
  <2>1. PICK u : u = IngestedTracker(p, o)
    OBVIOUS
  <2>2. PICK x : x = PositionOf(p, o)
    OBVIOUS
  <2>3. /\ p \in Assigned /\ u.lastRegistered = {o}
        /\ \A last \in partitions[p].tracker.lastRegistered : last < o
    BY <1>6, <2>1, IngestedLast
  <2>4. /\ partitions' = [partitions EXCEPT ![p].tracker = u]
        /\ backlog' = backlog \/ backlog' = Append(backlog, x)
    BY <1>4, <1>6, <2>1, <2>2 DEF Ingest
  <2>5. partitions[p].generation \in Nat /\ partitions[p].generation <= lastGeneration
    BY <2>3, RegistryTypes DEF CurrencyInv
  <2>6. /\ x.partition = p /\ x.offset = o /\ x.generation = partitions[p].generation
        /\ x \in RecordTicket
    BY <2>2, <2>5 DEF PositionOf, RecordTicket, Offset
  <2>7. \A last \in partitions[p].tracker.lastRegistered : last <= o
    BY <2>3, RegistryTypes
  <2>8. \A last \in partitions[p].tracker.lastRegistered : \E next \in u.lastRegistered : last <= next
    BY <2>3, <2>7
  <2>9. RegistryContinues /\ \A y : IsCurrent(y) => IsCurrent(y)'
    BY <1>4, <2>3, <2>4, <2>8, OneTrackerMoves
  <2>10. IsCurrent(x)
    BY <2>3, <2>6 DEF IsCurrent, Assigned
  <2>11. x \notin Held
    <3>1. ASSUME x \in Held PROVE FALSE
      <4>1. PICK last \in partitions[p].tracker.lastRegistered : o <= last
        BY <2>6, <2>10, <3>1 DEF CurrencyInv, Known
      <4>2. last < o /\ last \in Nat
        BY <2>3, <4>1, RegistryTypes
      <4> QED
        BY <4>1, <4>2
    <3> QED
      BY <3>1
  <2>12. partitions'[p].tracker.lastRegistered = {o}
    <3>1. DOMAIN partitions = Assigned /\ partitions[p] \in PartitionState
      BY <2>3 DEF ConsumerInv, ReaderInv, ReaderTypes, Assigned
    <3>2. partitions'[p].tracker = u
      BY <2>3, <2>4, <3>1 DEF PartitionState
    <3> QED
      BY <2>3, <3>2
  <2>13. Known(x)'
    BY <1>4, <2>5, <2>6, <2>12 DEF Known
  <2> QED
    BY <2>4, <2>6, <2>9, <2>10, <2>11, <2>13
<1> QED
  BY <1>5, <1>6

(* Tickets that are dropped, or stay where they are.                       *)
LEMMA TicketsRest ==
    ASSUME ConsumerInv, ConsumerInv', PlacesInv, CurrencyInv, RegistryContinues,
           IsInjective(backlog)', IsInjective(queue)',
           \A x : x \in Range(backlog)' => x \in Range(backlog) /\ IsCurrent(x)',
           \A x : x \in Range(queue)' => x \in Range(queue),
           \A w \in Worker : task'[w] = task[w] \/ task'[w] = NoTask
    PROVE  PlacesInv' /\ CurrencyInv'
<1>1. DOMAIN task = Worker /\ DOMAIN task' = Worker
  BY DEF ConsumerInv, WorkersInv
<1>2. PlacesInv'
  BY DEF PlacesInv
<1>3. \A x : x \in Range(task)' \ {NoTask} => x \in Range(task)
  BY <1>1 DEF Range
<1>4. \A x : x \in Held' => x \in Held
  BY <1>3 DEF Held
<1>5. CurrencyInv'
  BY <1>4, CurrencyKept
<1> QED
  BY <1>2, <1>5

LEMMA TicketsStay ==
    ASSUME ConsumerInv, ConsumerInv', PlacesInv, CurrencyInv, RegistryContinues,
           \A x : IsCurrent(x) => IsCurrent(x)', UNCHANGED <<backlog, queue>>,
           \A w \in Worker : task'[w] = task[w] \/ task'[w] = NoTask
    PROVE  PlacesInv' /\ CurrencyInv'
<1>1. IsInjective(backlog)' /\ IsInjective(queue)'
  BY DEF PlacesInv
<1>2. Range(backlog)' = Range(backlog) /\ Range(queue)' = Range(queue)
  BY DEF Range
<1>3. \A x : x \in Range(backlog)' => x \in Range(backlog) /\ IsCurrent(x)'
  BY <1>2 DEF CurrencyInv
<1> QED
  BY <1>1, <1>2, <1>3, TicketsRest

LEMMA EmptyOnce == IsInjective(<<>>) /\ Range(<<>>) = {}
BY DEF IsInjective, Range

(* The reader's steps that move tickets.                                   *)
LEMMA IngestPlaces ==
    ASSUME ConsumerInv, ConsumerInv', PlacesInv, CurrencyInv, IngestOne
    PROVE  PlacesInv' /\ CurrencyInv'
<1>1. UNCHANGED <<queue, task>>
  BY DEF IngestOne, Ingest, poolVars
<1>2. RegistryContinues /\ \A x : IsCurrent(x) => IsCurrent(x)'
  BY IngestFresh
<1>3. CASE backlog' = backlog
  BY <1>1, <1>2, <1>3, TicketsStay
<1>4. ASSUME NEW x \in RecordTicket, backlog' = Append(backlog, x),
             x \notin Held, Known(x)', IsCurrent(x)'
      PROVE  PlacesInv' /\ CurrencyInv'
  <2>1. backlog \in Seq(RecordTicket) /\ DOMAIN task = Worker
    BY HeldAreTickets
  <2>2. x \notin Range(backlog) /\ x \notin Range(queue)
    BY <1>4 DEF Held
  <2>3. \A w \in Worker : task[w] = NoTask \/ task[w] # x
    BY <1>4, <2>1 DEF Held, Range
  <2>4. PICK b : b = Append(backlog, x)
    OBVIOUS
  <2>5. IsInjective(b) /\ Range(b) = Range(backlog) \cup {x}
    BY <2>1, <2>2, <2>4, AppendOnce DEF PlacesInv
  <2>6. backlog' = b
    BY <1>4, <2>4
  <2>7. IsInjective(backlog)' /\ Range(backlog)' = Range(backlog) \cup {x}
    BY <2>5, <2>6 DEF IsInjective, Range
  <2>8. IsInjective(queue)' /\ Range(queue)' = Range(queue) /\ Range(task)' = Range(task)
    BY <1>1 DEF PlacesInv, Range
  <2>9. PlacesInv'
    BY <1>1, <2>2, <2>3, <2>7, <2>8 DEF PlacesInv
  <2>10. \A y : y \in Held' => y \in Held \/ Known(y)'
    BY <1>4, <2>7, <2>8 DEF Held
  <2>11. \A y : y \in Range(backlog)' => IsCurrent(y)'
    BY <1>2, <1>4, <2>7 DEF CurrencyInv
  <2> QED
    BY <1>2, <2>9, <2>10, <2>11, CurrencyKept
<1> QED
  BY <1>3, <1>4, IngestFresh

LEMMA PumpPlaces ==
    ASSUME ConsumerInv, ConsumerInv', PlacesInv, CurrencyInv, Pump
    PROVE  PlacesInv' /\ CurrencyInv'
<1>1. PICK x : x = Head(backlog)
  OBVIOUS
<1>2. /\ backlog # <<>> /\ backlog' = Tail(backlog) /\ queue' = Append(queue, x)
      /\ UNCHANGED task /\ UNCHANGED registryVars
  BY <1>1 DEF Pump, PumpOne, Submit
<1>3. backlog \in Seq(RecordTicket) /\ queue \in Seq(RecordTicket) /\ DOMAIN task = Worker
  BY HeldAreTickets
<1>4. PICK b : b = Tail(backlog)
  OBVIOUS
<1>5. PICK q : q = Append(queue, x)
  OBVIOUS
<1>6. /\ IsInjective(b) /\ Range(b) = Range(backlog) \ {x}
      /\ x \in Range(backlog) /\ x \in RecordTicket
  BY <1>1, <1>2, <1>3, <1>4, TailOnce DEF PlacesInv
<1>7. IsInjective(q) /\ Range(q) = Range(queue) \cup {x}
  <2>1. x \notin Range(queue) /\ IsInjective(queue)
    BY <1>6 DEF PlacesInv
  <2> QED
    BY <1>3, <1>5, <1>6, <2>1, AppendOnce
<1>8. backlog' = b /\ queue' = q
  BY <1>2, <1>4, <1>5
<1>9. /\ IsInjective(backlog)' /\ Range(backlog)' = Range(backlog) \ {x}
      /\ IsInjective(queue)' /\ Range(queue)' = Range(queue) \cup {x}
      /\ Range(task)' = Range(task)
  <2>1. IsInjective(backlog)' /\ Range(backlog)' = Range(backlog) \ {x}
    BY <1>6, <1>8 DEF IsInjective, Range
  <2>2. IsInjective(queue)' /\ Range(queue)' = Range(queue) \cup {x}
    BY <1>7, <1>8 DEF IsInjective, Range
  <2>3. Range(task)' = Range(task)
    BY <1>2 DEF Range
  <2> QED
    BY <2>1, <2>2, <2>3
<1>10. PlacesInv'
  BY <1>2, <1>6, <1>9 DEF PlacesInv
<1>11. \A y : y \in Held' => y \in Held
  BY <1>6, <1>9 DEF Held
<1>12. RegistryContinues /\ \A y : IsCurrent(y) => IsCurrent(y)'
  BY <1>2, RegistryRests
<1>13. \A y : y \in Range(backlog)' => IsCurrent(y)'
  BY <1>9, <1>12 DEF CurrencyInv
<1> QED
  BY <1>10, <1>11, <1>12, <1>13, CurrencyKept

LEMMA RevokePlaces ==
    ASSUME ConsumerInv, ConsumerInv', PlacesInv, CurrencyInv,
           NEW S, NEW ok \in BOOLEAN, OnRevoked(S, ok)
    PROVE  PlacesInv' /\ CurrencyInv'
<1>1. backlog' \in Erased(S, backlog) /\ UNCHANGED <<queue, task>>
  BY DEF OnRevoked, onPartitionsRevoked, poolVars
<1>2. backlog \in Seq(RecordTicket) /\ IsInjective(backlog)
  BY HeldAreTickets DEF PlacesInv
<1>3. PICK b : b = backlog'
  OBVIOUS
<1>4. IsInjective(b) /\ \A x \in Range(b) : x \in Range(backlog) /\ x.partition \notin S
  <2>1. b \in Erased(S, backlog)
    BY <1>1, <1>3
  <2> QED
    BY <1>2, <2>1, ErasedOnce
<1>5. RegistryContinues /\ \A x : IsCurrent(x) /\ x.partition \notin S => IsCurrent(x)'
  BY RevokeContinues
<1>6. IsInjective(backlog)' /\ Range(backlog)' = Range(b)
  BY <1>3, <1>4 DEF IsInjective, Range
<1>7. \A x : x \in Range(backlog)' => x \in Range(backlog) /\ IsCurrent(x)'
  BY <1>4, <1>5, <1>6 DEF CurrencyInv
<1>8. IsInjective(queue)' /\ Range(queue)' = Range(queue)
  BY <1>1 DEF PlacesInv, Range
<1> QED
  BY <1>1, <1>5, <1>6, <1>7, <1>8, TicketsRest

LEMMA TakePlaces ==
    ASSUME ConsumerInv, ConsumerInv', PlacesInv, CurrencyInv, NEW w \in Worker,
           BeginExecute(w), UNCHANGED backlog
    PROVE  PlacesInv' /\ CurrencyInv'
<1>1. PICK x : x = Head(queue)
  OBVIOUS
<1>2. /\ queue # <<>> /\ queue' = Tail(queue) /\ task' = [task EXCEPT ![w] = x]
      /\ UNCHANGED registryVars
  BY <1>1 DEF BeginExecute, TakeTask
<1>3. queue \in Seq(RecordTicket) /\ DOMAIN task = Worker
  BY HeldAreTickets
<1>4. PICK q : q = Tail(queue)
  OBVIOUS
<1>5. /\ IsInjective(q) /\ Range(q) = Range(queue) \ {x} /\ x \in Range(queue)
  BY <1>1, <1>2, <1>3, <1>4, TailOnce DEF PlacesInv
<1>6. queue' = q
  BY <1>2, <1>4
<1>7. /\ IsInjective(queue)' /\ Range(queue)' = Range(queue) \ {x}
      /\ IsInjective(backlog)' /\ Range(backlog)' = Range(backlog)
  BY <1>5, <1>6 DEF IsInjective, Range, PlacesInv
<1>8. task'[w] = x /\ \A v \in Worker : v # w => task'[v] = task[v]
  BY <1>2, <1>3
<1>9. \A v \in Worker : task[v] = NoTask \/ task[v] # x
  BY <1>5 DEF PlacesInv
<1>10. x \notin Range(backlog)
  BY <1>5 DEF PlacesInv
<1>11. PlacesInv'
  <2>1. \A u, v \in Worker : task'[u] # NoTask /\ task'[u] = task'[v] => u = v
    BY <1>8, <1>9 DEF PlacesInv
  <2>2. \A v \in Worker : task'[v] = NoTask \/ task'[v] \notin Range(backlog)' \cup Range(queue)'
    BY <1>7, <1>8, <1>10 DEF PlacesInv
  <2> QED
    BY <1>7, <2>1, <2>2 DEF PlacesInv
<1>12. \A y : y \in Range(task)' => y \in Range(task) \/ y = x
  <2>1. DOMAIN task' = Worker
    BY <1>2, <1>3
  <2> QED
    BY <1>3, <1>8, <2>1 DEF Range
<1>13. \A y : y \in Held' => y \in Held
  BY <1>5, <1>7, <1>12 DEF Held
<1>14. RegistryContinues /\ \A y : IsCurrent(y) => IsCurrent(y)'
  BY <1>2, RegistryRests
<1>15. \A y : y \in Range(backlog)' => IsCurrent(y)'
  BY <1>7, <1>14 DEF CurrencyInv
<1> QED
  BY <1>11, <1>13, <1>14, <1>15, CurrencyKept

(* A crash, and a start() that gives up, leave no ticket anywhere.         *)
LEMMA NoTickets ==
    ASSUME backlog' = <<>>, queue' = <<>>, task' = [w \in Worker |-> NoTask],
           partitions' = [p \in {} |-> {}]
    PROVE  PlacesInv' /\ CurrencyInv'
<1>1. Assigned' = {}
  BY DEF Assigned
<1>2. Range(task)' \subseteq {NoTask}
  BY DEF Range
<1>3. Held' = {}
  BY <1>2, EmptyOnce DEF Held
<1>4. PlacesInv'
  BY EmptyOnce DEF PlacesInv
<1> QED
  BY <1>1, <1>3, <1>4, EmptyOnce DEF CurrencyInv

LEMMA TicketsKeep ==
    ASSUME ConsumerInv, ConsumerInv', PlacesInv, CurrencyInv, [Next]_vars
    PROVE  PlacesInv' /\ CurrencyInv'
<1> USE DEF pipelineVars, poolVars, executorVars, consumerVars, brokerVars, boundVars
<1>1. ASSUME UNCHANGED registryVars, UNCHANGED <<backlog, queue>>,
             \A w \in Worker : task'[w] = task[w] \/ task'[w] = NoTask
      PROVE  PlacesInv' /\ CurrencyInv'
  BY <1>1, RegistryRests, TicketsStay
<1>2. CASE ReaderStep
  <2>1. CASE SubscribeReturns \/ SubscribeFails
    <3>1. CASE UNCHANGED pipelineVars
      BY <1>1, <2>1, <3>1
    <3>2. CASE ~UNCHANGED pipelineVars
      BY <2>1, <3>2, NoTickets DEF SubscribeReturns, SubscribeFails, PipelineReset
    <3> QED
      BY <3>1, <3>2
  <2>2. ASSUME NEW to \in Fetches, Poll(to) PROVE PlacesInv' /\ CurrencyInv'
    BY <1>1, <2>2 DEF Poll
  <2>3. ASSUME NEW ps \in PartitionLists, PollAssigned(ps) PROVE PlacesInv' /\ CurrencyInv'
    <3>1. UNCHANGED <<backlog, queue, task>>
      BY <2>3 DEF PollAssigned, onPartitionsAssigned
    <3> QED
      BY <2>3, <3>1, AssignContinues, TicketsStay
  <2>4. ASSUME NEW S, NEW ok \in BOOLEAN, NEW to, PollRevoked(S, ok, to)
        PROVE  PlacesInv' /\ CurrencyInv'
    BY <2>4, RevokePlaces DEF PollRevoked
  <2>5. CASE IngestEnds \/ KafkaException \/ Backoff \/ CommitSkipped \/ Collect
    BY <1>1, <2>5 DEF IngestEnds, KafkaException, Backoff, CommitSkipped, Collect
  <2>6. ASSUME NEW drained \in BOOLEAN, Backpressure(drained) PROVE PlacesInv' /\ CurrencyInv'
    BY <1>1, <2>6 DEF Backpressure
  <2>7. ASSUME NEW ok \in BOOLEAN, Sync(ok) PROVE PlacesInv' /\ CurrencyInv'
    BY <1>1, <2>7 DEF Sync
  <2>8. CASE Confirm
    <3>1. UNCHANGED <<backlog, queue, task>>
      BY <2>8 DEF Confirm, ConfirmAll
    <3> QED
      BY <2>8, <3>1, ConfirmContinues, TicketsStay
  <2> QED
    BY <1>2, <2>1, <2>2, <2>3, <2>4, <2>5, <2>6, <2>7, <2>8, IngestPlaces, PumpPlaces DEF ReaderStep
<1>3. CASE StopStep \/ RequestReaderStop
  <2>1. CASE LeaveReader \/ RequestReaderStop
    BY <1>1, <2>1 DEF LeaveReader, RequestReaderStop
  <2>2. CASE StopThreads \/ PipelineStopped
    <3>1. /\ backlog' = backlog \/ backlog' = <<>>
          /\ queue' = queue \/ queue' = <<>>
          /\ UNCHANGED task /\ UNCHANGED registryVars
      BY <2>2 DEF StopThreads, StopBegins, StopPool, PipelineStopped, StopEnds
    <3>2. IsInjective(backlog)' /\ IsInjective(queue)'
      BY <3>1, EmptyOnce DEF PlacesInv
    <3>3. /\ \A x : x \in Range(backlog)' => x \in Range(backlog)
          /\ \A x : x \in Range(queue)' => x \in Range(queue)
      BY <3>1, EmptyOnce
    <3>4. RegistryContinues /\ \A x : IsCurrent(x) => IsCurrent(x)'
      BY <3>1, RegistryRests
    <3>5. \A x : x \in Range(backlog)' => x \in Range(backlog) /\ IsCurrent(x)'
      BY <3>3, <3>4 DEF CurrencyInv
    <3> QED
      BY <3>1, <3>2, <3>3, <3>4, <3>5, TicketsRest
  <2>3. ASSUME NEW w, StopThread(w) PROVE PlacesInv' /\ CurrencyInv'
    BY <1>1, <2>3 DEF StopThread, RequestStop
  <2>4. ASSUME NEW ok \in BOOLEAN, Close(ok) PROVE PlacesInv' /\ CurrencyInv'
    BY <2>4, RevokePlaces DEF Close
  <2> QED
    BY <1>3, <2>1, <2>2, <2>3, <2>4 DEF StopStep
<1>4. ASSUME NEW w \in Worker, WorkerStep(w) PROVE PlacesInv' /\ CurrencyInv'
  <2>1. ExecutorStep(w) /\ UNCHANGED backlog
    BY <1>4 DEF WorkerStep
  <2>2. CASE BeginExecute(w)
    BY <2>1, <2>2, TakePlaces
  <2>3. CASE ~BeginExecute(w)
    <3>1. \/ Return(w)
          \/ UNCHANGED <<queue, task>>
      BY <2>1, <2>3 DEF ExecutorStep, CheckAttempt, Invoke, RegisterLogger, Pause, SinkCheck, Send,
                        SinkPause, Finish, Abandon, GoTo, FallAsleep, LeaveLoop
    <3>2. UNCHANGED queue /\ \A v \in Worker : task'[v] = task[v] \/ task'[v] = NoTask
      BY <3>1, HeldAreTickets DEF Return, TaskReturns
    <3>3. CASE Finish(w)
      BY <2>1, <3>2, <3>3, FinishContinues, TicketsStay
    <3>4. CASE UNCHANGED registryVars
      BY <1>1, <2>1, <3>2, <3>4
    <3> QED
      BY <2>1, <3>3, <3>4, ExecutorRegistry
  <2> QED
    BY <2>2, <2>3
<1>5. CASE \E p \in PartitionKey : SessionLost(p) \/ OtherMember(p)
  BY <1>1, <1>5 DEF SessionLost, OtherMember
<1>6. CASE Crash
  BY <1>6, NoTickets DEF Crash
<1>7. CASE UNCHANGED vars
  BY <1>1, <1>7 DEF vars
<1> QED
  BY <1>2, <1>3, <1>4, <1>5, <1>6, <1>7 DEF Next, Terminated

(* No ticket is in two places, and between polls the backlog holds tickets *)
(* of the present ownerships only: no record is handed to two threads, not *)
(* even when its partition is taken away and assigned again.               *)
THEOREM TicketsInOnePlace == Spec => []EachTicketOnce
<1>1. Init => PlacesInv /\ CurrencyInv
  <2> SUFFICES ASSUME Init PROVE PlacesInv /\ CurrencyInv
    OBVIOUS
  <2>1. /\ backlog = <<>> /\ queue = <<>> /\ task = [w \in Worker |-> NoTask]
        /\ partitions = [p \in {} |-> {}]
    BY DEF Init, PipelineInit, PoolInit, RegistryInit
  <2>2. Assigned = {} /\ Range(task) \subseteq {NoTask}
    BY <2>1 DEF Assigned, Range
  <2>3. PlacesInv
    BY <2>1, EmptyOnce DEF PlacesInv
  <2> QED
    BY <2>1, <2>2, <2>3, EmptyOnce DEF Held, CurrencyInv
<1>2. ConsumerInv /\ ConsumerInv' /\ PlacesInv /\ CurrencyInv /\ [Next]_vars =>
         PlacesInv' /\ CurrencyInv'
  BY TicketsKeep
<1>3. ConsumerInv /\ PlacesInv /\ CurrencyInv => EachTicketOnce
  <2> SUFFICES ASSUME ConsumerInv, PlacesInv, CurrencyInv PROVE EachTicketOnce
    OBVIOUS
  <2>1. backlog \in Seq(RecordTicket) /\ queue \in Seq(RecordTicket)
    BY HeldAreTickets
  <2>2. PICK waiting : waiting = backlog \o queue
    OBVIOUS
  <2>3. PICK m \in Nat, n \in Nat : m = Len(backlog) /\ n = Len(queue)
    BY <2>1
  <2>4. /\ DOMAIN backlog = 1..m /\ DOMAIN queue = 1..n /\ DOMAIN waiting = 1..(m + n)
        /\ Len(waiting) = m + n
        /\ \A i \in 1..m : waiting[i] = backlog[i]
        /\ \A i \in (m + 1)..(m + n) : waiting[i] = queue[i - m] /\ i - m \in 1..n
    BY <2>1, <2>2, <2>3
  <2>5. \A i \in 1..m : waiting[i] \in Range(backlog)
    BY <2>4 DEF Range
  <2>6. \A i \in (m + 1)..(m + n) : waiting[i] \in Range(queue)
    BY <2>4 DEF Range
  <2>7. \A i \in 1..(m + n) : i \in 1..m \/ i \in (m + 1)..(m + n)
    OBVIOUS
  <2>8. ASSUME NEW i \in 1..Len(waiting), NEW j \in 1..Len(waiting), waiting[i] = waiting[j]
        PROVE  i = j
    <3>1. CASE i \in 1..m /\ j \in 1..m
      BY <2>4, <2>8, <3>1 DEF PlacesInv, IsInjective
    <3>2. CASE i \in (m + 1)..(m + n) /\ j \in (m + 1)..(m + n)
      <4>1. i - m \in DOMAIN queue /\ j - m \in DOMAIN queue /\ queue[i - m] = queue[j - m]
        BY <2>4, <2>8, <3>2
      <4>2. i - m = j - m
        BY <4>1 DEF PlacesInv, IsInjective
      <4> QED
        BY <3>2, <4>2
    <3>3. CASE (i \in 1..m) # (j \in 1..m)
      BY <2>4, <2>5, <2>6, <2>7, <2>8, <3>3 DEF PlacesInv
    <3> QED
      BY <2>4, <2>7, <3>1, <3>2, <3>3
  <2>9. ASSUME NEW w \in Worker, task[w] # NoTask PROVE task[w] \notin Range(waiting)
    <3>1. \A x \in Range(waiting) : x \in Range(backlog) \/ x \in Range(queue)
      BY <2>4, <2>5, <2>6, <2>7 DEF Range
    <3> QED
      BY <2>9, <3>1 DEF PlacesInv
  <2>10. \A i \in 1..Len(backlog) : IsCurrent(backlog[i])
    <3>1. \A i \in 1..Len(backlog) : backlog[i] \in Range(backlog)
      BY <2>1 DEF Range
    <3> QED
      BY <3>1 DEF CurrencyInv
  <2> QED
    BY <2>2, <2>8, <2>9, <2>10 DEF EachTicketOnce, PlacesInv
<1> QED
  BY <1>1, <1>2, <1>3, ConsumerInvariant, PTL DEF Spec
=============================================================================
