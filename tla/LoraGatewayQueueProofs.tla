---------------------- MODULE LoraGatewayQueueProofs ----------------------
(***************************************************************************)
(* The driver implements OperationQueue, for any operations and whatever   *)
(* becomes of the commands on the serial line; and what the operation that *)
(* Init waits for does to the queue.                                       *)
(***************************************************************************)
EXTENDS LoraGatewayDriverProofs

QueuedStage == [call : AllCalls \cup {"Init"}, op : AllOperations]
Promised == [op : AllOperations, answered : BOOLEAN]

\* What is queued is pending, and queued once, also while it runs.
QueuedOnce ==
    /\ current # NoOp => outcome[current] = "pending"
    /\ \A i \in 1 .. Len(operation_queue) :
           /\ outcome[operation_queue[i].op] = "pending"
           /\ operation_queue[i].op # current
    /\ \A i, j \in 1 .. Len(operation_queue) :
           operation_queue[i].op = operation_queue[j].op => i = j

\* Only one stage at a time calls an operation of the driver.
NestedAwaited == outcome[NestedOp] = "pending" => waits_for = "operation"

QueueInv == QueuedOnce /\ NestedAwaited

----------------------------------------------------------------------------
(* The queue that OperationQueue sees.                                     *)

\* An entry of the queue and what OperationQueue sees of it.
LEMMA EntryType ==
    ASSUME NEW x \in QueuedStage
    PROVE  Entry(x) \in Promised
BY DEF Entry, QueuedStage, Promised

\* The entries of an empty queue.
LEMMA EntriesOfNone == Entries(<<>>) = <<>>
BY DEF Entries

\* The entries of a queue that grows.
LEMMA EntriesOfAppend ==
    ASSUME NEW q \in Seq(QueuedStage), NEW x \in QueuedStage
    PROVE  /\ Entries(q) \in Seq(Promised)
           /\ Entries(Append(q, x)) = Append(Entries(q), Entry(x))
<1>1. /\ Len(q) \in Nat /\ \A i \in 1 .. Len(q) : q[i] \in QueuedStage
      /\ Len(Append(q, x)) = Len(q) + 1
      /\ \A i \in 1 .. Len(q) : Append(q, x)[i] = q[i]
      /\ Append(q, x)[Len(q) + 1] = x
  OBVIOUS
<1>2. \A y \in QueuedStage : Entry(y) \in Promised
  BY EntryType
<1>. HIDE DEF QueuedStage, Promised, Entry
<1>3. Entries(q) \in Seq(Promised) /\ Len(Entries(q)) = Len(q)
  BY <1>1, <1>2 DEF Entries
<1>4. /\ Append(Entries(q), Entry(x)) \in Seq(Promised)
      /\ Len(Append(Entries(q), Entry(x))) = Len(q) + 1
      /\ \A i \in 1 .. Len(q) : Append(Entries(q), Entry(x))[i] = Entry(q[i])
      /\ Append(Entries(q), Entry(x))[Len(q) + 1] = Entry(x)
  BY <1>1, <1>2, <1>3 DEF Entries
<1>5. /\ Entries(Append(q, x)) \in Seq(Promised)
      /\ Len(Entries(Append(q, x))) = Len(q) + 1
      /\ \A i \in 1 .. Len(q) + 1 : Entries(Append(q, x))[i] = Entry(Append(q, x)[i])
  BY <1>1, <1>2 DEF Entries
<1>6. \A i \in 1 .. Len(q) + 1 :
          Entries(Append(q, x))[i] = Append(Entries(q), Entry(x))[i]
  <2>. SUFFICES ASSUME NEW i \in 1 .. Len(q) + 1
                PROVE  Entry(Append(q, x)[i]) = Append(Entries(q), Entry(x))[i]
    BY <1>5
  <2>1. CASE i \in 1 .. Len(q)
    BY <1>1, <1>4, <2>1
  <2>2. CASE i = Len(q) + 1
    BY <1>1, <1>4, <2>2
  <2>3. i \in 1 .. Len(q) \/ i = Len(q) + 1
    <3>1. Len(q) \in Nat
      BY <1>1
    <3>. QED  BY ONLY <3>1, i \in 1 .. Len(q) + 1
  <2>. QED  BY <2>1, <2>2, <2>3
<1>7. Entries(Append(q, x)) = Append(Entries(q), Entry(x))
  <2>. DEFINE s == Entries(Append(q, x))
              t == Append(Entries(q), Entry(x))
  <2>1. /\ s \in Seq(Promised) /\ t \in Seq(Promised) /\ Len(s) = Len(t)
        /\ \A i \in 1 .. Len(s) : s[i] = t[i]
    BY <1>4, <1>5, <1>6
  <2>. QED  BY <2>1, SeqEqual
<1>. QED  BY <1>3, <1>7

\* The entry of a queue of one.
LEMMA EntriesOfOne ==
    ASSUME NEW x \in QueuedStage
    PROVE  Entries(<<x>>) = <<Entry(x)>>
<1>1. <<>> \in Seq(QueuedStage) /\ Append(<<>>, x) = <<x>>
  OBVIOUS
<1>2. Append(<<>>, Entry(x)) = <<Entry(x)>>
  OBVIOUS
<1>3. Entries(Append(<<>>, x)) = Append(Entries(<<>>), Entry(x))
  BY <1>1, EntriesOfAppend
<1>. QED  BY <1>1, <1>2, <1>3, EntriesOfNone, Zenon

\* The entries of a queue whose first stage is taken.
LEMMA EntriesOfTail ==
    ASSUME NEW q \in Seq(QueuedStage), q # <<>>
    PROVE  /\ Entries(q) \in Seq(Promised) /\ Entries(q) # <<>>
           /\ Head(Entries(q)) = Entry(Head(q))
           /\ Tail(Entries(q)) = Entries(Tail(q))
<1>1. /\ Len(q) \in Nat \ {0} /\ \A i \in 1 .. Len(q) : q[i] \in QueuedStage
      /\ Head(q) = q[1] /\ Len(Tail(q)) = Len(q) - 1
      /\ \A i \in 1 .. Len(q) - 1 : Tail(q)[i] = q[i + 1]
  OBVIOUS
<1>2. \A y \in QueuedStage : Entry(y) \in Promised
  BY EntryType
<1>. HIDE DEF QueuedStage, Promised, Entry
<1>3. /\ Entries(q) \in Seq(Promised) /\ Len(Entries(q)) = Len(q)
      /\ \A i \in 1 .. Len(q) : Entries(q)[i] = Entry(q[i])
  BY <1>1, <1>2 DEF Entries
<1>4. Entries(q) # <<>> /\ Head(Entries(q)) = Entry(Head(q))
  BY <1>1, <1>3
<1>5. /\ Tail(Entries(q)) \in Seq(Promised)
      /\ Len(Tail(Entries(q))) = Len(q) - 1
      /\ \A i \in 1 .. Len(q) - 1 : Tail(Entries(q))[i] = Entry(q[i + 1])
  BY <1>1, <1>3, <1>4
<1>6. /\ Entries(Tail(q)) \in Seq(Promised)
      /\ Len(Entries(Tail(q))) = Len(q) - 1
      /\ \A i \in 1 .. Len(q) - 1 : Entries(Tail(q))[i] = Entry(q[i + 1])
  BY <1>1, <1>2 DEF Entries
<1>7. Tail(Entries(q)) = Entries(Tail(q))
  BY <1>5, <1>6, SeqEqual
<1>. QED  BY <1>3, <1>4, <1>7

\* An element before a sequence.
LEMMA Ahead ==
    ASSUME NEW e \in Promised, NEW t \in Seq(Promised), NEW x \in Promised
    PROVE  /\ <<e>> \o t \in Seq(Promised) /\ <<e>> \o t # <<>>
           /\ Head(<<e>> \o t) = e /\ Tail(<<e>> \o t) = t
           /\ <<e>> \o Append(t, x) = Append(<<e>> \o t, x)
<1>. HIDE DEF Promised
<1>1. /\ <<e>> \o t \in Seq(Promised) /\ Len(<<e>> \o t) = Len(t) + 1 /\ Len(t) \in Nat
      /\ (<<e>> \o t)[1] = e
      /\ \A i \in 1 .. Len(t) : (<<e>> \o t)[i + 1] = t[i]
  OBVIOUS
<1>2. <<e>> \o t # <<>> /\ Head(<<e>> \o t) = e
  BY <1>1
<1>3. Tail(<<e>> \o t) = t
  <2>1. /\ Tail(<<e>> \o t) \in Seq(Promised) /\ Len(Tail(<<e>> \o t)) = Len(t)
        /\ \A i \in 1 .. Len(t) : Tail(<<e>> \o t)[i] = t[i]
    BY <1>1, <1>2
  <2>. QED  BY <2>1, SeqEqual
<1>4. <<e>> \o Append(t, x) = Append(<<e>> \o t, x)
  OBVIOUS
<1>. QED  BY <1>1, <1>2, <1>3, <1>4


\* What the queue holds.
LEMMA QueuedStages ==
    ASSUME DriverInv
    PROVE  /\ operation_queue \in Seq(QueuedStage)
           /\ \A i \in 1 .. Len(operation_queue) : operation_queue[i] \in QueuedStage
           /\ \A i \in 1 .. Len(operation_queue) : operation_queue[i].op \in AllOperations
<1>1. operation_queue \in Seq(QueuedStage)
  BY DEF DriverInv, TypeOK, QueuedStage
<1>. HIDE DEF QueuedStage
<1>2. \A i \in 1 .. Len(operation_queue) : operation_queue[i] \in QueuedStage
  BY <1>1
<1>3. \A x \in QueuedStage : x.op \in AllOperations
  BY DEF QueuedStage
<1>. QED  BY <1>1, <1>2, <1>3

\* The queue as OperationQueue sees it, while a stage runs and while none does.
LEMMA UnfinishedIs ==
    ASSUME DriverInv
    PROVE  /\ Entries(operation_queue) \in Seq(Promised)
           /\ current = NoOp => Unfinished = Entries(operation_queue)
           /\ current # NoOp =>
                  Unfinished = <<[op |-> current, answered |-> TRUE]>>
                                   \o Entries(operation_queue)
<1>1. \A i \in 1 .. Len(operation_queue) : Entry(operation_queue[i]) \in Promised
  BY QueuedStages, EntryType
<1>2. Len(operation_queue) \in Nat
  BY DEF DriverInv, TypeOK
<1>. HIDE DEF Promised, Entry
<1>3. Entries(operation_queue) \in Seq(Promised)
  BY <1>1, <1>2 DEF Entries
<1>4. <<>> \o Entries(operation_queue) = Entries(operation_queue)
  BY <1>3
<1>. QED  BY <1>3, <1>4 DEF Unfinished, Running

\* A call joins the end of the queue.
LEMMA UnfinishedGrows ==
    ASSUME DriverInv, NEW x \in QueuedStage,
           operation_queue' = Append(operation_queue, x), UNCHANGED current, DriverInv'
    PROVE  Unfinished' = Append(Unfinished, Entry(x))
<1>1. operation_queue \in Seq(QueuedStage)
  BY DEF DriverInv, TypeOK, QueuedStage
<1>2. /\ Entries(operation_queue) \in Seq(Promised)
      /\ Entries(operation_queue)' = Append(Entries(operation_queue), Entry(x))
  <2>1. /\ Entries(operation_queue) \in Seq(Promised)
        /\ Entries(Append(operation_queue, x)) = Append(Entries(operation_queue), Entry(x))
    BY <1>1, EntriesOfAppend
  <2>. QED  BY <2>1 DEF Entries
<1>3. Unfinished' = Running \o Append(Entries(operation_queue), Entry(x))
  BY <1>2 DEF Unfinished, Running
<1>4. CASE current = NoOp
  <2>1. Entry(x) \in Promised
    BY EntryType
  <2>. QED  BY <1>2, <1>3, <1>4, <2>1, UnfinishedIs DEF Running
<1>5. CASE current # NoOp
  <2>1. Entry(x) \in Promised
    BY EntryType
  <2>. DEFINE e == [op |-> current, answered |-> TRUE]
              t == Entries(operation_queue)
  <2>2. e \in Promised
    BY <1>5 DEF DriverInv, TypeOK, Promised
  <2>3. Unfinished' = <<e>> \o Append(t, Entry(x)) /\ Unfinished = <<e>> \o t
    BY <1>3, <1>5, UnfinishedIs DEF Running
  <2>. HIDE DEF e, t
  <2>4. <<e>> \o Append(t, Entry(x)) = Append(<<e>> \o t, Entry(x))
    BY <1>2, <2>1, <2>2, Ahead DEF t
  <2>. QED  BY <2>3, <2>4
<1>. QED  BY <1>4, <1>5

\* A stage that runs takes the head of the queue and stays there; one that
\* has no pipeline is gone.
LEMMA RunNextPromise ==
    ASSUME DriverInv, RunNext, DriverInv'
    PROVE  [Promise!Next]_(Promise!vars)
<1>. DEFINE next == Head(operation_queue)
<1>1. /\ operation_queue \in Seq(QueuedStage) /\ operation_queue # <<>>
      /\ current = NoOp /\ operation_queue' = Tail(operation_queue) /\ UNCHANGED outcome
  BY DEF RunNext, DriverInv, TypeOK, QueuedStage
<1>2. /\ Entries(operation_queue) \in Seq(Promised) /\ Entries(operation_queue) # <<>>
      /\ Head(Entries(operation_queue)) = Entry(next)
      /\ Tail(Entries(operation_queue)) = Entries(operation_queue)'
  <2>1. /\ Entries(operation_queue) \in Seq(Promised) /\ Entries(operation_queue) # <<>>
        /\ Head(Entries(operation_queue)) = Entry(next)
        /\ Tail(Entries(operation_queue)) = Entries(Tail(operation_queue))
    BY <1>1, EntriesOfTail
  <2>. QED  BY <1>1, <2>1 DEF Entries
<1>3. Unfinished = Entries(operation_queue)
  BY <1>1, UnfinishedIs
<1>4. next \in QueuedStage
  BY <1>1
<1>5. CASE next.call = "OpenOtherNetwork"
  <2>1. UNCHANGED current
    BY <1>5 DEF RunNext
  <2>2. Entries(operation_queue)' \in Seq(Promised)
    BY <1>2
  <2>3. Unfinished' = Entries(operation_queue)'
    BY <1>1, <2>1, <2>2 DEF Unfinished, Running
  <2>4. ~Entry(next).answered
    BY <1>5 DEF Entry
  <2>5. Promise!Forget
    BY <1>1, <1>2, <1>3, <2>3, <2>4 DEF Promise!Forget
  <2>. QED  BY <2>5 DEF Promise!Next
<1>6. CASE next.call # "OpenOtherNetwork"
  <2>1. current' = next.op /\ current' # NoOp
    BY <1>4, <1>6, DriverAssumption
       DEF RunNext, QueuedStage, AllOperations
  <2>2. Running' = <<Entry(next)>>
    BY <1>6, <2>1 DEF Running, Entry
  <2>3. Unfinished' = <<Head(Entries(operation_queue))>> \o Tail(Entries(operation_queue))
    BY <1>2, <2>2 DEF Unfinished
  <2>4. Unfinished' = Unfinished
    <3>1. \A s \in Seq(Promised) : s # <<>> => <<Head(s)>> \o Tail(s) = s
      <4>. HIDE DEF Promised
      <4>. QED  OBVIOUS
    <3>. QED  BY <1>2, <1>3, <2>3, <3>1
  <2>. QED  BY <1>1, <2>4 DEF Promise!vars
<1>. QED  BY <1>5, <1>6

\* The operation at the head of the queue reports.
LEMMA EndPromise ==
    ASSUME DriverInv, QueueInv, NEW report \in {"notified", "failed"}, End(report),
           current # NoOp, UNCHANGED operation_queue
    PROVE  Promise!Report(report)
<1>. DEFINE e == [op |-> current, answered |-> TRUE]
<1>1. /\ Entries(operation_queue) \in Seq(Promised)
      /\ Unfinished = <<e>> \o Entries(operation_queue)
  BY UnfinishedIs
<1>2. e \in Promised
  BY DEF DriverInv, TypeOK, Promised
<1>3. e.op = current /\ e.answered
  OBVIOUS
<1>. HIDE DEF e
<1>4. /\ Unfinished # <<>> /\ Head(Unfinished) = e
      /\ Tail(Unfinished) = Entries(operation_queue)
  BY <1>1, <1>2, Ahead
<1>5. Unfinished' = Entries(operation_queue)
  <2>1. Unfinished' = <<>> \o Entries(operation_queue)
    BY DEF Unfinished, Running, End, Entries
  <2>. QED  BY <1>1, <2>1
<1>6. outcome[current] = "pending" /\ outcome' = [outcome EXCEPT ![current] = report]
  BY DEF QueueInv, QueuedOnce, End
<1>. QED  BY <1>3, <1>4, <1>5, <1>6 DEF Promise!Report

----------------------------------------------------------------------------
(* QueueInv, and the refinement.                                           *)

\* A call of an operation that is over: it was not in the queue.
LEMMA PushQueueInv ==
    ASSUME DriverInv, QueuedOnce, NEW x \in QueuedStage, outcome[x.op] # "pending",
           operation_queue' = Append(operation_queue, x),
           outcome' = [outcome EXCEPT ![x.op] = "pending"], UNCHANGED current
    PROVE  QueuedOnce'
<1>1. /\ operation_queue \in Seq(QueuedStage) /\ x.op \in AllOperations
      /\ outcome \in [AllOperations -> {"none", "pending", "notified", "failed"}]
  BY DEF DriverInv, TypeOK, QueuedStage
<1>2. \A i \in 1 .. Len(operation_queue) : operation_queue[i].op \in AllOperations
  BY QueuedStages
<1>. HIDE DEF QueuedStage
<1>3. /\ Len(operation_queue) \in Nat /\ Len(operation_queue') = Len(operation_queue) + 1
      /\ \A i \in 1 .. Len(operation_queue) : operation_queue'[i] = operation_queue[i]
      /\ operation_queue'[Len(operation_queue) + 1] = x
  BY <1>1
<1>4. \A o \in AllOperations : outcome'[o] = IF o = x.op THEN "pending" ELSE outcome[o]
  BY <1>1
<1>5. \A i \in 1 .. Len(operation_queue) : operation_queue[i].op # x.op
  BY DEF QueuedOnce
<1>6. current # NoOp => outcome'[current] = "pending" /\ current # x.op
  BY <1>4 DEF DriverInv, TypeOK, QueuedOnce
<1>7. x.op # NoOp
  BY <1>1, DriverAssumption DEF AllOperations
<1>8. ASSUME NEW i \in 1 .. Len(operation_queue')
      PROVE  \/ i \in 1 .. Len(operation_queue)
             \/ i = Len(operation_queue) + 1 /\ operation_queue'[i] = x
  BY <1>3
<1>9. \A i \in 1 .. Len(operation_queue') :
          outcome'[operation_queue'[i].op] = "pending" /\ operation_queue'[i].op # current
  BY <1>1, <1>2, <1>3, <1>4, <1>6, <1>7, <1>8 DEF QueuedOnce
<1>10. \A i, j \in 1 .. Len(operation_queue') :
           operation_queue'[i].op = operation_queue'[j].op => i = j
  BY <1>3, <1>5, <1>8 DEF QueuedOnce
<1>. QED  BY <1>6, <1>9, <1>10 DEF QueuedOnce

\* The next stage is taken from the queue.
LEMMA RunNextQueueInv ==
    ASSUME DriverInv, QueueInv, RunNext
    PROVE  QueueInv'
<1>1. /\ operation_queue \in Seq(QueuedStage) /\ operation_queue # <<>>
      /\ operation_queue' = Tail(operation_queue)
      /\ current = NoOp /\ UNCHANGED <<outcome, waits_for>>
      /\ current' \in {NoOp, Head(operation_queue).op}
  BY DEF RunNext, DriverInv, TypeOK, QueuedStage
<1>2. \A i \in 1 .. Len(operation_queue) : operation_queue[i].op # NoOp
  BY QueuedStages, DriverAssumption DEF AllOperations
<1>. HIDE DEF QueuedStage
<1>3. /\ Len(operation_queue) \in Nat \ {0}
      /\ Head(operation_queue) = operation_queue[1]
      /\ Len(operation_queue') = Len(operation_queue) - 1
      /\ \A i \in 1 .. Len(operation_queue') :
             /\ operation_queue'[i] = operation_queue[i + 1]
             /\ i + 1 \in 1 .. Len(operation_queue) /\ i + 1 # 1
  BY <1>1
<1>4. current' # NoOp => outcome'[current'] = "pending"
  BY <1>1, <1>3 DEF QueueInv, QueuedOnce
<1>5. \A i \in 1 .. Len(operation_queue') :
          outcome'[operation_queue'[i].op] = "pending" /\ operation_queue'[i].op # current'
  <2>. SUFFICES ASSUME NEW i \in 1 .. Len(operation_queue')
                PROVE  /\ outcome[operation_queue[i + 1].op] = "pending"
                       /\ operation_queue[i + 1].op # current'
    BY <1>1, <1>3
  <2>1. 1 \in 1 .. Len(operation_queue)
    BY <1>3
  <2>2. operation_queue[i + 1].op # operation_queue[1].op
    BY <1>3, <2>1 DEF QueueInv, QueuedOnce
  <2>. QED  BY <1>1, <1>2, <1>3, <2>2 DEF QueueInv, QueuedOnce
<1>6. \A i, j \in 1 .. Len(operation_queue') :
          operation_queue'[i].op = operation_queue'[j].op => i = j
  <2>. SUFFICES ASSUME NEW i \in 1 .. Len(operation_queue'),
                       NEW j \in 1 .. Len(operation_queue'),
                       operation_queue[i + 1].op = operation_queue[j + 1].op
                PROVE  i = j
    BY <1>3
  <2>1. i + 1 = j + 1
    BY <1>3 DEF QueueInv, QueuedOnce
  <2>. QED  BY <2>1
<1>7. NestedAwaited'
  BY <1>1 DEF QueueInv, NestedAwaited
<1>. QED  BY <1>4, <1>5, <1>6, <1>7 DEF QueueInv, QueuedOnce

\* What has reported is in the queue no more, and Init may call again.
LEMMA EndQueueInv ==
    ASSUME DriverInv, QueueInv, NEW report \in {"notified", "failed"}, End(report),
           current # NoOp, UNCHANGED operation_queue,
           waits_for = "operation" => outcome[NestedOp] # "pending"
    PROVE  QueueInv'
<1>1. /\ current' = NoOp /\ UNCHANGED operation_queue
      /\ outcome' = [outcome EXCEPT ![current] = report]
      /\ outcome \in [AllOperations -> {"none", "pending", "notified", "failed"}]
  BY DEF End, DriverInv, TypeOK
<1>2. \A i \in 1 .. Len(operation_queue) : operation_queue[i].op \in AllOperations
  BY QueuedStages
<1>3. \A o \in AllOperations : o # current => outcome'[o] = outcome[o]
  BY <1>1
<1>4. QueuedOnce'
  BY <1>1, <1>2, <1>3, DriverAssumption DEF QueueInv, QueuedOnce, AllOperations
<1>5. outcome'[NestedOp] # "pending"
  <2>1. NestedOp \in AllOperations /\ outcome[NestedOp] # "pending"
    BY DEF AllOperations, QueueInv, NestedAwaited
  <2>. QED  BY <1>1, <2>1
<1>. QED  BY <1>4, <1>5 DEF QueueInv, NestedAwaited

\* The steps of a pipeline that neither call nor report.
StageStep ==
    /\ UNCHANGED <<operation_queue, current, outcome>>
    /\ waits_for = "operation" => waits_for' = "operation" \/ outcome[NestedOp] # "pending"

LEMMA StageStepKeeps ==
    ASSUME QueueInv, StageStep
    PROVE  QueueInv' /\ UNCHANGED Promise!vars
<1>1. Unfinished' = Unfinished
  BY DEF StageStep, Unfinished, Running, Entries
<1>2. QueuedOnce'
  BY DEF StageStep, QueueInv, QueuedOnce
<1>3. NestedAwaited'
  BY DEF StageStep, QueueInv, NestedAwaited
<1>. QED  BY <1>1, <1>2, <1>3 DEF StageStep, QueueInv, Promise!vars

\* Every step of the driver is one of OperationQueue, or none.
LEMMA NextIsPromiseNext ==
    ASSUME DriverInv, DriverInv', QueueInv, [Next]_vars
    PROVE  QueueInv' /\ [Promise!Next]_(Promise!vars)
<1>1. ASSUME NEW o \in Operations, NEW call \in Calls, Call(o, call)
      PROVE  QueueInv' /\ Promise!Next
  <2>. DEFINE x == [call |-> call, op |-> o]
  <2>1. /\ x \in QueuedStage /\ x.op = o /\ outcome[o] # "pending"
        /\ operation_queue' = Append(operation_queue, x)
        /\ outcome' = [outcome EXCEPT ![x.op] = "pending"]
        /\ UNCHANGED <<current, waits_for>>
    BY <1>1, DriverAssumption DEF Call, QueuedStage, AllOperations
  <2>2. Entry(x).op = o /\ Entry(x).answered \in BOOLEAN
        /\ Entry(x) = [op |-> o, answered |-> Entry(x).answered]
    BY DEF Entry
  <2>3. o \in AllOperations /\ o # NestedOp
    BY DriverAssumption DEF AllOperations
  <2>. HIDE DEF x
  <2>4. QueuedOnce' /\ Unfinished' = Append(Unfinished, Entry(x))
    BY <2>1, PushQueueInv, UnfinishedGrows DEF QueueInv
  <2>5. NestedAwaited'
    <3>1. outcome'[NestedOp] = outcome[NestedOp]
      BY <2>1, <2>3 DEF DriverInv, TypeOK
    <3>. QED  BY <2>1, <3>1 DEF QueueInv, NestedAwaited
  <2>6. Promise!Call(o, Entry(x).answered)
    BY <2>1, <2>2, <2>4 DEF Promise!Call
  <2>. QED  BY <2>2, <2>3, <2>4, <2>5, <2>6 DEF QueueInv, Promise!Next
<1>2. CASE RunNext
  BY <1>2, RunNextQueueInv, RunNextPromise
<1>3. ASSUME NEW call \in NestedStages, CallNested(call)
      PROVE  QueueInv' /\ Promise!Next
  <2>. DEFINE x == [call |-> call, op |-> NestedOp]
  <2>1. /\ x \in QueuedStage /\ x.op = NestedOp
        /\ operation_queue' = Append(operation_queue, x)
        /\ outcome' = [outcome EXCEPT ![x.op] = "pending"]
        /\ waits_for = "nothing" /\ waits_for' = "operation" /\ UNCHANGED current
    BY <1>3 DEF CallNested, Begins, QueuedStage, AllOperations, NestedStages, AllCalls
  <2>2. Entry(x).answered \in BOOLEAN
        /\ Entry(x) = [op |-> NestedOp, answered |-> Entry(x).answered]
    BY DEF Entry
  <2>3. NestedOp \in AllOperations /\ outcome[NestedOp] # "pending"
    BY <2>1 DEF AllOperations, QueueInv, NestedAwaited
  <2>. HIDE DEF x
  <2>4. QueuedOnce' /\ Unfinished' = Append(Unfinished, Entry(x))
    BY <2>1, <2>3, PushQueueInv, UnfinishedGrows DEF QueueInv
  <2>5. Promise!Call(NestedOp, Entry(x).answered)
    BY <2>1, <2>2, <2>3, <2>4 DEF Promise!Call
  <2>. QED  BY <2>1, <2>2, <2>3, <2>4, <2>5 DEF QueueInv, NestedAwaited, Promise!Next
<1>4. CASE Finish
  <2>1. End("notified") /\ current # NoOp /\ UNCHANGED operation_queue
        /\ waits_for # "operation"
    BY <1>4 DEF Finish, DriverInv, WaitsFit
  <2>. QED  BY <2>1, EndQueueInv, EndPromise DEF Promise!Next
<1>5. ASSUME NEW fate \in Fates, StageEnds(fate)
      PROVE  QueueInv' /\ [Promise!Next]_(Promise!vars)
  <2>1. /\ UNCHANGED operation_queue /\ waits_for' = "nothing" /\ current # NoOp
        /\ waits_for = "operation" => outcome[NestedOp] # "pending"
    BY <1>5 DEF StageEnds, End, DriverInv, WaitsFit, Answers
  <2>2. CASE UNCHANGED <<current, outcome>>
    BY <2>1, <2>2, StageStepKeeps DEF StageStep
  <2>3. CASE End("failed")
    BY <2>1, <2>3, EndQueueInv, EndPromise DEF Promise!Next
  <2>. QED  BY <1>5, <2>2, <2>3 DEF StageEnds
<1>6. CASE \/ EnterAtMode \/ ExitAtMode \/ OpenConnection
           \/ \E stage \in OptionalStages \cup {"EnterAtMode", "ExitAtMode"} : SkipStage(stage)
           \/ \E command \in Commands : MakeRequest(command)
           \/ \E flag \in {"started", "initiated"} : SetFlag(flag)
  <2>1. StageStep
    BY <1>6 DEF EnterAtMode, ExitAtMode, OpenConnection, SkipStage, MakeRequest, SetFlag,
                Begins, StageStep
  <2>. QED  BY <2>1, StageStepKeeps
<1>7. CASE Restart
  <2>1. /\ operation_queue' = <<[call |-> "Init", op |-> InitOp]>> /\ current' = NoOp
        /\ outcome' = InitOutcome
    BY <1>7, Zenon DEF Restart, InitQueue
  <2>2. outcome'[InitOp] = "pending" /\ outcome'[NestedOp] = "none" /\ InitOp # NoOp
    BY <2>1, DriverAssumption DEF InitOutcome, AllOperations
  <2>3. QueueInv'
    BY <2>1, <2>2 DEF QueueInv, QueuedOnce, NestedAwaited
  <2>4. Unfinished' = <<[op |-> InitOp, answered |-> TRUE]>>
    <3>. DEFINE x == [call |-> "Init", op |-> InitOp]
    <3>1. x \in QueuedStage /\ Entry(x) = [op |-> InitOp, answered |-> TRUE]
      BY DEF QueuedStage, AllOperations, Entry
    <3>2. Entries(<<x>>) = <<Entry(x)>>
      BY <3>1, EntriesOfOne
    <3>3. Unfinished' = <<>> \o Entries(<<x>>)
      BY <2>1 DEF Unfinished, Running, Entries
    <3>. QED  BY <3>1, <3>2, <3>3
  <2>5. Promise!Restart
    BY <2>1, <2>4 DEF Promise!Restart, Promise!Init, InitOutcome
  <2>. QED  BY <2>3, <2>5 DEF Promise!Next
<1>8. CASE UNCHANGED vars
  <2>1. StageStep
    BY <1>8 DEF vars, StageStep
  <2>. QED  BY <2>1, StageStepKeeps
<1>. QED  BY <1>1, <1>2, <1>3, <1>4, <1>5, <1>6, <1>7, <1>8 DEF Next, RunStage

\* QueueInv holds in every state, so that an operation that has not reported
\* waits in the queue in one place.
THEOREM QueueInvariant == Spec => []QueueInv
<1>1. Init => QueueInv
  <2>. SUFFICES ASSUME Init PROVE QueueInv
    OBVIOUS
  <2>1. /\ operation_queue = <<[call |-> "Init", op |-> InitOp]>> /\ current = NoOp
        /\ outcome[InitOp] = "pending" /\ outcome[NestedOp] = "none" /\ InitOp # NoOp
    BY DriverAssumption DEF Init, InitQueue, InitOutcome, AllOperations
  <2>. QED  BY <2>1 DEF QueueInv, QueuedOnce, NestedAwaited
<1>2. DriverInv /\ DriverInv' /\ QueueInv /\ [Next]_vars => QueueInv'
  BY NextIsPromiseNext
<1>. QED  BY <1>1, <1>2, DriverInvariant, PTL DEF Spec

\* The driver's operations run one at a time in the order of the calls and
\* report once each, whatever becomes of the commands and however often the
\* driver is made again (operation_queue_ and the handlers of its pipelines).
THEOREM DriverKeepsQueue == Spec => QueueSpec
<1>1. Init => Promise!Init
  <2>. SUFFICES ASSUME Init PROVE Promise!Init
    OBVIOUS
  <2>. DEFINE x == [call |-> "Init", op |-> InitOp]
  <2>1. x \in QueuedStage /\ Entry(x) = [op |-> InitOp, answered |-> TRUE]
    BY DEF QueuedStage, AllOperations, Entry
  <2>2. Entries(<<x>>) = <<Entry(x)>>
    BY <2>1, EntriesOfOne
  <2>3. Unfinished = <<>> \o Entries(<<x>>)
    BY DEF Init, InitQueue, Unfinished, Running
  <2>4. Unfinished = <<[op |-> InitOp, answered |-> TRUE]>>
    BY <2>1, <2>2, <2>3
  <2>. QED  BY <2>4 DEF Init, InitOutcome, Promise!Init
<1>2. DriverInv /\ DriverInv' /\ QueueInv /\ [Next]_vars => [Promise!Next]_(Promise!vars)
  BY NextIsPromiseNext
<1>. QED  BY <1>1, <1>2, DriverInvariant, QueueInvariant, PTL
          DEF Spec, QueueSpec, Promise!Spec

----------------------------------------------------------------------------
(* What Init does to the queue.                                            *)

\* While Init runs, the first operation it waits for is still to come.
InitAhead ==
    current = InitOp => \E i \in 1 .. Len(stages) : stages[i] = "SetPowerSaveParam"

\* No other pipeline calls an operation of the driver.
OthersCallNone ==
    current # InitOp => \A i \in 1 .. Len(stages) : stages[i] \notin NestedStages

\* The constructor's operation is the one that runs Init.
InitQueued ==
    \A i \in 1 .. Len(operation_queue) :
        operation_queue[i].op = InitOp <=> operation_queue[i].call = "Init"

\* The operation that is waited for is one behind Init in the queue.
InitWaits ==
    waits_for = "operation" => current = InitOp /\ outcome[NestedOp] = "pending"

InitUnsuccessful == outcome[InitOp] # "notified"

InitInv ==
    /\ InitAhead
    /\ OthersCallNone
    /\ InitQueued
    /\ InitWaits
    /\ InitUnsuccessful

\* Init has the stage; the other pipelines have none of the kind.
LEMMA NestedInInit ==
    /\ \E i \in 1 .. Len(InitStages) : InitStages[i] = "SetPowerSaveParam"
    /\ \A call \in AllCalls \ {"OpenOtherNetwork"} :
           \A i \in 1 .. Len(Pipeline(call)) : Pipeline(call)[i] \notin NestedStages
<1>1. \E i \in 1 .. Len(InitStages) : InitStages[i] = "SetPowerSaveParam"
  <2>1. Len(InitStages) = 12 /\ InitStages[6] = "SetPowerSaveParam"
    BY DEF InitStages, SetupSerialPort, SetupLoraNet
  <2>. QED  BY <2>1
<1>. DEFINE Calls0(s) == \A i \in 1 .. Len(s) : s[i] \notin NestedStages
<1>2. ASSUME NEW c \in Commands PROVE Calls0(<<"EnterAtMode", c, "ExitAtMode">>)
  BY DEF Commands, NestedStages
<1>3. /\ Calls0(<<>>) /\ Calls0(<<"EnterAtMode", "ExitAtMode", "started">>)
      /\ Calls0(<<"Open">>)
  BY DEF NestedStages
<1>4. Calls0(<<"EnterAtMode", "AT+MODE", "AT+LEVEL", "AT+POWE", "AT+BW", "AT+CR", "AT+SF",
               "ExitAtMode">>)
  BY DEF NestedStages
<1>5. \A c \in {"AT+RESET", "AT+MAC", "AT+CHANNEL", "AT+CRC", "AT+IQ"} : c \in Commands
  BY DEF Commands
<1>. HIDE DEF Calls0
<1>6. \A call \in AllCalls \ {"OpenOtherNetwork"} : Calls0(Pipeline(call))
  BY <1>2, <1>3, <1>4, <1>5
     DEF AllCalls, Pipeline, StartStages, StopStages, OpenNetworkStages,
         SetPowerSaveParamStages, Setting, SetLoraGatewayAddressStages,
         SetLoraGatewayChannelStages, SetLoraGatewayCRCCheckStages,
         SetLoraGatewayIQSignalInversionStages
<1>. QED  BY <1>1, <1>6 DEF Calls0

\* A stage that calls no operation ends.
LEMMA StageOverInit ==
    ASSUME DriverInv, InitInv, stages # <<>>, stages[1] \notin NestedStages,
           stages' = Tail(stages), waits_for' # "operation",
           UNCHANGED <<operation_queue, current, outcome>>
    PROVE  InitInv'
<1>1. stages \in Seq(Stages)
  BY DEF DriverInv, TypeOK
<1>2. InitAhead'
  <2>. SUFFICES ASSUME current = InitOp
                PROVE  \E i \in 1 .. Len(Tail(stages)) : Tail(stages)[i] = "SetPowerSaveParam"
    BY DEF InitAhead
  <2>1. "SetPowerSaveParam" # stages[1]
    BY DEF NestedStages
  <2>. QED  BY <1>1, <2>1, TailHasDue DEF InitInv, InitAhead
<1>3. OthersCallNone'
  <2>1. \A i \in 1 .. Len(Tail(stages)) :
            i + 1 \in 1 .. Len(stages) /\ Tail(stages)[i] = stages[i + 1]
    BY <1>1, TailOfStages
  <2>. QED  BY <2>1 DEF InitInv, OthersCallNone
<1>. QED  BY <1>2, <1>3 DEF InitInv, InitQueued, InitWaits, InitUnsuccessful

\* A stage asks the module for something.
LEMMA StageAsksInit ==
    ASSUME InitInv, waits_for' # "operation", UNCHANGED <<operation_queue, current, stages, outcome>>
    PROVE  InitInv'
BY DEF InitInv, InitAhead, OthersCallNone, InitQueued, InitWaits, InitUnsuccessful

\* A pipeline that is over has no stages.  That of Init does not succeed.
LEMMA EndInit ==
    ASSUME DriverInv, InitInv, NEW report, End(report), UNCHANGED operation_queue,
           current = InitOp => report # "notified"
    PROVE  InitInv'
<1>1. current' = NoOp /\ stages' = <<>> /\ waits_for' = "nothing"
  BY DEF End
<1>2. InitAhead' /\ OthersCallNone' /\ InitWaits'
  BY <1>1, DriverAssumption DEF InitAhead, OthersCallNone, InitWaits
<1>3. InitUnsuccessful'
  <2>1. InitOp \in AllOperations
    BY DEF AllOperations
  <2>. QED  BY <2>1 DEF End, DriverInv, TypeOK, InitInv, InitUnsuccessful
<1>. QED  BY <1>2, <1>3 DEF InitInv, InitQueued

\* What joins the queue is not Init.
LEMMA PushInit ==
    ASSUME DriverInv, InitInv, NEW x \in QueuedStage, x.op # InitOp, x.call # "Init",
           operation_queue' = Append(operation_queue, x),
           outcome' = [outcome EXCEPT ![x.op] = "pending"]
    PROVE  InitQueued' /\ InitUnsuccessful'
<1>1. operation_queue \in Seq(QueuedStage)
  BY QueuedStages
<1>. HIDE DEF QueuedStage
<1>2. \A i \in 1 .. Len(operation_queue') :
          \/ i \in 1 .. Len(operation_queue) /\ operation_queue'[i] = operation_queue[i]
          \/ operation_queue'[i] = x
  BY <1>1
<1>3. InitQueued'
  BY <1>2 DEF InitInv, InitQueued
<1>4. InitUnsuccessful'
  <2>1. InitOp \in AllOperations
    BY DEF AllOperations
  <2>. QED  BY <2>1 DEF DriverInv, TypeOK, InitInv, InitUnsuccessful
<1>. QED  BY <1>3, <1>4

\* The stage that runs brings the pipeline of its own operation.
LEMMA RunNextInit ==
    ASSUME DriverInv, InitInv, RunNext
    PROVE  InitInv'
<1>. DEFINE next == Head(operation_queue)
<1>1. /\ operation_queue \in Seq(QueuedStage) /\ operation_queue # <<>>
      /\ operation_queue' = Tail(operation_queue)
      /\ waits_for' # "operation" /\ UNCHANGED outcome
  BY QueuedStages DEF RunNext, DriverInv, WaitsFit
<1>2. /\ next \in QueuedStage
      /\ next.op = InitOp <=> next.call = "Init"
  <2>1. 1 \in 1 .. Len(operation_queue) /\ next = operation_queue[1]
    <3>. HIDE DEF QueuedStage
    <3>. QED  BY <1>1
  <2>. QED  BY <2>1, QueuedStages DEF InitInv, InitQueued
<1>3. InitQueued'
  <2>1. \A i \in 1 .. Len(operation_queue') :
            i + 1 \in 1 .. Len(operation_queue) /\ operation_queue'[i] = operation_queue[i + 1]
    <3>. HIDE DEF QueuedStage
    <3>. QED  BY <1>1
  <2>. QED  BY <2>1 DEF InitInv, InitQueued
<1>4. InitWaits' /\ InitUnsuccessful'
  BY <1>1 DEF InitInv, InitWaits, InitUnsuccessful
<1>5. InitAhead' /\ OthersCallNone'
  <2>1. CASE next.call = "OpenOtherNetwork"
    <3>1. UNCHANGED <<current, stages>>
      BY <2>1 DEF RunNext
    <3>. QED  BY <3>1 DEF InitInv, InitAhead, OthersCallNone
  <2>2. CASE next.call = "Init"
    <3>1. current' = InitOp /\ stages' = InitStages
      BY <1>2, <2>2 DEF RunNext, Pipeline
    <3>. QED  BY <3>1, NestedInInit DEF InitAhead, OthersCallNone
  <2>3. CASE next.call \notin {"OpenOtherNetwork", "Init"}
    <3>1. current' = next.op /\ stages' = Pipeline(next.call)
      BY <2>3 DEF RunNext
    <3>2. next.op # InitOp /\ next.call \in AllCalls \ {"OpenOtherNetwork"}
      BY <1>2, <2>3 DEF QueuedStage
    <3>. HIDE DEF next
    <3>. QED  BY <3>1, <3>2, NestedInInit DEF InitAhead, OthersCallNone
  <2>. QED  BY <2>1, <2>2, <2>3
<1>. QED  BY <1>3, <1>4, <1>5 DEF InitInv

\* Every step preserves InitInv; and while an operation is waited for, a step
\* adds to the queue or is a restart.
LEMMA NextInit ==
    ASSUME DriverInv, InitInv, [Next]_vars
    PROVE  /\ InitInv'
           /\ waits_for = "operation" =>
                  \/ Restart
                  \/ /\ UNCHANGED <<current, stages, waits_for, at_mode, module_mode>>
                     /\ \A o \in AllOperations :
                            outcome[o] = "pending" => outcome'[o] = "pending"
<1>1. /\ TypeOK /\ WaitsFit
      /\ stages # <<>> => Head(stages) = stages[1] /\ 1 \in 1 .. Len(stages)
  <2>1. stages \in Seq(Stages)
    BY DEF DriverInv, TypeOK
  <2>2. stages # <<>> => Head(stages) = stages[1] /\ Len(stages) \in Nat \ {0}
    BY <2>1, TailOfStages
  <2>3. Len(stages) \in Nat \ {0} => 1 \in 1 .. Len(stages)
    OBVIOUS
  <2>. QED  BY <2>2, <2>3 DEF DriverInv
<1>2. ASSUME NEW o \in Operations, NEW call \in Calls, Call(o, call)
      PROVE  /\ InitInv'
             /\ UNCHANGED <<current, stages, waits_for, at_mode, module_mode>>
             /\ \A p \in AllOperations : outcome[p] = "pending" => outcome'[p] = "pending"
  <2>. DEFINE x == [call |-> call, op |-> o]
  <2>1. /\ x \in QueuedStage /\ x.op = o /\ x.op # InitOp /\ x.call # "Init"
        /\ operation_queue' = Append(operation_queue, x)
        /\ outcome' = [outcome EXCEPT ![x.op] = "pending"]
        /\ o # NestedOp /\ NestedOp \in AllOperations
    BY <1>2, DriverAssumption DEF Call, QueuedStage, AllOperations, AllCalls
  <2>. HIDE DEF x
  <2>2. InitQueued' /\ InitUnsuccessful'
    BY <2>1, PushInit
  <2>3. UNCHANGED <<current, stages, waits_for, at_mode, module_mode>>
    BY <1>2 DEF Call
  <2>4. InitAhead' /\ OthersCallNone'
    BY <2>3 DEF InitInv, InitAhead, OthersCallNone
  <2>5. \A p \in AllOperations : outcome[p] = "pending" => outcome'[p] = "pending"
    BY <1>1, <2>1 DEF TypeOK
  <2>. QED  BY <2>1, <2>2, <2>3, <2>4, <2>5 DEF InitInv, InitWaits
<1>3. CASE RunNext
  <2>1. waits_for # "operation"
    BY <1>1, <1>3 DEF RunNext, WaitsFit
  <2>. QED  BY <1>3, <2>1, RunNextInit
<1>4. CASE RunStage
  <2>1. waits_for # "operation"
    BY <1>1, <1>4 DEF RunStage, EnterAtMode, ExitAtMode, SkipStage, MakeRequest, CallNested,
                      OpenConnection, SetFlag, Finish, Begins, WaitsFit
  <2>2. CASE EnterAtMode \/ ExitAtMode \/ OpenConnection
             \/ \E command \in Commands : MakeRequest(command)
    <3>1. waits_for' # "operation" /\ UNCHANGED <<operation_queue, current, stages, outcome>>
      BY <2>2 DEF EnterAtMode, ExitAtMode, OpenConnection, MakeRequest
    <3>. QED  BY <2>1, <3>1, StageAsksInit
  <2>3. ASSUME NEW stage \in OptionalStages \cup {"EnterAtMode", "ExitAtMode"}, SkipStage(stage)
        PROVE  InitInv'
    <3>1. CASE stages[1] = "SetLoraGatewayChannel"
      <4>1. /\ stages # <<>> /\ stages' = Tail(stages) /\ waits_for' # "operation"
            /\ UNCHANGED <<operation_queue, current, outcome>>
        BY <2>3 DEF SkipStage, Begins
      <4>2. stages \in Seq(Stages)
        BY <1>1 DEF TypeOK
      <4>3. InitAhead'
        <5>. SUFFICES ASSUME current = InitOp
                      PROVE  \E i \in 1 .. Len(Tail(stages)) :
                                 Tail(stages)[i] = "SetPowerSaveParam"
          BY <4>1 DEF InitAhead
        <5>. QED  BY <3>1, <4>1, <4>2, TailHasDue DEF InitInv, InitAhead
      <4>4. OthersCallNone'
        <5>1. current = InitOp
          BY <1>1, <3>1, <4>1 DEF InitInv, OthersCallNone, NestedStages
        <5>. QED  BY <4>1, <5>1 DEF OthersCallNone
      <4>. QED  BY <4>1, <4>3, <4>4 DEF InitInv, InitQueued, InitWaits, InitUnsuccessful
    <3>2. CASE stages[1] # "SetLoraGatewayChannel"
      <4>1. /\ stages # <<>> /\ stages[1] \notin NestedStages
            /\ stages' = Tail(stages) /\ waits_for' # "operation"
            /\ UNCHANGED <<operation_queue, current, outcome>>
        BY <1>1, <2>3, <3>2 DEF SkipStage, Begins, OptionalStages, NestedStages
      <4>. QED  BY <4>1, StageOverInit
    <3>. QED  BY <3>1, <3>2
  <2>4. ASSUME NEW call \in NestedStages, CallNested(call)
        PROVE  InitInv'
    <3>. DEFINE x == [call |-> call, op |-> NestedOp]
    <3>1. /\ x \in QueuedStage /\ x.op = NestedOp /\ x.op # InitOp /\ x.call # "Init"
          /\ operation_queue' = Append(operation_queue, x)
          /\ outcome' = [outcome EXCEPT ![x.op] = "pending"]
          /\ stages # <<>> /\ stages[1] \in NestedStages
          /\ UNCHANGED <<current, stages>> /\ NestedOp \in AllOperations
      BY <1>1, <2>4, DriverAssumption
         DEF CallNested, Begins, QueuedStage, AllOperations, AllCalls, NestedStages
    <3>. HIDE DEF x
    <3>2. InitQueued' /\ InitUnsuccessful'
      BY <3>1, PushInit
    <3>3. InitAhead' /\ OthersCallNone'
      BY <3>1 DEF InitInv, InitAhead, OthersCallNone
    <3>4. current = InitOp /\ outcome'[NestedOp] = "pending"
      BY <1>1, <3>1 DEF InitInv, OthersCallNone, TypeOK
    <3>. QED  BY <3>1, <3>2, <3>3, <3>4 DEF InitInv, InitWaits
  <2>5. ASSUME NEW flag \in {"started", "initiated"}, SetFlag(flag)
        PROVE  InitInv'
    <3>1. /\ stages # <<>> /\ stages[1] \notin NestedStages
          /\ stages' = Tail(stages) /\ waits_for' # "operation"
          /\ UNCHANGED <<operation_queue, current, outcome>>
      BY <1>1, <2>5 DEF SetFlag, Begins, NestedStages
    <3>. QED  BY <3>1, StageOverInit
  <2>6. CASE Finish
    <3>1. current # InitOp
      BY <2>6 DEF Finish, InitInv, InitAhead
    <3>2. End("notified") /\ UNCHANGED operation_queue
      BY <2>6 DEF Finish
    <3>. QED  BY <2>1, <3>1, <3>2, EndInit
  <2>. QED  BY <1>4, <2>1, <2>2, <2>3, <2>4, <2>5, <2>6 DEF RunStage
<1>5. ASSUME NEW fate \in Fates, StageEnds(fate)
      PROVE  InitInv' /\ waits_for # "operation"
  <2>1. waits_for # "operation"
    BY <1>5 DEF StageEnds, InitInv, InitWaits
  <2>2. CASE End("failed")
    BY <1>5, <2>1, <2>2, EndInit DEF StageEnds
  <2>3. CASE stages' = Tail(stages) /\ waits_for' = "nothing" /\ UNCHANGED <<current, outcome>>
    <3>1. stages # <<>> /\ stages[1] \notin NestedStages
      BY <1>1, <1>5, <2>1 DEF StageEnds, WaitsFit, Answers, Commands, NestedStages
    <3>. QED  BY <1>5, <2>1, <2>3, <3>1, StageOverInit DEF StageEnds
  <2>. QED  BY <1>5, <2>1, <2>2, <2>3 DEF StageEnds
<1>6. CASE Restart
  <2>1. /\ operation_queue' = <<[call |-> "Init", op |-> InitOp]>> /\ current' = NoOp
        /\ stages' = <<>> /\ waits_for' = "nothing" /\ outcome' = InitOutcome
    BY <1>6, Zenon DEF Restart, InitQueue
  <2>2. outcome'[InitOp] = "pending" /\ InitOp # NoOp
    BY <2>1, DriverAssumption DEF InitOutcome, AllOperations
  <2>. QED  BY <1>6, <2>1, <2>2
            DEF InitInv, InitAhead, OthersCallNone, InitQueued, InitWaits, InitUnsuccessful
<1>7. CASE UNCHANGED vars
  BY <1>7 DEF vars, InitInv, InitAhead, OthersCallNone, InitQueued, InitWaits, InitUnsuccessful
<1>. QED  BY <1>2, <1>3, <1>4, <1>5, <1>6, <1>7 DEF Next

\* InitInv holds in every state.
THEOREM InitInvariant == Spec => []InitInv
<1>1. Init => InitInv
  <2>. SUFFICES ASSUME Init PROVE InitInv
    OBVIOUS
  <2>1. /\ operation_queue = <<[call |-> "Init", op |-> InitOp]>> /\ current = NoOp
        /\ stages = <<>> /\ waits_for = "nothing" /\ outcome[InitOp] = "pending"
        /\ InitOp # NoOp
    BY DriverAssumption DEF Init, InitQueue, InitOutcome, AllOperations
  <2>. QED  BY <2>1 DEF InitInv, InitAhead, OthersCallNone, InitQueued, InitWaits,
                        InitUnsuccessful
<1>2. DriverInv /\ InitInv /\ [Next]_vars => InitInv'
  BY NextInit
<1>. QED  BY <1>1, <1>2, DriverInvariant, PTL DEF Spec

\* "init success" is never reported, whatever the module answers and however
\* often a driver is made: Init fails, or waits for an operation that is
\* queued behind it (DxSmartLr02LoraGateway::Init).
THEOREM InitNeverSucceeds == Spec => [](outcome[InitOp] # "notified")
<1>1. InitInv => outcome[InitOp] # "notified"
  BY DEF InitInv, InitUnsuccessful
<1>. QED  BY <1>1, InitInvariant, PTL

\* Once Init waits for its operation no stage runs any more and no operation
\* that was called reports, until another driver is made.
THEOREM InitHoldsQueue ==
    Spec => [][waits_for = "operation" =>
                   \/ Restart
                   \/ /\ UNCHANGED <<current, stages, waits_for, at_mode, module_mode>>
                      /\ \A o \in AllOperations :
                             outcome[o] = "pending" => outcome'[o] = "pending"]_vars
<1>1. DriverInv /\ InitInv /\ [Next]_vars =>
          [waits_for = "operation" =>
               \/ Restart
               \/ /\ UNCHANGED <<current, stages, waits_for, at_mode, module_mode>>
                  /\ \A o \in AllOperations :
                         outcome[o] = "pending" => outcome'[o] = "pending"]_vars
  BY NextInit
<1>. QED  BY <1>1, DriverInvariant, InitInvariant, PTL DEF Spec

============================================================================
