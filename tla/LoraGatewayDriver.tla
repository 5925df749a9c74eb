------------------------ MODULE LoraGatewayDriver ------------------------
(***************************************************************************)
(* The driver of the DX-SMART LR02 LoRa module                             *)
(* (src/lora_gateways/dx_smart_lr02_gw), with the module on the other end  *)
(* of the serial line.                                                     *)
(*                                                                         *)
(* A call makes an operation the caller can wait for and pushes a stage to *)
(* operation_queue_, which runs one stage at a time.  A stage is a         *)
(* pipeline: its own stages run one after the other, the first that fails  *)
(* ends it, and a stage that is empty (return {}) is skipped.  Most of     *)
(* them send an AT command and wait for the module's answer, a second or   *)
(* two at most.                                                            *)
(*                                                                         *)
(* The module obeys commands only in AT mode and sends everything else     *)
(* over the air; "+++" toggles the mode, and a reset may end AT mode.  The *)
(* driver keeps its own record of the mode in at_mode_, and starts with    *)
(* FALSE, whatever mode an earlier driver left the module in.              *)
(***************************************************************************)
EXTENDS Naturals, Sequences

CONSTANTS
    Operations, \* identities of the operations callers wait for
    Calls,      \* the calls they make
    Fates,      \* what can become of a command on the serial line
    InitOp,     \* what Init pushes, nobody waits for it
    NestedOp,   \* the operation a stage of Init waits for
    NoOp

AllCalls == {"Start", "Stop", "OpenNetwork", "OpenOtherNetwork", "SetPowerSaveParam",
             "SetLoraGatewayAddress", "SetLoraGatewayChannel", "SetLoraGatewayCRCCheck",
             "SetLoraGatewayIQSignalInversion"}

ASSUME DriverAssumption ==
    /\ Calls \subseteq AllCalls
    /\ Fates \subseteq {"answered", "unanswered", "lost"}
    /\ InitOp \notin Operations /\ NestedOp \notin Operations /\ NoOp \notin Operations
    /\ InitOp # NestedOp /\ InitOp # NoOp /\ NestedOp # NoOp

VARIABLES
    operation_queue, \* stages not run yet: the call and its operation
    current,         \* the operation whose stage runs
    stages,          \* what is left of its pipeline
    waits_for,       \* what the first of stages waits for
    at_mode,         \* at_mode_
    started,         \* started_
    polls,           \* how often SetupPoll was called
    outcome,         \* what an operation reported
    module_mode,     \* mode of the module
    out_of_step,     \* history: at_mode_ and the mode differ, by lost "+++",
                     \* by a reset or since the start
    due              \* history: commands of the pipeline not carried out yet

vars == <<operation_queue, current, stages, waits_for, at_mode, started, polls,
          outcome, module_mode, out_of_step, due>>

AllOperations == Operations \cup {InitOp, NestedOp}
Commands == {"AT", "AT+BAUD", "AT+PARI", "AT+STOP", "AT+MODE", "AT+LEVEL", "AT+POWE",
             "AT+BW", "AT+CR", "AT+SF", "AT+MAC", "AT+CHANNEL", "AT+CRC", "AT+IQ",
             "AT+RESET"}
\* Stages of Init that call an operation of the driver.
NestedStages == {"SetPowerSaveParam", "SetLoraGatewayAddress", "SetLoraGatewayChannel",
                 "SetLoraGatewayCRCCheck", "SetLoraGatewayIQSignalInversion"}
Stages == Commands \cup NestedStages
              \cup {"EnterAtMode", "ExitAtMode", "Open", "started", "initiated"}
\* Stages that are empty for some parameters: a baud rate, parity or number
\* of stop bits the module has no command for, a band width other than 125K,
\* a channel above 0x1E.
OptionalStages == {"AT+BAUD", "AT+PARI", "AT+STOP", "AT+BW", "SetLoraGatewayChannel"}
Answers == {"Entry AT", "Exit AT", "OK"}

TypeOK ==
    /\ operation_queue \in Seq([call : AllCalls \cup {"Init"}, op : AllOperations])
    /\ current \in AllOperations \cup {NoOp}
    /\ stages \in Seq(Stages)
    /\ waits_for \in Answers \cup {"nothing", "operation", "connection"}
    /\ at_mode \in BOOLEAN
    /\ started \in BOOLEAN
    /\ polls \in Nat
    /\ outcome \in [AllOperations -> {"none", "pending", "notified", "failed"}]
    /\ module_mode \in {"at", "transparent"}
    /\ out_of_step \in BOOLEAN
    /\ due \subseteq Commands

----------------------------------------------------------------------------
(* The pipelines.                                                          *)

\* One setting, in AT mode.
Setting(command) == <<"EnterAtMode", command, "ExitAtMode">>

\* Mutant: started_ is not looked up when the stage runs.
StartStagesAlways == <<"EnterAtMode", "ExitAtMode", "started">>

StartStages ==
    IF started THEN <<>> ELSE <<"EnterAtMode", "ExitAtMode", "started">>

StopStages == Setting("AT+RESET")

\* The open actions for TCP and UDP do nothing, and so do not end.
OpenNetworkStages == <<"Open">>

\* Mutant: the pipeline does not enter AT mode.
SetPowerSaveParamStagesOutside ==
    <<"AT+MODE", "AT+LEVEL", "AT+POWE", "AT+BW", "AT+CR", "AT+SF", "ExitAtMode">>

SetPowerSaveParamStages ==
    <<"EnterAtMode", "AT+MODE", "AT+LEVEL", "AT+POWE", "AT+BW", "AT+CR", "AT+SF",
      "ExitAtMode">>

SetLoraGatewayAddressStages == Setting("AT+MAC")
SetLoraGatewayChannelStages == Setting("AT+CHANNEL")
SetLoraGatewayCRCCheckStages == Setting("AT+CRC")
SetLoraGatewayIQSignalInversionStages == Setting("AT+IQ")

\* Mutant: a command the module does not have.
SetupSerialPortFlow == <<"AT+BAUD", "AT+PARI", "AT+FLOW">>

SetupSerialPort == <<"AT+BAUD", "AT+PARI", "AT+STOP">>

SetupLoraNet == <<"SetLoraGatewayAddress", "SetLoraGatewayChannel",
                  "SetLoraGatewayCRCCheck", "SetLoraGatewayIQSignalInversion">>

InitStages ==
    <<"EnterAtMode", "AT">> \o SetupSerialPort \o <<"SetPowerSaveParam">>
        \o SetupLoraNet \o <<"ExitAtMode", "initiated">>

\* The commands among some stages.
CommandsOf(s) == {c \in Commands : \E i \in 1 .. Len(s) : s[i] = c}

\* The pipeline a queued stage makes when it runs.
Pipeline(call) ==
    CASE call = "Init" -> InitStages
      [] call = "Start" -> StartStages
      [] call = "Stop" -> StopStages
      [] call = "OpenNetwork" -> OpenNetworkStages
      [] call = "SetPowerSaveParam" -> SetPowerSaveParamStages
      [] call = "SetLoraGatewayAddress" -> SetLoraGatewayAddressStages
      [] call = "SetLoraGatewayChannel" -> SetLoraGatewayChannelStages
      [] call = "SetLoraGatewayCRCCheck" -> SetLoraGatewayCRCCheckStages
      [] call = "SetLoraGatewayIQSignalInversion" -> SetLoraGatewayIQSignalInversionStages

\* What the constructor pushes, with nobody waiting for another operation.
InitQueue == <<[call |-> "Init", op |-> InitOp]>>
InitOutcome == [o \in AllOperations |-> IF o = InitOp THEN "pending" ELSE "none"]

\* The first driver finds the module in the mode it is switched on in.
Init ==
    /\ operation_queue = InitQueue
    /\ current = NoOp
    /\ stages = <<>>
    /\ waits_for = "nothing"
    /\ at_mode = FALSE
    /\ started = FALSE
    /\ polls = 0
    /\ outcome = InitOutcome
    /\ module_mode = "transparent"
    /\ out_of_step = FALSE
    /\ due = {}

----------------------------------------------------------------------------
(* The queue.                                                              *)

\* A call pushes its stage.  An identity is free when its operation is over.
Call(o, call) ==
    /\ outcome[o] # "pending"
    /\ operation_queue' = Append(operation_queue, [call |-> call, op |-> o])
    /\ outcome' = [outcome EXCEPT ![o] = "pending"]
    /\ UNCHANGED <<current, stages, waits_for, at_mode, started, polls, module_mode,
                   out_of_step, due>>

\* The next stage runs when the last is over.
RunNext ==
    /\ current = NoOp
    /\ operation_queue # <<>>
    /\ operation_queue' = Tail(operation_queue)
    /\ LET next == Head(operation_queue) IN
       \/ /\ next.call # "OpenOtherNetwork"
          /\ current' = next.op
          /\ stages' = Pipeline(next.call)
          /\ due' = CommandsOf(Pipeline(next.call))
       \* No pipeline for a protocol that is neither TCP nor UDP.
       \/ /\ next.call = "OpenOtherNetwork"
          /\ UNCHANGED <<current, stages, due>>
    /\ UNCHANGED <<waits_for, at_mode, started, polls, outcome, module_mode, out_of_step>>

\* Mutant: what has ended is tried again.
EndAgain(report) ==
    /\ waits_for' = "nothing"
    /\ outcome' = [outcome EXCEPT ![current] = report]
    /\ UNCHANGED <<current, stages, due>>

\* The pipeline ended: its operation reports, and the queue is free.
End(report) ==
    /\ current' = NoOp
    /\ stages' = <<>>
    /\ waits_for' = "nothing"
    /\ outcome' = [outcome EXCEPT ![current] = report]
    /\ due' = {}

Finish ==
    /\ current # NoOp
    /\ stages = <<>>
    /\ End("notified")
    /\ UNCHANGED <<operation_queue, at_mode, started, polls, module_mode, out_of_step>>

----------------------------------------------------------------------------
(* The stages.                                                             *)

Begins(stage) ==
    /\ waits_for = "nothing"
    /\ stages # <<>>
    /\ Head(stages) = stage

\* at_mode_ changes when the command is sent, not when it is answered.
EnterAtMode ==
    /\ Begins("EnterAtMode")
    /\ ~at_mode
    /\ at_mode' = TRUE
    /\ waits_for' = "Entry AT"
    /\ UNCHANGED <<operation_queue, current, stages, started, polls, outcome, module_mode,
                   out_of_step, due>>

\* "Exit AT" stands for the two words the request waits for, "Exit AT" and
\* "Power on": it is answered when both have come.
ExitAtMode ==
    /\ Begins("ExitAtMode")
    /\ at_mode
    /\ at_mode' = FALSE
    /\ waits_for' = "Exit AT"
    /\ UNCHANGED <<operation_queue, current, stages, started, polls, outcome, module_mode,
                   out_of_step, due>>

\* A stage that returns {}: the mode is right as recorded, or the parameter
\* has no command.
SkipStage(stage) ==
    /\ Begins(stage)
    /\ \/ stage = "EnterAtMode" /\ at_mode
       \/ stage = "ExitAtMode" /\ ~at_mode
       \/ stage \in OptionalStages
    /\ stages' = Tail(stages)
    /\ due' = due \ {stage}
    /\ UNCHANGED <<operation_queue, current, waits_for, at_mode, started, polls, outcome,
                   module_mode, out_of_step>>

\* Mutant: the stage does not wait for the answer.
MakeRequestUnwaited(command) ==
    /\ Begins(command)
    /\ stages' = Tail(stages)
    /\ UNCHANGED <<operation_queue, current, waits_for, at_mode, started, polls, outcome,
                   module_mode, out_of_step, due>>

MakeRequest(command) ==
    /\ Begins(command)
    /\ waits_for' = "OK"
    /\ UNCHANGED <<operation_queue, current, stages, at_mode, started, polls, outcome,
                   module_mode, out_of_step, due>>

\* Mutant: the operation goes before those that wait.
CallNestedFirst(call) ==
    /\ Begins(call)
    /\ operation_queue' = <<[call |-> call, op |-> NestedOp]>> \o operation_queue
    /\ outcome' = [outcome EXCEPT ![NestedOp] = "pending"]
    /\ waits_for' = "operation"
    /\ UNCHANGED <<current, stages, at_mode, started, polls, module_mode, out_of_step, due>>

\* A stage of Init calls an operation, which goes to the end of the queue.
CallNested(call) ==
    /\ Begins(call)
    /\ operation_queue' = Append(operation_queue, [call |-> call, op |-> NestedOp])
    /\ outcome' = [outcome EXCEPT ![NestedOp] = "pending"]
    /\ waits_for' = "operation"
    /\ UNCHANGED <<current, stages, at_mode, started, polls, module_mode, out_of_step, due>>

OpenConnection ==
    /\ Begins("Open")
    /\ waits_for' = "connection"
    /\ UNCHANGED <<operation_queue, current, stages, at_mode, started, polls, outcome,
                   module_mode, out_of_step, due>>

\* The last stage of Start, which sets up the poll, and of Init.
SetFlag(flag) ==
    /\ Begins(flag)
    /\ started' = (started \/ flag = "started")
    /\ polls' = IF flag = "started" THEN polls + 1 ELSE polls
    /\ stages' = Tail(stages)
    /\ UNCHANGED <<operation_queue, current, waits_for, at_mode, outcome, module_mode,
                   out_of_step, due>>

\* What the stage waits for is there.
Arrives(fate) ==
    CASE waits_for = "Entry AT" -> fate = "answered" /\ module_mode = "transparent"
      [] waits_for = "Exit AT" -> fate = "answered" /\ module_mode = "at"
      [] waits_for = "OK" -> fate = "answered" /\ module_mode = "at"
      [] waits_for = "operation" -> outcome[NestedOp] = "notified"

\* "+++" is under way.
Escaping == waits_for \in {"Entry AT", "Exit AT"}

\* AT+RESET is under way to a module that obeys it.
Resetting == waits_for = "OK" /\ Head(stages) = "AT+RESET" /\ module_mode = "at"

\* The modes in which what is under way may leave the module if it arrives.
\* Whether a reset module comes up in AT mode or in the mode it is switched on
\* in is not said anywhere in the repository.
ModesReached ==
    IF Escaping THEN {"at", "transparent"} \ {module_mode}
    ELSE IF Resetting THEN {"at", "transparent"}
    ELSE {module_mode}

\* The request's answer or its timeout; or the nested operation's report.
StageEnds(fate) ==
    /\ waits_for \in Answers \cup {"operation"}
    /\ waits_for = "operation" => outcome[NestedOp] # "pending"
    /\ module_mode' \in IF fate = "lost" THEN {module_mode} ELSE ModesReached
    /\ out_of_step' = IF \/ Escaping /\ fate = "lost"
                         \/ Resetting /\ module_mode' = "transparent"
                      THEN ~out_of_step ELSE out_of_step
    /\ \/ /\ Arrives(fate)
          /\ stages' = Tail(stages)
          /\ waits_for' = "nothing"
          /\ due' = IF waits_for = "OK" THEN due \ {Head(stages)} ELSE due
          /\ UNCHANGED <<current, outcome>>
       \/ /\ ~Arrives(fate)
          /\ End("failed")
    /\ UNCHANGED <<operation_queue, at_mode, started, polls>>

RunStage ==
    \/ EnterAtMode
    \/ ExitAtMode
    \/ \E stage \in OptionalStages \cup {"EnterAtMode", "ExitAtMode"} : SkipStage(stage)
    \/ \E command \in Commands : MakeRequest(command)
    \/ \E call \in NestedStages : CallNested(call)
    \/ OpenConnection
    \/ \E flag \in {"started", "initiated"} : SetFlag(flag)
    \/ Finish

\* The driver is gone, with its queue and the Stop that its destructor pushes
\* there, and another is made for the module, which keeps its mode.  A "+++" or
\* a reset under way may still reach it.
Restart ==
    /\ operation_queue' = InitQueue
    /\ current' = NoOp
    /\ stages' = <<>>
    /\ waits_for' = "nothing"
    /\ at_mode' = FALSE
    /\ started' = FALSE
    /\ polls' = 0
    /\ outcome' = InitOutcome
    /\ module_mode' \in {module_mode} \cup ModesReached
    /\ out_of_step' = (module_mode' = "at")
    /\ due' = {}

Next ==
    \/ \E o \in Operations, call \in Calls : Call(o, call)
    \/ RunNext
    \/ RunStage
    \/ \E fate \in Fates : StageEnds(fate)
    \/ Restart

Spec == Init /\ [][Next]_vars

\* The loop runs the queue and its stages, and a request has a timeout.
Fairness ==
    /\ WF_vars(RunNext)
    /\ WF_vars(RunStage)
    /\ WF_vars(\E fate \in Fates : StageEnds(fate))

FairSpec == Spec /\ Fairness

----------------------------------------------------------------------------
(* Correctness.                                                            *)

\* However the operations before ended: at_mode_ differs from the module's
\* mode by the mode the driver found it in, the "+++" that were lost, and the
\* resets that took it out of AT mode, and by nothing else; and commands are
\* sent in the mode the driver takes for AT mode.
ModeInStep ==
    ~Escaping =>
        /\ out_of_step <=> ~(at_mode <=> module_mode = "at")
        /\ waits_for = "OK" => at_mode

\* An operation reports success only when the module has carried out every
\* command of its pipeline that the parameters call for.
SuccessObeyed == current # NoOp /\ stages = <<>> => due = {}

\* The poll task and its listener are set up once, however many Starts wait
\* in the queue together.
PollSetUpOnce == polls <= 1

\* The stages in the queue, with the calls that have a pipeline to report.
Entry(queued) == [op |-> queued.op, answered |-> queued.call # "OpenOtherNetwork"]
Entries(queue) == [i \in 1 .. Len(queue) |-> Entry(queue[i])]

\* The operation that runs is at the head of the queue until it has reported.
Running == IF current = NoOp THEN <<>> ELSE <<[op |-> current, answered |-> TRUE]>>
Unfinished == Running \o Entries(operation_queue)

\* The driver keeps the promise of OperationQueue: operations run one at a
\* time in the order of the calls, the nested ones among them, and each
\* reports once, whatever becomes of its commands.
Promise == INSTANCE OperationQueue
               WITH Operations <- AllOperations, First <- InitOp,
                    queue <- Unfinished

QueueSpec == Promise!Spec

\* The queue is stuck behind an open action, or behind Init, which waits for
\* an operation behind it in the queue.
QueueBlocked ==
    \/ waits_for = "connection"
    \/ waits_for = "operation" /\ outcome[NestedOp] = "pending"

Queued(o) ==
    \/ current = o
    \/ \E i \in DOMAIN operation_queue : operation_queue[i].op = o

\* An operation is run and is over in the end, unless the queue is blocked:
\* no failure of a command keeps the others from running.
OperationsRun ==
    \A o \in Operations : Queued(o) ~> ~Queued(o) \/ QueueBlocked

\* Init reports "init success" or "init failed", unless drivers are made
\* again and again.
InitReports == <>(outcome[InitOp] # "pending") \/ []<><<Restart>>_vars

\* "Enter AT command mode" comes first in every pipeline, so that its
\* commands find the module in AT mode.  (A lost "+++" is enough to break it;
\* no reset is needed.)
CommandsInAtMode == waits_for = "OK" => module_mode = "at"

============================================================================
