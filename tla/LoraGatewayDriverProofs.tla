---------------------- MODULE LoraGatewayDriverProofs ----------------------
(***************************************************************************)
(* The safety of LoraGatewayDriver, for any set of operations, whatever     *)
(* becomes of the commands on the serial line and however often the driver *)
(* is made again.                                                          *)
(***************************************************************************)
EXTENDS LoraGatewayDriver, SequenceTheorems, TLAPS

\* The shape of a pipeline and of what is left of it: AT mode is entered
\* first if at all, no command follows "Exit AT command mode", and saving
\* that the gateway is started comes last.
WellFormed(s) ==
    /\ s \in Seq(Stages)
    /\ \A i \in 1 .. Len(s) : s[i] = "EnterAtMode" => i = 1
    /\ \A i, j \in 1 .. Len(s) : s[i] = "ExitAtMode" /\ s[j] \in Commands => j < i
    /\ \A i \in 1 .. Len(s) : s[i] = "started" => i = Len(s)

\* at_mode_ is set while a command is to come, unless "Enter AT command
\* mode" comes before it.
CommandsPrepared(s, mode) ==
    \A i \in 1 .. Len(s) : s[i] \in Commands => mode \/ s[1] = "EnterAtMode"

\* What is waited for is what the first stage asked for.
WaitsFit ==
    /\ current = NoOp => stages = <<>> /\ waits_for = "nothing"
    /\ waits_for # "nothing" => stages # <<>>
    /\ waits_for = "Entry AT" => stages[1] = "EnterAtMode" /\ at_mode
    /\ waits_for = "Exit AT" => stages[1] = "ExitAtMode" /\ ~at_mode
    /\ waits_for = "OK" => stages[1] \in Commands
    /\ waits_for = "operation" => stages[1] \in NestedStages

\* The module is in the mode recorded, unless they are out of step; while a
\* "+++" is under way, it is the other way round.
ModeRecorded ==
    /\ waits_for \in {"Entry AT", "Exit AT"} =>
          (out_of_step <=> (at_mode <=> module_mode = "at"))
    /\ waits_for \notin {"Entry AT", "Exit AT"} =>
          (out_of_step <=> ~(at_mode <=> module_mode = "at"))

\* Commands not carried out are still to come.
DueAhead == \A c \in due : \E i \in 1 .. Len(stages) : stages[i] = c

PollCounted ==
    /\ polls = IF started THEN 1 ELSE 0
    /\ \A i \in 1 .. Len(stages) : stages[i] = "started" => ~started

DriverInv ==
    /\ TypeOK
    /\ WellFormed(stages)
    /\ CommandsPrepared(stages, at_mode)
    /\ WaitsFit
    /\ ModeRecorded
    /\ PollCounted
    /\ DueAhead

----------------------------------------------------------------------------

\* What is left of a sequence of stages after its first.
LEMMA TailOfStages ==
    ASSUME NEW s \in Seq(Stages), s # <<>>
    PROVE  /\ Tail(s) \in Seq(Stages)
           /\ Len(s) \in Nat \ {0} /\ Len(Tail(s)) = Len(s) - 1
           /\ Head(s) = s[1]
           /\ \A i \in 1 .. Len(Tail(s)) : Tail(s)[i] = s[i + 1]
  OBVIOUS

\* The first stage of a pipeline that is well formed may end: what is left is
\* well formed, and prepared if its commands are recorded to come in AT mode.
LEMMA TailFits ==
    ASSUME NEW s, WellFormed(s), s # <<>>, NEW mode \in BOOLEAN,
           CommandsPrepared(s, mode), s[1] = "EnterAtMode" => mode
    PROVE  WellFormed(Tail(s)) /\ CommandsPrepared(Tail(s), mode)
<1>1. s \in Seq(Stages)
  BY DEF WellFormed
<1>2. /\ Tail(s) \in Seq(Stages)
      /\ Len(s) \in Nat \ {0} /\ Len(Tail(s)) = Len(s) - 1
      /\ \A i \in 1 .. Len(Tail(s)) : Tail(s)[i] = s[i + 1]
  BY <1>1, TailOfStages
<1>3. \A i \in 1 .. Len(Tail(s)) :
          i + 1 \in 1 .. Len(s) /\ i + 1 # 1 /\ Tail(s)[i] = s[i + 1]
  BY <1>2
<1>4. \A i \in 1 .. Len(Tail(s)) : Tail(s)[i] = "EnterAtMode" => i = 1
  BY <1>3 DEF WellFormed
<1>5. \A i, j \in 1 .. Len(Tail(s)) :
          Tail(s)[i] = "ExitAtMode" /\ Tail(s)[j] \in Commands => j < i
  <2>. SUFFICES ASSUME NEW i \in 1 .. Len(Tail(s)), NEW j \in 1 .. Len(Tail(s)),
                       Tail(s)[i] = "ExitAtMode", Tail(s)[j] \in Commands
                PROVE  j < i
    OBVIOUS
  <2>1. j + 1 < i + 1
    BY <1>3 DEF WellFormed
  <2>. QED  BY <2>1
<1>6. \A i \in 1 .. Len(Tail(s)) : Tail(s)[i] = "started" => i = Len(Tail(s))
  <2>. SUFFICES ASSUME NEW i \in 1 .. Len(Tail(s)), Tail(s)[i] = "started"
                PROVE  i = Len(Tail(s))
    OBVIOUS
  <2>1. i + 1 = Len(s) /\ i \in Nat
    BY <1>3 DEF WellFormed
  <2>2. Len(Tail(s)) = Len(s) - 1
    BY <1>2
  <2>. QED  BY ONLY <2>1, <2>2
<1>7. CommandsPrepared(Tail(s), mode)
  <2>. SUFFICES ASSUME NEW i \in 1 .. Len(Tail(s)), Tail(s)[i] \in Commands
                PROVE  mode
    BY DEF CommandsPrepared
  <2>. QED  BY <1>3 DEF CommandsPrepared
<1>. QED  BY <1>2, <1>4, <1>5, <1>6, <1>7 DEF WellFormed

\* What was due and is not the first stage comes after it.
LEMMA TailHasDue ==
    ASSUME NEW s \in Seq(Stages), s # <<>>, NEW c, c # s[1],
           \E i \in 1 .. Len(s) : s[i] = c
    PROVE  \E i \in 1 .. Len(Tail(s)) : Tail(s)[i] = c
<1>1. PICK i \in 1 .. Len(s) : s[i] = c
  OBVIOUS
<1>2. /\ Len(s) \in Nat \ {0} /\ Len(Tail(s)) = Len(s) - 1
      /\ \A j \in 1 .. Len(Tail(s)) : Tail(s)[j] = s[j + 1]
  BY TailOfStages
<1>3. i # 1
  BY <1>1
<1>4. i - 1 \in 1 .. Len(Tail(s)) /\ (i - 1) + 1 = i
  BY <1>2, <1>3
<1>. QED  BY <1>1, <1>2, <1>4

\* Commands and operations that follow "Enter AT command mode".
Entered(s) ==
    /\ s \in Seq(Stages) /\ s # <<>>
    /\ s[1] = "EnterAtMode"
    /\ \A i \in 2 .. Len(s) : s[i] \in Commands \cup NestedStages

\* More commands and operations may follow them.
LEMMA EnteredGoesOn ==
    ASSUME NEW s, Entered(s), NEW t \in Seq(Commands \cup NestedStages)
    PROVE  Entered(s \o t)
<1>1. s \in Seq(Stages) /\ t \in Seq(Stages) /\ Len(s) \in Nat \ {0} /\ Len(t) \in Nat
  BY DEF Entered, Stages
<1>2. /\ s \o t \in Seq(Stages)
      /\ Len(s \o t) = Len(s) + Len(t)
      /\ \A i \in 1 .. Len(s) : (s \o t)[i] = s[i]
      /\ \A i \in Len(s) + 1 .. Len(s) + Len(t) : (s \o t)[i] = t[i - Len(s)]
  BY <1>1
<1>3. \A i \in 1 .. Len(t) : t[i] \in Commands \cup NestedStages
  OBVIOUS
<1>. QED  BY <1>1, <1>2, <1>3 DEF Entered

\* The pipeline of Init enters AT mode, and leaves it at the end.
LEMMA InitStagesFit ==
    ASSUME NEW mode \in BOOLEAN
    PROVE  /\ WellFormed(InitStages)
           /\ CommandsPrepared(InitStages, mode)
           /\ \A i \in 1 .. Len(InitStages) : InitStages[i] # "started"
<1>. DEFINE s1 == <<"EnterAtMode", "AT">>
            s2 == s1 \o SetupSerialPort
            s3 == s2 \o <<"SetPowerSaveParam">>
            s4 == s3 \o SetupLoraNet
            t == <<"ExitAtMode", "initiated">>
<1>1. Entered(s1)
  BY DEF Entered, Stages, Commands
<1>2. /\ SetupSerialPort \in Seq(Commands \cup NestedStages)
      /\ <<"SetPowerSaveParam">> \in Seq(Commands \cup NestedStages)
      /\ SetupLoraNet \in Seq(Commands \cup NestedStages)
  BY DEF SetupSerialPort, SetupLoraNet, Commands, NestedStages
<1>. HIDE DEF s1
<1>3. Entered(s2)
  BY <1>1, <1>2, EnteredGoesOn
<1>. HIDE DEF s2
<1>4. Entered(s3)
  BY <1>2, <1>3, EnteredGoesOn
<1>. HIDE DEF s3
<1>5. Entered(s4)
  BY <1>2, <1>4, EnteredGoesOn
<1>6. InitStages = s4 \o t
  BY DEF InitStages, s1, s2, s3
<1>. HIDE DEF s4
<1>7. t \in Seq(Stages) /\ Len(t) = 2 /\ t[1] = "ExitAtMode" /\ t[2] = "initiated"
  BY DEF Stages
<1>. HIDE DEF t
<1>8. s4 \in Seq(Stages) /\ Len(s4) \in Nat \ {0}
  BY <1>5 DEF Entered
<1>9. /\ InitStages \in Seq(Stages)
      /\ Len(InitStages) = Len(s4) + 2
      /\ \A i \in 1 .. Len(s4) : InitStages[i] = s4[i]
      /\ InitStages[Len(s4) + 1] = "ExitAtMode"
      /\ InitStages[Len(s4) + 2] = "initiated"
  <2>1. /\ s4 \o t \in Seq(Stages)
        /\ Len(s4 \o t) = Len(s4) + Len(t)
        /\ \A i \in 1 .. Len(s4) + Len(t) :
              (s4 \o t)[i] = IF i <= Len(s4) THEN s4[i] ELSE t[i - Len(s4)]
    BY <1>7, <1>8, ConcatProperties
  <2>2. \A i \in 1 .. Len(s4) : (s4 \o t)[i] = s4[i]
    BY <1>7, <1>8, <2>1
  <2>3. (s4 \o t)[Len(s4) + 1] = t[1] /\ (s4 \o t)[Len(s4) + 2] = t[2]
    BY <1>7, <1>8, <2>1
  <2>. QED  BY <1>6, <1>7, <2>1, <2>2, <2>3
<1>10. /\ InitStages[1] = "EnterAtMode"
       /\ \A i \in 1 .. Len(InitStages) :
             \/ i = 1
             \/ i \in 2 .. Len(s4) /\ InitStages[i] \in Commands \cup NestedStages
             \/ i = Len(s4) + 1
             \/ i = Len(s4) + 2
  BY <1>5, <1>8, <1>9 DEF Entered
<1>. QED  BY <1>8, <1>9, <1>10 DEF WellFormed, CommandsPrepared, Commands, NestedStages

\* Every pipeline is well formed, and enters AT mode before its commands.
LEMMA PipelinesFit ==
    ASSUME NEW call \in (AllCalls \cup {"Init"}) \ {"OpenOtherNetwork"},
           NEW mode \in BOOLEAN
    PROVE  /\ WellFormed(Pipeline(call))
           /\ CommandsPrepared(Pipeline(call), mode)
           /\ \A i \in 1 .. Len(Pipeline(call)) : Pipeline(call)[i] = "started" => ~started
<1>. DEFINE Fits(s) == /\ WellFormed(s)
                       /\ CommandsPrepared(s, mode)
                       /\ \A i \in 1 .. Len(s) : s[i] = "started" => ~started
<1>. USE DEF Stages, Commands, NestedStages, WellFormed, CommandsPrepared
<1>1. Fits(InitStages)
  BY InitStagesFit
<1>2. Fits(StartStages)
  <2>1. ASSUME started  PROVE Fits(<<>>)
    OBVIOUS
  <2>2. ASSUME ~started  PROVE Fits(<<"EnterAtMode", "ExitAtMode", "started">>)
    BY <2>2
  <2>. HIDE DEF Fits, WellFormed, CommandsPrepared
  <2>. QED  BY <2>1, <2>2 DEF StartStages
<1>3. \A command \in Commands : Fits(Setting(command))
  BY DEF Setting
<1>4. Fits(OpenNetworkStages)
  BY DEF OpenNetworkStages
<1>5. Fits(SetPowerSaveParamStages)
  BY DEF SetPowerSaveParamStages
<1>. HIDE DEF Fits, WellFormed, CommandsPrepared
<1>6. Fits(Pipeline(call))
  BY <1>1, <1>2, <1>3, <1>4, <1>5
     DEF Pipeline, AllCalls, StopStages, SetLoraGatewayAddressStages,
         SetLoraGatewayChannelStages, SetLoraGatewayCRCCheckStages,
         SetLoraGatewayIQSignalInversionStages
<1>. QED  BY <1>6 DEF Fits

----------------------------------------------------------------------------

\* A call touches the queue and its own operation only.
LEMMA CallInv ==
    ASSUME DriverInv, NEW o \in Operations, NEW call \in Calls, Call(o, call)
    PROVE  DriverInv'
<1>1. TypeOK'
  BY DriverAssumption DEF Call, DriverInv, TypeOK, DriverAssumption, AllOperations
<1>. QED  BY <1>1 DEF Call, DriverInv, WaitsFit, ModeRecorded, PollCounted, DueAhead

\* The next stage brings its pipeline, which finds nothing left of the last.
LEMMA RunNextInv ==
    ASSUME DriverInv, RunNext
    PROVE  DriverInv'
<1>. DEFINE next == Head(operation_queue)
<1>1. /\ next \in [call : AllCalls \cup {"Init"}, op : AllOperations]
      /\ operation_queue' \in Seq([call : AllCalls \cup {"Init"}, op : AllOperations])
  <2>. DEFINE S == [call : AllCalls \cup {"Init"}, op : AllOperations]
  <2>1. operation_queue \in Seq(S) /\ operation_queue # <<>>
    BY DEF RunNext, DriverInv, TypeOK
  <2>. HIDE DEF S
  <2>2. Head(operation_queue) \in S /\ Tail(operation_queue) \in Seq(S)
    BY <2>1
  <2>. QED  BY <2>2 DEF RunNext, S
<1>2. /\ current = NoOp /\ stages = <<>> /\ waits_for = "nothing"
      /\ UNCHANGED <<waits_for, at_mode, started, polls, outcome, module_mode, out_of_step>>
  BY DEF RunNext, DriverInv, WaitsFit
<1>3. CASE next.call = "OpenOtherNetwork"
  <2>1. UNCHANGED <<current, stages, due>>
    BY <1>3 DEF RunNext
  <2>. QED  BY <1>1, <1>2, <2>1
            DEF DriverInv, TypeOK, WaitsFit, ModeRecorded, PollCounted, DueAhead
<1>4. CASE next.call # "OpenOtherNetwork"
  <2>1. /\ current' = next.op /\ stages' = Pipeline(next.call)
        /\ due' = CommandsOf(stages')
    BY <1>4 DEF RunNext
  <2>2. at_mode \in BOOLEAN
    BY DEF DriverInv, TypeOK
  <2>3. /\ WellFormed(stages') /\ CommandsPrepared(stages', at_mode)
        /\ \A i \in 1 .. Len(stages') : stages'[i] = "started" => ~started
    <3>1. next.call \in (AllCalls \cup {"Init"}) \ {"OpenOtherNetwork"}
      BY <1>1, <1>4
    <3>. HIDE DEF next
    <3>. QED  BY <2>1, <2>2, <3>1, PipelinesFit
  <2>4. current' \in AllOperations /\ current' # NoOp
    BY <1>1, <2>1, DriverAssumption DEF DriverAssumption, AllOperations
  <2>5. TypeOK'
    BY <1>1, <1>2, <2>1, <2>3, <2>4 DEF DriverInv, TypeOK, WellFormed, CommandsOf
  <2>6. DueAhead'
    BY <2>1 DEF DueAhead, CommandsOf
  <2>. QED  BY <1>2, <2>3, <2>4, <2>5, <2>6
            DEF DriverInv, WaitsFit, ModeRecorded, PollCounted
<1>. QED  BY <1>3, <1>4

\* The steps of the stage that runs, but not its end.
LEMMA RunStageInv ==
    ASSUME DriverInv, RunStage
    PROVE  DriverInv'
<1>1. /\ TypeOK /\ WellFormed(stages) /\ CommandsPrepared(stages, at_mode)
      /\ WaitsFit /\ ModeRecorded /\ PollCounted /\ DueAhead
  BY DEF DriverInv
<1>2. stages # <<>> => Head(stages) = stages[1] /\ Len(stages) \in Nat \ {0}
  BY <1>1, TailOfStages DEF TypeOK
<1>3. ASSUME EnterAtMode  PROVE DriverInv'
  <2>1. TypeOK' /\ WellFormed(stages')
    BY <1>1, <1>3 DEF EnterAtMode, TypeOK, Answers
  <2>2. CommandsPrepared(stages', at_mode')
    BY <1>3 DEF EnterAtMode, CommandsPrepared
  <2>3. WaitsFit' /\ ModeRecorded' /\ PollCounted' /\ DueAhead'
    BY <1>1, <1>2, <1>3 DEF EnterAtMode, Begins, TypeOK, WaitsFit, ModeRecorded, PollCounted,
                            DueAhead
  <2>. QED  BY <2>1, <2>2, <2>3 DEF DriverInv
<1>4. ASSUME ExitAtMode  PROVE DriverInv'
  <2>1. TypeOK' /\ WellFormed(stages')
    BY <1>1, <1>4 DEF ExitAtMode, TypeOK, Answers
  <2>2. CommandsPrepared(stages', at_mode')
    <3>1. stages # <<>> /\ stages[1] = "ExitAtMode" /\ stages' = stages
      BY <1>2, <1>4 DEF ExitAtMode, Begins
    <3>2. \A j \in 1 .. Len(stages) : stages[j] \notin Commands
      BY <1>1, <1>2, <3>1 DEF WellFormed
    <3>. QED  BY <3>1, <3>2 DEF CommandsPrepared
  <2>3. WaitsFit' /\ ModeRecorded' /\ PollCounted' /\ DueAhead'
    BY <1>1, <1>2, <1>4 DEF ExitAtMode, Begins, TypeOK, WaitsFit, ModeRecorded, PollCounted,
                            DueAhead
  <2>. QED  BY <2>1, <2>2, <2>3 DEF DriverInv
<1>5. ASSUME NEW stage \in OptionalStages \cup {"EnterAtMode", "ExitAtMode"}, SkipStage(stage)
      PROVE  DriverInv'
  <2>1. /\ waits_for = "nothing" /\ stages # <<>> /\ stages[1] = stage
        /\ stage = "EnterAtMode" => at_mode
        /\ stages' = Tail(stages)
        /\ due' = due \ {stage}
        /\ UNCHANGED <<operation_queue, current, waits_for, at_mode, started, polls, outcome,
                       module_mode, out_of_step>>
    BY <1>2, <1>5 DEF SkipStage, Begins, OptionalStages
  <2>2. WellFormed(stages') /\ CommandsPrepared(stages', at_mode)
    BY <1>1, <2>1, TailFits DEF TypeOK
  <2>3. TypeOK'
    BY <1>1, <2>1, <2>2 DEF TypeOK, WellFormed
  <2>4. WaitsFit' /\ ModeRecorded'
    BY <1>1, <2>1 DEF WaitsFit, ModeRecorded
  <2>5. PollCounted'
    BY <1>1, <2>1, TailOfStages DEF PollCounted, TypeOK
  <2>6. DueAhead'
    <3>. SUFFICES ASSUME NEW c \in due, c # stages[1]
                  PROVE  \E i \in 1 .. Len(Tail(stages)) : Tail(stages)[i] = c
      BY <2>1 DEF DueAhead
    <3>. QED  BY <1>1, <2>1, TailHasDue DEF DueAhead, TypeOK
  <2>. QED  BY <2>1, <2>2, <2>3, <2>4, <2>5, <2>6 DEF DriverInv
<1>6. ASSUME NEW command \in Commands, MakeRequest(command)  PROVE DriverInv'
  <2>1. TypeOK' /\ WellFormed(stages') /\ CommandsPrepared(stages', at_mode')
    BY <1>1, <1>6 DEF MakeRequest, TypeOK, Answers
  <2>2. WaitsFit' /\ ModeRecorded' /\ PollCounted' /\ DueAhead'
    BY <1>1, <1>2, <1>6 DEF MakeRequest, Begins, WaitsFit, ModeRecorded, PollCounted,
                            DueAhead
  <2>. QED  BY <2>1, <2>2 DEF DriverInv
<1>7. ASSUME NEW call \in NestedStages, CallNested(call)  PROVE DriverInv'
  <2>1. [call |-> call, op |-> NestedOp] \in [call : AllCalls \cup {"Init"}, op : AllOperations]
    BY DEF NestedStages, AllCalls, AllOperations
  <2>2. TypeOK' /\ WellFormed(stages') /\ CommandsPrepared(stages', at_mode')
    BY <1>1, <1>7, <2>1 DEF CallNested, TypeOK
  <2>3. WaitsFit' /\ ModeRecorded' /\ PollCounted' /\ DueAhead'
    BY <1>1, <1>2, <1>7 DEF CallNested, Begins, WaitsFit, ModeRecorded, PollCounted,
                            DueAhead
  <2>. QED  BY <2>2, <2>3 DEF DriverInv
<1>8. ASSUME OpenConnection  PROVE DriverInv'
  BY <1>1, <1>8 
     DEF OpenConnection, Begins, DriverInv, TypeOK, WaitsFit, ModeRecorded, PollCounted,
         DueAhead
<1>9. ASSUME NEW flag \in {"started", "initiated"}, SetFlag(flag)  PROVE DriverInv'
  <2>1. /\ waits_for = "nothing" /\ stages # <<>> /\ stages[1] = flag
        /\ started' = (started \/ flag = "started")
        /\ polls' = IF flag = "started" THEN polls + 1 ELSE polls
        /\ stages' = Tail(stages)
        /\ UNCHANGED <<operation_queue, current, waits_for, at_mode, outcome, module_mode,
                       out_of_step, due>>
    BY <1>2, <1>9 DEF SetFlag, Begins
  <2>2. WellFormed(stages') /\ CommandsPrepared(stages', at_mode)
    BY <1>1, <2>1, TailFits DEF TypeOK
  <2>3. TypeOK'
    BY <1>1, <2>1, <2>2 DEF TypeOK, WellFormed
  <2>4. WaitsFit' /\ ModeRecorded'
    BY <1>1, <2>1 DEF WaitsFit, ModeRecorded
  <2>5. PollCounted'
    <3>1. CASE flag = "started"
      <4>1. 1 \in 1 .. Len(stages)
        BY <1>2, <2>1
      <4>2. ~started /\ Len(stages) = 1
        BY <1>1, <2>1, <3>1, <4>1 DEF PollCounted, WellFormed
      <4>3. Len(stages') = 0
        BY <1>1, <2>1, <4>2, TailOfStages DEF TypeOK
      <4>4. started' = TRUE
        BY <2>1, <3>1, Zenon
      <4>5. polls' = 1
        BY <1>1, <2>1, <3>1, <4>2 DEF PollCounted
      <4>. QED  BY <4>3, <4>4, <4>5 DEF PollCounted
    <3>2. CASE flag = "initiated"
      <4>1. started' = started /\ polls' = polls
        BY <1>1, <2>1, <3>2 DEF TypeOK
      <4>. QED  BY <1>1, <2>1, <4>1, TailOfStages DEF PollCounted, TypeOK
    <3>. QED  BY <3>1, <3>2
  <2>6. DueAhead'
    <3>. SUFFICES ASSUME NEW c \in due
                  PROVE  \E i \in 1 .. Len(Tail(stages)) : Tail(stages)[i] = c
      BY <2>1 DEF DueAhead
    <3>1. c # stages[1]
      BY <1>1, <2>1 DEF TypeOK, Commands
    <3>. QED  BY <1>1, <2>1, <3>1, TailHasDue DEF DueAhead, TypeOK
  <2>. QED  BY <2>1, <2>2, <2>3, <2>4, <2>5, <2>6 DEF DriverInv
<1>10. ASSUME Finish  PROVE DriverInv'
  BY <1>1, <1>10 DEF Finish, End, DriverInv, TypeOK, WellFormed, CommandsPrepared, WaitsFit,
                     ModeRecorded, PollCounted, DueAhead
<1>. QED  BY <1>3, <1>4, <1>5, <1>6, <1>7, <1>8, <1>9, <1>10 DEF RunStage

\* The answer, the timeout or the report that ends a stage.  A "+++" that
\* reaches the module toggles its mode, answered or not; a reset that reaches
\* it in AT mode may end AT mode.
LEMMA StageEndsInv ==
    ASSUME DriverInv, NEW fate \in Fates, StageEnds(fate)
    PROVE  DriverInv'
<1>1. /\ TypeOK /\ WellFormed(stages) /\ CommandsPrepared(stages, at_mode)
      /\ WaitsFit /\ ModeRecorded /\ PollCounted /\ DueAhead
  BY DEF DriverInv
<1>2. /\ stages # <<>> /\ current # NoOp
      /\ UNCHANGED <<operation_queue, at_mode, started, polls>>
      /\ waits_for' = "nothing"
  BY <1>1 DEF StageEnds, End, WaitsFit, Answers
<1>3. module_mode' \in {"at", "transparent"} /\ out_of_step' \in BOOLEAN
  <2>1. module_mode' \in {"at", "transparent"}
    BY <1>1 DEF StageEnds, ModesReached, TypeOK
  <2>2. out_of_step' \in {out_of_step, ~out_of_step}
    BY Zenon DEF StageEnds
  <2>. QED  BY <1>1, <2>1, <2>2 DEF TypeOK
<1>4. ModeRecorded'
  <2>1. CASE Escaping /\ fate = "lost"
    <3>1. module_mode' = module_mode /\ out_of_step' = ~out_of_step
      BY <2>1 DEF StageEnds
    <3>. QED  BY <1>1, <1>2, <2>1, <3>1 DEF ModeRecorded, TypeOK, Escaping
  <2>2. CASE Escaping /\ fate # "lost"
    <3>1. /\ module_mode' \in {"at", "transparent"} \ {module_mode}
          /\ out_of_step' = out_of_step
      BY <2>2 DEF StageEnds, ModesReached, Escaping, Resetting
    <3>2. module_mode' = "at" <=> module_mode # "at"
      BY <1>1, <3>1 DEF TypeOK
    <3>3. at_mode \in BOOLEAN /\ (out_of_step <=> (at_mode <=> module_mode = "at"))
      BY <1>1, <2>2, Zenon DEF ModeRecorded, TypeOK, Escaping
    <3>4. out_of_step' <=> ~(at_mode' <=> module_mode' = "at")
      BY <1>2, <3>1, <3>2, <3>3
    <3>. QED  BY <1>2, <3>4 DEF ModeRecorded
  <2>3. CASE Resetting /\ module_mode' = "transparent"
    <3>1. out_of_step' = ~out_of_step /\ module_mode = "at" /\ waits_for = "OK"
      BY <2>3 DEF StageEnds, Resetting
    <3>. QED  BY <1>1, <1>2, <2>3, <3>1 DEF ModeRecorded, TypeOK
  <2>4. CASE ~Escaping /\ ~(Resetting /\ module_mode' = "transparent")
    <3>1. module_mode' = module_mode /\ out_of_step' = out_of_step
      BY <1>3, <2>4 DEF StageEnds, ModesReached, Resetting
    <3>. QED  BY <1>1, <1>2, <2>4, <3>1 DEF ModeRecorded, Escaping
  <2>. QED  BY <2>1, <2>2, <2>3, <2>4
<1>5. CASE /\ stages' = Tail(stages)
           /\ due' = IF waits_for = "OK" THEN due \ {Head(stages)} ELSE due
           /\ UNCHANGED <<current, outcome>>
  <2>1. stages[1] = "EnterAtMode" => at_mode
    BY <1>1 DEF StageEnds, WaitsFit, Answers, Commands, NestedStages
  <2>2. WellFormed(stages') /\ CommandsPrepared(stages', at_mode)
    BY <1>1, <1>2, <1>5, <2>1, TailFits DEF TypeOK
  <2>3. TypeOK'
    BY <1>1, <1>2, <1>3, <1>5, <2>2 DEF TypeOK, WellFormed
  <2>4. PollCounted'
    BY <1>1, <1>2, <1>5, TailOfStages DEF PollCounted, TypeOK
  <2>5. DueAhead'
    <3>. SUFFICES ASSUME NEW c \in due, waits_for = "OK" => c # stages[1]
                  PROVE  \E i \in 1 .. Len(Tail(stages)) : Tail(stages)[i] = c
      BY <1>1, <1>2, <1>5, TailOfStages DEF DueAhead, TypeOK
    <3>1. c # stages[1]
      BY <1>1 DEF StageEnds, WaitsFit, Answers, TypeOK, Commands, NestedStages
    <3>. QED  BY <1>1, <1>2, <3>1, TailHasDue DEF DueAhead, TypeOK
  <2>. QED  BY <1>2, <1>4, <1>5, <2>2, <2>3, <2>4, <2>5 DEF DriverInv, WaitsFit
<1>6. CASE End("failed")
  <2>1. stages' = <<>> /\ current' = NoOp /\ due' = {}
    BY <1>6 DEF End
  <2>2. WellFormed(stages') /\ CommandsPrepared(stages', at_mode') /\ WaitsFit'
    BY <1>2, <2>1 DEF WellFormed, CommandsPrepared, WaitsFit
  <2>3. TypeOK'
    BY <1>1, <1>2, <1>3, <1>6, <2>1 DEF TypeOK, End
  <2>4. PollCounted'
    BY <1>1, <1>2, <2>1 DEF PollCounted
  <2>5. DueAhead'
    BY <2>1 DEF DueAhead
  <2>. QED  BY <1>4, <2>1, <2>2, <2>3, <2>4, <2>5, <1>2 DEF DriverInv
<1>. QED  BY <1>5, <1>6 DEF StageEnds

\* A driver that is made for a module in AT mode is out of step from the start.
LEMMA RestartInv ==
    ASSUME DriverInv, Restart
    PROVE  DriverInv'
<1>1. TypeOK'
  <2>1. InitQueue \in Seq([call : AllCalls \cup {"Init"}, op : AllOperations])
    BY DEF InitQueue, AllOperations
  <2>2. InitOutcome \in [AllOperations -> {"none", "pending", "notified", "failed"}]
    BY DEF InitOutcome
  <2>3. module_mode' \in {"at", "transparent"}
    BY DEF Restart, DriverInv, TypeOK, ModesReached
  <2>4. out_of_step' \in BOOLEAN
    BY Zenon DEF Restart
  <2>5. /\ operation_queue' = InitQueue /\ outcome' = InitOutcome
        /\ current' = NoOp /\ stages' = <<>> /\ waits_for' = "nothing"
        /\ at_mode' = FALSE /\ started' = FALSE /\ polls' = 0 /\ due' = {}
    BY Zenon DEF Restart
  <2>6. stages' \in Seq(Stages) /\ current' \in AllOperations \cup {NoOp}
    BY <2>5
  <2>. QED  BY <2>1, <2>2, <2>3, <2>4, <2>5, <2>6 DEF TypeOK
<1>2. out_of_step' <=> module_mode' = "at"
  BY Zenon DEF Restart
<1>3. /\ current' = NoOp /\ stages' = <<>> /\ waits_for' = "nothing"
      /\ at_mode' = FALSE /\ started' = FALSE /\ polls' = 0 /\ due' = {}
  BY Zenon DEF Restart
<1>4. ModeRecorded'
  <2>1. at_mode' = FALSE /\ waits_for' = "nothing"
    BY <1>3
  <2>. QED  BY <1>2, <2>1, Zenon DEF ModeRecorded
<1>5. WellFormed(stages') /\ CommandsPrepared(stages', at_mode')
  <2>1. stages' = <<>> /\ stages' \in Seq(Stages) /\ Len(stages') = 0
    BY <1>3
  <2>. QED  BY <2>1 DEF WellFormed, CommandsPrepared
<1>6. WaitsFit' /\ PollCounted' /\ DueAhead'
  BY <1>3 DEF WaitsFit, PollCounted, DueAhead
<1>. QED  BY <1>1, <1>4, <1>5, <1>6 DEF DriverInv

----------------------------------------------------------------------------

\* DriverInv holds in every state of the driver and the module.
THEOREM DriverInvariant == Spec => []DriverInv
<1>1. Init => DriverInv
  <2>. SUFFICES ASSUME Init  PROVE DriverInv
    OBVIOUS
  <2>1. TypeOK
    <3>1. operation_queue \in Seq([call : AllCalls \cup {"Init"}, op : AllOperations])
      BY DEF Init, InitQueue, AllOperations
    <3>2. outcome \in [AllOperations -> {"none", "pending", "notified", "failed"}]
      BY DEF Init, InitOutcome
    <3>3. stages \in Seq(Stages)
      BY DEF Init
    <3>. QED  BY <3>1, <3>2, <3>3 DEF Init, TypeOK, AllOperations
  <2>. QED  BY <2>1 DEF Init, DriverInv, WellFormed, CommandsPrepared, WaitsFit,
                        ModeRecorded, PollCounted, DueAhead
<1>2. ASSUME DriverInv, UNCHANGED vars  PROVE DriverInv'
  <2>1. TypeOK'
    BY <1>2 DEF vars, DriverInv, TypeOK
  <2>. QED  BY <1>2, <2>1 DEF vars, DriverInv, WaitsFit, ModeRecorded, PollCounted, DueAhead
<1>3. DriverInv /\ [Next]_vars => DriverInv'
  BY <1>2, CallInv, RunNextInv, RunStageInv, StageEndsInv, RestartInv DEF Next
<1>. QED  BY <1>1, <1>3, PTL DEF Spec

\* Type correctness of the driver.
THEOREM DriverTypeCorrect == Spec => []TypeOK
<1>1. DriverInv => TypeOK
  BY DEF DriverInv
<1>. QED  BY <1>1, DriverInvariant, PTL

\* However operations fail, at_mode_ differs from the module's mode only by the
\* mode it was found in, lost "+++" and resets that ended AT mode, and commands
\* are sent in the mode the driver takes for AT mode.
THEOREM ModeStaysInStep == Spec => []ModeInStep
<1>1. DriverInv => ModeInStep
  <2>. SUFFICES ASSUME DriverInv, ~Escaping
                PROVE  /\ out_of_step <=> ~(at_mode <=> module_mode = "at")
                       /\ waits_for = "OK" => at_mode
    BY DEF ModeInStep
  <2>1. out_of_step <=> ~(at_mode <=> module_mode = "at")
    BY DEF DriverInv, ModeRecorded, Escaping
  <2>2. ASSUME waits_for = "OK"  PROVE at_mode
    <3>1. stages # <<>> /\ stages[1] \in Commands /\ stages \in Seq(Stages)
      BY <2>2 DEF DriverInv, WaitsFit, TypeOK
    <3>2. 1 \in 1 .. Len(stages)
      <4>1. Len(stages) \in Nat \ {0}
        BY <3>1, TailOfStages
      <4>. QED  BY ONLY <4>1
    <3>. QED  BY <3>1, <3>2 DEF DriverInv, CommandsPrepared, Commands
  <2>. QED  BY <2>1, <2>2
<1>. QED  BY <1>1, DriverInvariant, PTL

\* Commands find the module in AT mode, unless it and the driver are out of
\* step by the mode it was found in, lost "+++" and resets that ended AT mode.
THEOREM CommandsFindAtMode == Spec => [](~out_of_step => CommandsInAtMode)
<1>1. TypeOK /\ ModeInStep => (~out_of_step => CommandsInAtMode)
  BY DEF TypeOK, ModeInStep, CommandsInAtMode, Escaping
<1>. QED  BY <1>1, DriverTypeCorrect, ModeStaysInStep, PTL

\* An operation that is about to report success had all its commands carried
\* out by the module.
THEOREM SuccessIsObeyed == Spec => []SuccessObeyed
<1>1. DriverInv => SuccessObeyed
  BY DEF DriverInv, DueAhead, SuccessObeyed
<1>. QED  BY <1>1, DriverInvariant, PTL

\* SetupPoll is called at most once, however many Starts are queued.
THEOREM PollSetUpAtMostOnce == Spec => []PollSetUpOnce
<1>1. DriverInv => PollSetUpOnce
  BY DEF DriverInv, PollCounted, PollSetUpOnce
<1>. QED  BY <1>1, DriverInvariant, PTL

============================================================================
