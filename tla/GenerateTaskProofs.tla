------------------------ MODULE GenerateTaskProofs ------------------------
(***************************************************************************)
(* generate_task returns valid rounds for every K > 1 and every number of  *)
(* runs.                                                                   *)
(***************************************************************************)
EXTENDS GenerateTask, TLAPS

(* The ids below turn_beg have been given out, each once, to rounds that start *)
(* late enough; turn_beg and next_turn_runs add up to the number of runs there *)
(* will be, until a round with fewer than K runs, the last one.                *)
LoopInv ==
    /\ \A t \in DOMAIN tasks : \A j \in DOMAIN tasks[t] :
           tasks[t][j] < turn_beg /\ tasks[t][j] < total_runs + Len(tasks) - 1
    /\ \A id \in 0 .. total_runs + Len(tasks) - 2 :
           id < turn_beg =>
               \E t \in DOMAIN tasks : \E j \in DOMAIN tasks[t] : tasks[t][j] = id
    /\ next_turn_runs # 1 => turn_beg + next_turn_runs = total_runs + Len(tasks)
    /\ next_turn_runs = 1 => total_runs + Len(tasks) - 1 <= turn_beg

IInv ==
    /\ TypeOK
    /\ ~NoRuns /\ next_turn_runs # 0
    /\ PrefixIsValid
    /\ LoopInv
    /\ pc = "done" => next_turn_runs = 1

(* The one turn of the loop when there are no runs. *)
NoRunsInv ==
    /\ TypeOK
    /\ \/ tasks = << >> /\ turn_beg = 0 /\ next_turn_runs = 0 /\ pc = "loop"
       \/ tasks = << << >> >> /\ next_turn_runs = 1

(* What one turn of the loop appends. *)
LEMMA NewRound ==
    ASSUME IInv, Step
    PROVE  /\ RoundEnd \in Nat
           /\ turn_beg + 2 <= RoundEnd
           /\ RoundEnd <= turn_beg + K
           /\ RoundEnd <= total_runs + Len(tasks)
           /\ IdsUpTo(RoundEnd) \in Seq(Nat)
           /\ Len(IdsUpTo(RoundEnd)) = RoundEnd - turn_beg
           /\ \A i \in 1 .. RoundEnd - turn_beg :
                  IdsUpTo(RoundEnd)[i] = turn_beg + i - 1
           /\ RunsLeft \in 1 .. next_turn_runs - 1
           /\ RunsLeft # 1 => RoundEnd = turn_beg + K
           /\ RunsLeft # 1 => RunsLeft = next_turn_runs - K + 1
           /\ RunsLeft = 1 => RoundEnd = total_runs + Len(tasks)
<1>1. /\ K \in Nat /\ K >= 2 /\ turn_beg \in Nat /\ next_turn_runs \in Nat
      /\ next_turn_runs >= 2 /\ Len(tasks) \in Nat /\ total_runs \in Nat
      /\ turn_beg + next_turn_runs = total_runs + Len(tasks)
  <2>1. K \in Nat /\ K >= 2 /\ total_runs \in Nat
    BY ArgumentsAssumption DEF IInv, TypeOK
  <2>2. Len(tasks) \in Nat
    BY DEF IInv, TypeOK
  <2> QED
    BY <2>1, <2>2 DEF IInv, TypeOK, Step, MoreRounds, LoopInv
<1>2. /\ RoundEnd \in Nat /\ turn_beg + 2 <= RoundEnd
      /\ RoundEnd <= turn_beg + K /\ RoundEnd <= total_runs + Len(tasks)
  BY <1>1 DEF RoundEnd, Smaller
<1>3. /\ RunsLeft \in 1 .. next_turn_runs - 1
      /\ RunsLeft # 1 => RoundEnd = turn_beg + K
      /\ RunsLeft # 1 => RunsLeft = next_turn_runs - K + 1
      /\ RunsLeft = 1 => RoundEnd = total_runs + Len(tasks)
  BY <1>1 DEF RoundEnd, RunsLeft, Smaller
<1>4. /\ IdsUpTo(RoundEnd) \in Seq(Nat)
      /\ Len(IdsUpTo(RoundEnd)) = RoundEnd - turn_beg
      /\ \A i \in 1 .. RoundEnd - turn_beg :
             IdsUpTo(RoundEnd)[i] = turn_beg + i - 1
  <2>1. RoundEnd - turn_beg \in Nat
    BY <1>1, <1>2
  <2>2. \A i \in 1 .. RoundEnd - turn_beg : turn_beg + i - 1 \in Nat
    BY <1>1, <1>2
  <2> QED
    BY <2>1, <2>2 DEF IdsUpTo
<1> QED
  BY <1>2, <1>3, <1>4

(* The list after one turn of the loop. *)
LEMMA Appended ==
    ASSUME IInv, Step
    PROVE  /\ tasks \in Seq(Seq(Nat)) /\ tasks' \in Seq(Seq(Nat))
           /\ Len(tasks') = Len(tasks) + 1
           /\ DOMAIN tasks = 1 .. Len(tasks)
           /\ DOMAIN tasks' = 1 .. Len(tasks) + 1
           /\ \A t \in 1 .. Len(tasks) : tasks'[t] = tasks[t]
           /\ tasks'[Len(tasks) + 1] = IdsUpTo(RoundEnd)
           /\ DOMAIN IdsUpTo(RoundEnd) = 1 .. RoundEnd - turn_beg
<1>1. tasks \in Seq(Seq(Nat)) /\ IdsUpTo(RoundEnd) \in Seq(Nat)
  BY NewRound DEF IInv, TypeOK
<1>2. tasks' = Append(tasks, IdsUpTo(RoundEnd))
  BY DEF Step
<1>3. DOMAIN IdsUpTo(RoundEnd) = 1 .. RoundEnd - turn_beg
  BY DEF IdsUpTo
<1> QED
  BY <1>1, <1>2, <1>3

LEMMA InitIInv == Init /\ ~NoRuns => IInv
<1> SUFFICES ASSUME Init, ~NoRuns PROVE IInv
  OBVIOUS
<1>1. /\ K \in Nat /\ K >= 2 /\ total_runs \in Nat /\ total_runs >= 1
      /\ tasks = << >> /\ Len(tasks) = 0 /\ DOMAIN tasks = {}
  BY ArgumentsAssumption DEF Init, NoRuns
<1>2. TypeOK
  BY <1>1 DEF Init, TypeOK
<1>3. PrefixIsValid
  BY <1>1 DEF PrefixIsValid, RoundSizes, ExistingRuns, ReadOnce, NoRuns
<1>4. LoopInv
  BY <1>1 DEF Init, LoopInv
<1> QED
  BY <1>1, <1>2, <1>3, <1>4 DEF IInv, Init, NoRuns

(* One turn of the loop keeps the invariant. *)
LEMMA StepIInv == IInv /\ Step => IInv'
<1> SUFFICES ASSUME IInv, Step PROVE IInv'
  OBVIOUS
<1> DEFINE n == Len(tasks)
<1>1. /\ K \in Nat /\ K >= 2 /\ total_runs \in Nat /\ n \in Nat
      /\ turn_beg \in Nat /\ next_turn_runs \in Nat /\ next_turn_runs >= 2
      /\ turn_beg + next_turn_runs = total_runs + n
  BY ArgumentsAssumption DEF IInv, TypeOK, Step, MoreRounds, LoopInv
<1>2. /\ K' = K /\ total_runs' = total_runs /\ pc' = pc /\ pc = "loop"
      /\ turn_beg' = turn_beg + K /\ next_turn_runs' = RunsLeft
  BY DEF Step, NextTurnBeg
<1>3. /\ \A i \in 1 .. RoundEnd - turn_beg :
            tasks'[n + 1][i] = turn_beg + i - 1
      /\ DOMAIN tasks'[n + 1] = 1 .. RoundEnd - turn_beg
      /\ Len(tasks'[n + 1]) = RoundEnd - turn_beg
  BY NewRound, Appended
<1>e. /\ RoundEnd \in Nat /\ turn_beg + 2 <= RoundEnd
      /\ RoundEnd <= turn_beg + K /\ RoundEnd <= total_runs + n
  BY NewRound
<1>l. /\ RunsLeft \in Nat /\ RunsLeft >= 1
      /\ RunsLeft # 1 => RoundEnd = turn_beg + K
      /\ RunsLeft # 1 => RunsLeft = next_turn_runs - K + 1
      /\ RunsLeft = 1 => RoundEnd = total_runs + n
  BY NewRound, <1>1
<1>a. /\ Len(tasks) = n /\ Len(tasks') = n + 1
      /\ DOMAIN tasks = 1 .. n /\ DOMAIN tasks' = 1 .. n + 1
      /\ tasks \in Seq(Seq(Nat)) /\ tasks' \in Seq(Seq(Nat))
      /\ \A t \in 1 .. n : tasks'[t] = tasks[t]
  BY Appended
<1> HIDE DEF n
<1>b. ASSUME NEW v \in 1 .. n + 1, v # n + 1
      PROVE  v \in 1 .. n /\ v \in DOMAIN tasks /\ tasks'[v] = tasks[v]
  <2>0. n \in Nat
    BY <1>1
  <2>1. v \in 1 .. n
    BY ONLY <2>0, <1>b
  <2> QED
    BY ONLY <2>1, <1>a
<1>4. TypeOK'
  <2>1. next_turn_runs' \in Nat \ {0}
    BY <1>l, <1>1, <1>2
  <2>2. turn_beg' \in Nat
    BY <1>1, <1>2
  <2> QED
    BY <1>2, <2>1, <2>2, <1>a DEF IInv, TypeOK
<1>5. RoundSizes(K, tasks)'
  <2>1. ASSUME NEW t \in 1 .. n + 1 PROVE Len(tasks'[t]) \in 2 .. K
    <3>1. CASE t = n + 1
      BY <3>1, <1>1, <1>3, <1>e, <1>l
    <3>2. CASE t # n + 1
      <4>1. t \in DOMAIN tasks /\ tasks'[t] = tasks[t]
        BY ONLY <3>2, <1>b, t \in 1 .. n + 1
      <4> QED
        BY <4>1 DEF IInv, PrefixIsValid, RoundSizes
    <3> QED
      BY <3>1, <3>2
  <2> QED
    BY <2>1, <1>2, <1>a DEF RoundSizes
<1>6. ExistingRuns(total_runs, tasks)'
  <2>1. ASSUME NEW t \in 1 .. n + 1, NEW j \in DOMAIN tasks'[t]
        PROVE  tasks'[t][j] < total_runs + t - 1
    <3>1. CASE t = n + 1
      BY <3>1, <1>1, <1>3, <1>e, <1>l
    <3>2. CASE t # n + 1
      <4>1. t \in DOMAIN tasks /\ tasks'[t] = tasks[t]
        BY ONLY <3>2, <1>b, t \in 1 .. n + 1
      <4> QED
        BY <4>1 DEF IInv, PrefixIsValid, ExistingRuns
    <3> QED
      BY <3>1, <3>2
  <2> QED
    BY <2>1, <1>2, <1>a DEF ExistingRuns
<1>7. ReadOnce(tasks)'
  <2> SUFFICES ASSUME NEW t \in 1 .. n + 1, NEW u \in 1 .. n + 1,
                      NEW i \in DOMAIN tasks'[t], NEW j \in DOMAIN tasks'[u],
                      tasks'[t][i] = tasks'[u][j]
               PROVE  t = u /\ i = j
    BY <1>a DEF ReadOnce
  <2>1. ASSUME NEW v \in 1 .. n, NEW k \in DOMAIN tasks'[v]
        PROVE  tasks'[v][k] < turn_beg
    <3>1. v \in DOMAIN tasks /\ tasks'[v] = tasks[v]
      BY <1>a
    <3> QED
      BY <3>1 DEF IInv, LoopInv
  <2>2. ASSUME NEW k \in DOMAIN tasks'[n + 1]
        PROVE  tasks'[n + 1][k] = turn_beg + k - 1 /\ k \in Nat /\ k >= 1
    BY <1>1, <1>3
  <2>3. ASSUME NEW v \in 1 .. n, NEW k \in DOMAIN tasks'[v]
        PROVE  tasks'[v][k] \in Nat
    <3>1. v \in DOMAIN tasks /\ tasks'[v] = tasks[v]
      BY <1>a
    <3>2. tasks[v] \in Seq(Nat)
      BY <3>1, <1>a
    <3> QED
      BY <3>1, <3>2
  <2>4. CASE t = n + 1 /\ u = n + 1
    BY <2>4, <2>2, <1>1
  <2>5. CASE t = n + 1 /\ u # n + 1
    <3>1. u \in 1 .. n
      BY <2>5, <1>1
    <3> QED
      BY <3>1, <2>1, <2>2, <2>3, <2>5, <1>1
  <2>6. CASE t # n + 1 /\ u = n + 1
    <3>1. t \in 1 .. n
      BY <2>6, <1>1
    <3> QED
      BY <3>1, <2>1, <2>2, <2>3, <2>6, <1>1
  <2>7. CASE t # n + 1 /\ u # n + 1
    <3>1. t \in DOMAIN tasks /\ u \in DOMAIN tasks
      BY ONLY <2>7, <1>b, t \in 1 .. n + 1, u \in 1 .. n + 1
    <3>2. tasks'[t] = tasks[t] /\ tasks'[u] = tasks[u]
      BY ONLY <2>7, <1>b, t \in 1 .. n + 1, u \in 1 .. n + 1
    <3> QED
      BY <3>1, <3>2 DEF IInv, PrefixIsValid, ReadOnce
  <2> QED
    BY <2>4, <2>5, <2>6, <2>7
<1>8. LoopInv'
  <2>1. ASSUME NEW t \in 1 .. n + 1, NEW j \in DOMAIN tasks'[t]
        PROVE  tasks'[t][j] < turn_beg + K /\ tasks'[t][j] < total_runs + n
    <3>1. CASE t = n + 1
      <4>1. j \in 1 .. RoundEnd - turn_beg
        BY <3>1, <1>3
      <4>2. tasks'[t][j] = turn_beg + j - 1
        BY <3>1, <4>1, <1>3
      <4> QED
        BY <4>1, <4>2, <1>1, <1>e
    <3>2. CASE t # n + 1
      <4>1. t \in DOMAIN tasks /\ tasks'[t] = tasks[t]
        BY ONLY <3>2, <1>b, t \in 1 .. n + 1
      <4>2. tasks[t][j] < turn_beg /\ tasks[t][j] < total_runs + n - 1
        BY <4>1, <1>a DEF IInv, LoopInv
      <4>3. tasks[t][j] \in Nat
        <5>1. tasks[t] \in Seq(Nat)
          BY <4>1, <1>a
        <5> QED
          BY <5>1, <4>1
      <4> QED
        BY <4>1, <4>2, <4>3, <1>1
    <3> QED
      BY <3>1, <3>2
  <2>2. ASSUME NEW id \in 0 .. total_runs + n - 1, id < turn_beg + K
        PROVE  \E t \in 1 .. n + 1 : \E j \in DOMAIN tasks'[t] : tasks'[t][j] = id
    <3>1. CASE id < turn_beg
      <4>1. id \in 0 .. total_runs + n - 2
        BY <3>1, <1>1
      <4>2. PICK t \in DOMAIN tasks : \E j \in DOMAIN tasks[t] : tasks[t][j] = id
        BY <4>1, <3>1, <1>a DEF IInv, LoopInv
      <4>3. t \in 1 .. n + 1 /\ tasks'[t] = tasks[t]
        BY <1>1, <1>a
      <4> QED
        BY <4>2, <4>3
    <3>2. CASE id >= turn_beg
      <4>1. id < RoundEnd
        BY <3>2, <2>2, <1>1, <1>e, <1>l
      <4>2. id - turn_beg + 1 \in 1 .. RoundEnd - turn_beg
        BY <4>1, <3>2, <1>1, <1>e, <1>l
      <4>3. tasks'[n + 1][id - turn_beg + 1] = id
        BY <4>2, <1>1, <1>3
      <4>4. id - turn_beg + 1 \in DOMAIN tasks'[n + 1] /\ n + 1 \in 1 .. n + 1
        BY ONLY <1>1, <1>3, <4>2
      <4> QED
        BY ONLY <4>3, <4>4
    <3> QED
      BY <3>1, <3>2, <1>1
  <2>3. next_turn_runs' # 1 =>
            turn_beg' + next_turn_runs' = total_runs' + Len(tasks')
    BY <1>1, <1>2, <1>e, <1>l, <1>a
  <2>4. next_turn_runs' = 1 => total_runs' + Len(tasks') - 1 <= turn_beg'
    BY <1>1, <1>2, <1>e, <1>l, <1>a
  <2>5. total_runs' + Len(tasks') - 1 = total_runs + n
    BY <1>1, <1>2, <1>a
  <2>6. total_runs' + Len(tasks') - 2 = total_runs + n - 1
    BY <1>1, <1>2, <1>a
  <2> QED
    BY <2>1, <2>2, <2>3, <2>4, <2>5, <2>6, <1>2, <1>a DEF LoopInv
<1>9. ~NoRuns' /\ (next_turn_runs # 0)'
  BY ONLY IInv, <1>1, <1>2, <1>l DEF IInv, NoRuns
<1>10. PrefixIsValid'
  BY ONLY <1>5, <1>6, <1>7, <1>9 DEF PrefixIsValid
<1>11. (pc = "done" => next_turn_runs = 1)'
  BY <1>2
<1> QED
  BY ONLY <1>4, <1>8, <1>9, <1>10, <1>11 DEF IInv

LEMMA NextIInv == IInv /\ [Next]_vars => IInv'
<1> SUFFICES ASSUME IInv, [Next]_vars PROVE IInv'
  OBVIOUS
<1>1. CASE Step
  BY <1>1, StepIInv
<1>2. CASE Return
  BY <1>2 DEF Return, MoreRounds, IInv, TypeOK, PrefixIsValid, LoopInv, NoRuns
<1>3. CASE UNCHANGED vars
  BY <1>3 DEF vars, IInv, TypeOK, PrefixIsValid, LoopInv, NoRuns
<1> QED
  BY <1>1, <1>2, <1>3 DEF Next, Returned

(* Without runs the loop turns once. *)
LEMMA InitNoRuns == Init /\ NoRuns => NoRunsInv
<1> SUFFICES ASSUME Init, NoRuns PROVE NoRunsInv
  OBVIOUS
<1>1. TypeOK
  BY ArgumentsAssumption DEF Init, TypeOK
<1> QED
  BY <1>1 DEF NoRunsInv, Init, NoRuns

LEMMA NextNoRuns == NoRuns /\ NoRunsInv /\ [Next]_vars => NoRunsInv'
<1> SUFFICES ASSUME NoRuns, NoRunsInv, [Next]_vars PROVE NoRunsInv'
  OBVIOUS
<1>0. K \in Nat /\ K >= 2
  BY ArgumentsAssumption DEF NoRunsInv, TypeOK
<1>1. CASE Step
  <2>1. tasks = << >> /\ turn_beg = 0 /\ next_turn_runs = 0 /\ pc = "loop"
    BY <1>1 DEF NoRunsInv, Step, MoreRounds
  <2>2. RoundEnd = 0 /\ RunsLeft = 1 /\ NextTurnBeg = K
    BY <1>0, <2>1 DEF RoundEnd, RunsLeft, NextTurnBeg, Smaller
  <2>3. IdsUpTo(0) = << >>
    <3>1. 1 .. 0 - turn_beg = 1 .. 0
      BY <2>1
    <3>2. IdsUpTo(0) = [i \in 1 .. 0 |-> turn_beg + i - 1]
      BY <3>1 DEF IdsUpTo
    <3> QED
      BY <3>2
  <2>4. tasks' = << << >> >> /\ next_turn_runs' = 1 /\ turn_beg' = K
    BY <1>1, <2>1, <2>2, <2>3 DEF Step
  <2>5. << << >> >> \in Seq(Seq(Nat))
    OBVIOUS
  <2> QED
    BY <1>0, <1>1, <2>4, <2>5 DEF NoRunsInv, TypeOK, Step
<1>2. CASE Return
  BY <1>2 DEF Return, MoreRounds, NoRunsInv, TypeOK
<1>3. CASE UNCHANGED vars
  BY <1>3 DEF vars, NoRunsInv, TypeOK
<1> QED
  BY <1>1, <1>2, <1>3 DEF Next, Returned

ResultInv == IF NoRuns THEN NoRunsInv ELSE IInv

LEMMA ResultInvHolds == Spec => []ResultInv
<1>1. Init => ResultInv
  BY InitIInv, InitNoRuns DEF ResultInv
<1>2. ResultInv /\ [Next]_vars => ResultInv'
  <2>1. [Next]_vars => (NoRuns' <=> NoRuns)
    BY DEF Next, Step, Return, Returned, vars, NoRuns
  <2> QED
    BY <2>1, NextIInv, NextNoRuns DEF ResultInv
<1> QED
  BY <1>1, <1>2, PTL DEF Spec

(* For every K > 1 and every number of runs: the types. *)
THEOREM TypeCorrect == Spec => []TypeOK
<1>1. ResultInv => TypeOK
  BY DEF ResultInv, IInv, NoRunsInv
<1> QED
  BY <1>1, ResultInvHolds, PTL

(* ... no round is given a run that does not exist when it starts, nor one that *)
(* was merged before, nor more runs than there are queues (generate_task).      *)
THEOREM RoundsReadable == Spec => []PrefixIsValid
<1>1. ResultInv => PrefixIsValid
  <2> SUFFICES ASSUME ResultInv PROVE PrefixIsValid
    OBVIOUS
  <2>1. CASE ~NoRuns
    BY <2>1 DEF ResultInv, IInv
  <2>2. CASE NoRuns
    <3>1. tasks = << >> \/ tasks = << << >> >>
      BY <2>2 DEF ResultInv, NoRunsInv
    <3>2. \A t \in DOMAIN tasks : tasks[t] = << >>
      BY <3>1
    <3> QED
      BY <2>2, <3>2 DEF PrefixIsValid, ExistingRuns, ReadOnce
  <2> QED
    BY <2>1, <2>2
<1> QED
  BY <1>1, ResultInvHolds, PTL

(* ... and what generate_task returns merges every run into the last one.       *)
THEOREM ResultValid == Spec => []ResultIsValid
<1>1. ResultInv => ResultIsValid
  <2> SUFFICES ASSUME ResultInv PROVE ResultIsValid
    OBVIOUS
  <2>1. CASE NoRuns
    BY <2>1 DEF ResultInv, NoRunsInv, ResultIsValid
  <2>2. CASE ~NoRuns
    <3> SUFFICES ASSUME IInv, pc = "done" PROVE ValidRounds(K, total_runs, tasks)
      BY <2>2 DEF ResultInv, ResultIsValid
    <3>1. /\ total_runs \in Nat /\ Len(tasks) \in Nat /\ turn_beg \in Nat
          /\ total_runs + Len(tasks) - 1 <= turn_beg
      BY ArgumentsAssumption DEF IInv, TypeOK, LoopInv
    <3>2. \A id \in 0 .. total_runs + Len(tasks) - 2 : id < turn_beg
      BY <3>1
    <3>3. AllButLastRead(total_runs, tasks)
      BY <3>2 DEF IInv, LoopInv, AllButLastRead
    <3> QED
      BY <2>2, <3>3 DEF IInv, TypeOK, PrefixIsValid, ValidRounds
  <2> QED
    BY <2>1, <2>2
<1> QED
  BY <1>1, ResultInvHolds, PTL

(* Each round leaves fewer runs and never none: generate_task does not loop     *)
(* forever and does not miss the value its loop stops at.                       *)
THEOREM RunsReduced == Spec => RoundsReduce
<1>1. ResultInv /\ [Next]_vars =>
          [tasks' # tasks => \/ next_turn_runs' \in 1 .. next_turn_runs - 1
                             \/ next_turn_runs = 0 /\ next_turn_runs' = 1]_vars
  <2> SUFFICES ASSUME ResultInv, [Next]_vars, tasks' # tasks
               PROVE  \/ next_turn_runs' \in 1 .. next_turn_runs - 1
                      \/ next_turn_runs = 0 /\ next_turn_runs' = 1
    OBVIOUS
  <2>1. Step
    BY DEF Next, Return, Returned, vars
  <2>2. CASE NoRuns
    <3>0. NoRunsInv
      BY <2>2, Zenon DEF ResultInv
    <3>1. K \in Nat /\ K >= 2
      BY <3>0, ArgumentsAssumption DEF NoRunsInv, TypeOK
    <3>2. next_turn_runs = 0
      BY <2>1, <3>0 DEF NoRunsInv, Step, MoreRounds
    <3>3. next_turn_runs' = 1
      BY <2>1, <3>1, <3>2 DEF Step, RunsLeft, Smaller
    <3> QED
      BY <3>2, <3>3
  <2>3. CASE ~NoRuns
    BY <2>1, <2>3, NewRound DEF ResultInv, Step
  <2> QED
    BY <2>2, <2>3
<1> QED
  BY <1>1, ResultInvHolds, PTL DEF Spec, RoundsReduce

----------------------------------------------------------------------------
(* The number of rounds.  *)

LEMMA DivBounds ==
    ASSUME NEW e \in Nat, NEW d \in Nat, d >= 1
    PROVE  e \div d \in Nat /\ (e \div d) * d <= e /\ e < (e \div d) * d + d
  OBVIOUS

LEMMA TimesKeepsOrder ==
    ASSUME NEW a \in Int, NEW b \in Int, NEW d \in Nat, a <= b
    PROVE  a * d <= b * d
  OBVIOUS

(* The quotient rounded up. *)
LEMMA RoundedUp ==
    ASSUME NEW q \in Nat, NEW d \in Nat, NEW m \in Nat,
           d >= 1, (q - 1) * d < m, m <= q * d
    PROVE  (m + d - 1) \div d = q
<1> DEFINE z == (m + d - 1) \div d
<1>1. z \in Nat /\ z * d <= m + d - 1 /\ m + d - 1 < z * d + d
  BY DivBounds
<1>2. /\ (q - 1) * d = q * d - d
      /\ (z + 1) * d = z * d + d
      /\ (q + 1) * d = q * d + d
  BY <1>1
<1>3. ~(q + 1 <= z)
  BY <1>1, <1>2, TimesKeepsOrder
<1>4. ~(z + 1 <= q)
  BY <1>1, <1>2, TimesKeepsOrder
<1> QED
  BY <1>1, <1>3, <1>4

(* Each round of K runs removes K - 1; only the last one may remove fewer, and *)
(* it removes one at least.                                                    *)
CountInv ==
    /\ next_turn_runs # 1 => total_runs - next_turn_runs = Len(tasks) * (K - 1)
    /\ next_turn_runs = 1 =>
           /\ (Len(tasks) - 1) * (K - 1) < total_runs - 1
           /\ total_runs - 1 <= Len(tasks) * (K - 1)

LEMMA InitCountInv == Init /\ ~NoRuns => CountInv
<1> SUFFICES ASSUME Init, ~NoRuns PROVE CountInv
  OBVIOUS
<1>1. K \in Nat /\ K >= 2 /\ total_runs \in Nat /\ total_runs >= 1
  BY ArgumentsAssumption DEF Init, NoRuns
<1>2. Len(tasks) = 0 /\ next_turn_runs = total_runs
  BY DEF Init
<1>3. (0 - 1) * (K - 1) < 0 /\ 0 * (K - 1) = 0
  BY <1>1
<1> QED
  BY <1>1, <1>2, <1>3 DEF CountInv

(* The arithmetic of one turn, d runs fewer but for the last one. *)
LEMMA OneTurn ==
    ASSUME NEW n \in Nat, NEW d \in Nat, NEW total \in Nat, NEW next \in Nat,
           NEW left \in Nat, d >= 1, total - next = n * d, next >= 2,
           left # 1 => left = next - d,
           left = 1 => next <= d + 1
    PROVE  /\ left # 1 => total - left = (n + 1) * d
           /\ left = 1 => n * d < total - 1 /\ total - 1 <= (n + 1) * d
<1>1. (n + 1) * d = n * d + d /\ n * d \in Nat
  OBVIOUS
<1> QED
  BY <1>1

LEMMA NextCountInv == IInv /\ CountInv /\ [Next]_vars => CountInv'
<1> SUFFICES ASSUME IInv, CountInv, [Next]_vars PROVE CountInv'
  OBVIOUS
<1>1. CASE Step
  <2>1. /\ K \in Nat /\ K - 1 \in Nat /\ K - 1 >= 1
        /\ total_runs \in Nat /\ next_turn_runs \in Nat /\ Len(tasks) \in Nat
    BY ArgumentsAssumption DEF IInv, TypeOK
  <2>2. next_turn_runs # 1 /\ next_turn_runs >= 2
    BY <1>1, <2>1 DEF Step, MoreRounds, IInv, TypeOK
  <2>3. /\ RunsLeft \in Nat
        /\ RunsLeft # 1 => RunsLeft = next_turn_runs - (K - 1)
        /\ RunsLeft = 1 => next_turn_runs <= (K - 1) + 1
    BY <2>1, <2>2 DEF RunsLeft, Smaller
  <2>4. total_runs - next_turn_runs = Len(tasks) * (K - 1)
    BY <2>2 DEF CountInv
  <2>5. /\ RunsLeft # 1 => total_runs - RunsLeft = (Len(tasks) + 1) * (K - 1)
        /\ RunsLeft = 1 => /\ Len(tasks) * (K - 1) < total_runs - 1
                           /\ total_runs - 1 <= (Len(tasks) + 1) * (K - 1)
    BY <2>1, <2>2, <2>3, <2>4, OneTurn
  <2>6. /\ Len(tasks') = Len(tasks) + 1 /\ Len(tasks') - 1 = Len(tasks)
        /\ next_turn_runs' = RunsLeft /\ K' = K /\ total_runs' = total_runs
    BY <1>1, <2>1, Appended DEF Step
  <2> QED
    BY <2>5, <2>6 DEF CountInv
<1>2. CASE Return \/ UNCHANGED vars
  BY <1>2 DEF Return, vars, CountInv
<1> QED
  BY <1>1, <1>2 DEF Next, Returned

(* generate_task spends no round that K-way merging could save: a list made with *)
(* rounds of fewer than K runs before the last would be longer.                  *)
THEOREM RoundsAreFewest == Spec => []FewestRounds
<1>1. Init => ResultInv /\ (NoRuns \/ CountInv)
  BY InitCountInv, InitIInv, InitNoRuns DEF ResultInv
<1>2. ResultInv /\ (NoRuns \/ CountInv) /\ [Next]_vars => (NoRuns \/ CountInv)'
  <2>1. [Next]_vars => (NoRuns' <=> NoRuns)
    BY DEF Next, Step, Return, Returned, vars, NoRuns
  <2> QED
    BY <2>1, NextCountInv DEF ResultInv
<1>3. ResultInv /\ (NoRuns \/ CountInv) => FewestRounds
  <2> SUFFICES ASSUME IInv, CountInv, pc = "done"
               PROVE  Len(tasks) = (total_runs - 1 + K - 2) \div (K - 1)
    BY DEF FewestRounds, ResultInv
  <2>1. /\ K \in Nat /\ K - 1 \in Nat /\ K - 1 >= 1
        /\ total_runs \in Nat /\ total_runs - 1 \in Nat /\ Len(tasks) \in Nat
    BY ArgumentsAssumption DEF IInv, TypeOK, NoRuns
  <2>2. /\ (Len(tasks) - 1) * (K - 1) < total_runs - 1
        /\ total_runs - 1 <= Len(tasks) * (K - 1)
    BY DEF IInv, CountInv
  <2>3. ((total_runs - 1) + (K - 1) - 1) \div (K - 1) = Len(tasks)
    BY <2>1, <2>2, RoundedUp
  <2>4. (total_runs - 1) + (K - 1) - 1 = total_runs - 1 + K - 2
    BY <2>1
  <2> QED
    BY <2>3, <2>4
<1> QED
  BY <1>1, <1>2, <1>3, ResultInvHolds, PTL DEF Spec
============================================================================
