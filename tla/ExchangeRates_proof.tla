-------------------------- MODULE ExchangeRates_proof --------------------------
(***************************************************************************)
(* The collector beside the operators, for any number of runs, rates,      *)
(* presets and operators: it keeps to what PresetTable says of the table,  *)
(* and no run leaves a rate behind that is older than itself.              *)
(***************************************************************************)
EXTENDS ExchangeRates, PresetTable_proof

(* The inductive invariant of a run: it writes only when it has all rates,  *)
(* it writes those it has, a request is for one of them, and it has asked   *)
(* for each since it began.                                                 *)
Writing(c) == pc[c] = "rates" => next[c] = Len(Keys) + 2 /\ form[c].val = got[c]

Asking(c) == asked[c] # "no" => next[c] \in 1..Len(Keys)

Fresh(c) ==
    /\ began[c] <= now
    /\ \A i \in 1..Len(Keys) : i < next[c] => got[c][Keys[i]] >= began[c]

RunInv ==
    \A c \in Collector : pc[c] \in {"idle", "rates"} /\ Asking(c) /\ Writing(c) /\ Fresh(c)

RatesInv == TypeOK /\ RatesTypeOK /\ RunInv

LEMMA Collectors == Collector \subseteq Writer /\ Collector \subseteq Autocommit
BY PresetAssumption, RatesAssumption

LEMMA KeysType == Len(Keys) \in Nat /\ \A v \in Value : \A i \in 1..Len(Keys) : v[Keys[i]] \in 0..MaxTime
BY RatesAssumption

-------------------------------------------------------------------------------
(* A step is the environment's, a run's or an operator's. *)
RunStep(c) ==
    \/ (Start(c) \/ Turn(c) \/ Killed(c)) /\ UNCHANGED vars
    \/ Send(c)
    \/ Update(c)
    \/ Crash(c) /\ Stop(c)

OperatorStep(w) ==
    /\ OpenUntouched(w) \/ Step(w) \/ Crash(w) \/ \E r \in Row : Delete(w, r)
    /\ UNCHANGED runVars

LEMMA RatesCases ==
    ASSUME [RatesNext]_ratesVars
    PROVE  \/ UNCHANGED ratesVars
           \/ (Tick \/ Outage \/ Recovery) /\ UNCHANGED vars
           \/ \E c \in Collector : RunStep(c)
           \/ \E w \in Writer \ Collector : OperatorStep(w)
BY DEF RatesNext, RunStep, OperatorStep

(* The composition writes the table only as PresetTable allows. *)
LEMMA RatesStepIsStep ==
    ASSUME RatesInv, [RatesNext]_ratesVars
    PROVE  [Next]_vars
<1> USE Collectors
<1>1. CASE UNCHANGED ratesVars
  BY <1>1 DEF ratesVars, vars
<1>2. CASE (Tick \/ Outage \/ Recovery) /\ UNCHANGED vars
  BY <1>2
<1>3. ASSUME NEW c \in Collector, (Start(c) \/ Turn(c) \/ Killed(c)) /\ UNCHANGED vars
      PROVE  [Next]_vars
  BY <1>3
<1>4. ASSUME NEW c \in Collector, Send(c)
      PROVE  Next
  <2>1. Collect(c, got[c])
    BY <1>4 DEF Send
  <2>2. got[c] \in Collected
    BY RatesAssumption DEF RatesInv, RatesTypeOK
  <2> QED
    BY <2>1, <2>2 DEF Next
<1>5. ASSUME NEW c \in Collector, Update(c) \/ (Crash(c) /\ Stop(c))
      PROVE  Next
  BY <1>5 DEF Update, Next, Step
<1>6. ASSUME NEW w \in Writer \ Collector, OpenUntouched(w)
      PROVE  Next
  <2>1. Default \in Value /\ \A r \in rows : r \in Row /\ db[r].val \in Value
    BY PresetAssumption DEF RatesInv, TypeOK, Version
  <2>2. \E own \in Row, active \in Choices, val \in Value : Open(w, own, active, val)
    BY <1>6, <2>1 DEF OpenUntouched
  <2> QED
    BY <2>2 DEF Next
<1>7. ASSUME NEW w \in Writer \ Collector, Step(w) \/ Crash(w) \/ \E r \in Row : Delete(w, r)
      PROVE  Next
  BY <1>7 DEF Next
<1>8. CASE \E c \in Collector : RunStep(c)
  BY <1>3, <1>4, <1>5, <1>8 DEF RunStep
<1>9. CASE \E w \in Writer \ Collector : OperatorStep(w)
  BY <1>6, <1>7, <1>9 DEF OperatorStep
<1> QED
  BY <1>1, <1>2, <1>8, <1>9, RatesCases

(* The variables of the runs keep their type. *)
LEMMA RatesTypeKept ==
    ASSUME RatesTypeOK, RunInv, [RatesNext]_ratesVars
    PROVE  RatesTypeOK'
<1> USE DEF RatesTypeOK
<1>a. Len(Keys) \in Nat /\ MaxTime \in Nat /\ Default \in Value
  BY PresetAssumption, RatesAssumption, KeysType
<1>b. 0 \in 0..MaxTime /\ 0 \in 0..(Len(Keys) + 2)
  BY <1>a
<1>1. CASE UNCHANGED runVars
  BY <1>1 DEF runVars
<1>2. CASE Tick \/ Outage \/ Recovery
  <2>1. now' \in 0..MaxTime
    BY <1>a, <1>2 DEF Tick, Outage, Recovery
  <2>2. up' \in BOOLEAN /\ UNCHANGED <<next, asked, got, began>>
    BY <1>2 DEF Tick, Outage, Recovery
  <2> QED
    BY <2>1, <2>2
<1>3. ASSUME NEW c \in Collector, Start(c)
      PROVE  RatesTypeOK'
  <2>1. 1 \in 0..(Len(Keys) + 2)
    BY <1>a
  <2> QED
    BY <1>3, <2>1 DEF Start
<1>4. ASSUME NEW c \in Collector, Answer(c)
      PROVE  RatesTypeOK'
  <2>0. next[c] \in 1..Len(Keys)
    BY <1>4 DEF Answer, RunInv, Asking
  <2> DEFINE set == {Keys[i] : i \in 1..Len(Keys)}
  <2>1. Value = [set -> 0..MaxTime]
    BY RatesAssumption
  <2>2. Keys[next[c]] \in set
    BY <2>0
  <2>3. got[c] \in [set -> 0..MaxTime] /\ now \in 0..MaxTime
    BY <2>1
  <2>4. got' = [got EXCEPT ![c] = [got[c] EXCEPT ![Keys[next[c]]] = now]]
    BY <1>4 DEF Answer
  <2>5. [got[c] EXCEPT ![Keys[next[c]]] = now] \in Value
    <3> HIDE DEF set
    <3> QED
      BY <2>1, <2>2, <2>3
  <2>6. got' \in [Collector -> Value]
    BY <2>4, <2>5
  <2>7. next[c] + 1 \in 0..(Len(Keys) + 2)
    BY <1>a, <2>0
  <2>8. asked' \in [Collector -> {"no", "waiting", "hanging"}]
    BY <1>4 DEF Answer
  <2> QED
    BY <1>4, <2>6, <2>7, <2>8 DEF Answer
<1>5. ASSUME NEW c \in Collector, Stop(c)
      PROVE  RatesTypeOK'
  BY <1>a, <1>b, <1>5 DEF Stop
<1>6. ASSUME NEW c \in Collector, Send(c)
      PROVE  RatesTypeOK'
  <2>1. next[c] + 1 \in 0..(Len(Keys) + 2)
    BY <1>a, <1>6 DEF Send
  <2> QED
    BY <1>6, <2>1 DEF Send
<1>7. ASSUME NEW c \in Collector, Ask(c) \/ CutOff(c) \/ Fail(c)
      PROVE  RatesTypeOK'
  <2>1. asked' \in [Collector -> {"no", "waiting", "hanging"}]
    BY <1>7 DEF Ask, CutOff, Fail
  <2>2. UNCHANGED <<now, up, next, got, began>>
    BY <1>7 DEF Ask, CutOff, Fail
  <2> QED
    BY <2>1, <2>2
<1> QED
  BY <1>1, <1>2, <1>3, <1>4, <1>5, <1>6, <1>7
     DEF RatesNext, Turn, Update, Killed, ratesVars, runVars

-------------------------------------------------------------------------------
(* No writer moves a run: deletions close forms, and a run has none open.   *)
LEMMA OthersLeaveRuns ==
    ASSUME TypeOK, NEW w \in Writer, NEW c \in Collector, w # c,
           \/ Step(w) \/ Crash(w) \/ Victim(w)
           \/ \E r \in Row : Visit(w, r) \/ Delete(w, r)
           \/ \E own, active, val : Open(w, own, active, val)
           \/ \E val : Collect(w, val)
    PROVE  pc'[c] = pc[c] /\ form'[c] = form[c]
BY Collectors DEF TypeOK, Step, Victim, Crash, Rollback, Save, Reject, Return, EndClear, WriteOwn, Commit,
   Erase, EndDelete, Closed, Visit, Delete, Open, Collect

(* What a run has fetched stays fresh while it goes on or starts anew. *)
LEMMA FreshKept ==
    ASSUME RatesTypeOK, NEW c \in Collector, Asking(c), Fresh(c), [RatesNext]_ratesVars
    PROVE  Fresh(c)'
<1> USE KeysType DEF Fresh
<1>t. /\ now \in Nat /\ began[c] \in Nat /\ next[c] \in Nat
      /\ \A i \in 1..Len(Keys) : got[c][Keys[i]] \in Nat
  <2>1. got[c] \in Value
    BY DEF RatesTypeOK
  <2> QED
    BY <2>1, RatesAssumption DEF RatesTypeOK
<1>1. CASE UNCHANGED runVars
  BY <1>1 DEF runVars
<1>2. CASE Tick \/ Outage \/ Recovery
  BY <1>t, <1>2 DEF Tick, Outage, Recovery
<1>3. ASSUME NEW d \in Collector, Start(d)
      PROVE  Fresh(c)'
  BY <1>t, <1>3 DEF Start, RatesTypeOK
<1>4. ASSUME NEW d \in Collector, Answer(d)
      PROVE  Fresh(c)'
  <2>1. CASE d # c
    BY <1>4, <2>1 DEF Answer, RatesTypeOK
  <2>2. CASE d = c
    <3>1. got[c] \in Value
      BY DEF RatesTypeOK
    <3>2. \A i \in 1..Len(Keys) :
             got'[c][Keys[i]] = IF Keys[i] = Keys[next[c]] THEN now ELSE got[c][Keys[i]]
      BY <1>4, <2>2, <3>1, RatesAssumption DEF Answer, Asking, RatesTypeOK
    <3>3. next'[c] = next[c] + 1 /\ now' = now /\ began'[c] = began[c] /\ next[c] \in 1..Len(Keys)
      BY <1>4, <2>2 DEF Answer, Asking, RatesTypeOK
    <3>4. ASSUME NEW i \in 1..Len(Keys), i < next'[c]
          PROVE  got'[c][Keys[i]] >= began[c]
      <4>1. CASE Keys[i] = Keys[next[c]]
        BY <1>t, <3>2, <4>1
      <4>2. CASE Keys[i] # Keys[next[c]]
        <5>1. i < next[c]
          BY <1>t, <3>3, <3>4, <4>2
        <5> QED
          BY <3>2, <4>2, <5>1
      <4> QED
        BY <4>1, <4>2
    <3> QED
      BY <1>t, <3>3, <3>4
  <2> QED
    BY <2>1, <2>2
<1>5. ASSUME NEW d \in Collector, Stop(d)
      PROVE  Fresh(c)'
  BY <1>t, <1>5 DEF Stop, RatesTypeOK
<1>6. ASSUME NEW d \in Collector, Send(d)
      PROVE  Fresh(c)'
  BY <1>t, <1>6 DEF Send, RatesTypeOK
<1>7. ASSUME NEW d \in Collector, Ask(d) \/ CutOff(d) \/ Fail(d)
      PROVE  Fresh(c)'
  BY <1>t, <1>7 DEF Ask, CutOff, Fail
<1> QED
  BY <1>1, <1>2, <1>3, <1>4, <1>5, <1>6, <1>7
     DEF RatesNext, Turn, Update, Killed, ratesVars, runVars

(* A request is under way only while a run asks for a rate. *)
LEMMA AskingKept ==
    ASSUME RatesInv, NEW c \in Collector, [RatesNext]_ratesVars
    PROVE  Asking(c)'
<1> USE KeysType DEF Asking
<1>t. RatesTypeOK /\ Asking(c) /\ next[c] \in Nat
  BY DEF RatesInv, RunInv, RatesTypeOK
<1>1. CASE UNCHANGED <<next, asked>>
  BY <1>t, <1>1
<1>2. ASSUME NEW d \in Collector, Start(d) \/ Send(d)
      PROVE  Asking(c)'
  <2>1. asked' = asked /\ (d # c => next'[c] = next[c])
    BY <1>t, <1>2 DEF Start, Send, RatesTypeOK
  <2>2. next[d] \notin 1..Len(Keys)
    BY <1>2 DEF Start, Send
  <2> QED
    BY <1>t, <2>1, <2>2
<1>3. ASSUME NEW d \in Collector, Turn(d)
      PROVE  Asking(c)'
  <2>1. CASE Ask(d)
    BY <1>t, <2>1 DEF Ask, RatesTypeOK
  <2>2. CASE Answer(d)
    <3>1. asked'[d] = "no"
      BY <1>t, <2>2 DEF Answer, RatesTypeOK
    <3>2. CASE d # c
      BY <1>t, <2>2, <3>2 DEF Answer, RatesTypeOK
    <3> QED
      BY <3>1, <3>2
  <2>3. CASE CutOff(d) \/ Fail(d)
    BY <1>t, <2>3 DEF CutOff, Fail, RatesTypeOK
  <2> QED
    BY <1>3, <2>1, <2>2, <2>3 DEF Turn
<1>4. ASSUME NEW d \in Collector, Stop(d)
      PROVE  Asking(c)'
  BY <1>t, <1>4 DEF Stop, RatesTypeOK
<1> QED
  BY <1>1, <1>2, <1>3, <1>4
     DEF RatesNext, Tick, Outage, Recovery, Update, Killed, ratesVars, runVars

(* A run is out of its UPDATE whenever it asks for rates. *)
LEMMA RunKept ==
    ASSUME RatesInv, NEW c \in Collector, [RatesNext]_ratesVars
    PROVE  pc'[c] \in {"idle", "rates"} /\ Writing(c)'
<1> USE Collectors, KeysType DEF Writing
<1>t. /\ TypeOK /\ RatesTypeOK /\ pc[c] \in {"idle", "rates"} /\ Writing(c) /\ Asking(c)
      /\ next[c] \in Nat
  BY DEF RatesInv, RunInv, RatesTypeOK
<1>1. CASE UNCHANGED <<pc, form, next, got>>
  BY <1>t, <1>1
<1>2. ASSUME NEW d \in Collector, Start(d) \/ Turn(d) \/ Killed(d), UNCHANGED vars
      PROVE  pc'[c] \in {"idle", "rates"} /\ Writing(c)'
  BY <1>t, <1>2 DEF Asking, Start, Turn, Ask, Answer, CutOff, Fail, Killed, Stop, vars, RatesTypeOK
<1>3. ASSUME NEW w \in Writer, w # c, pc'[c] = pc[c], form'[c] = form[c],
             next'[c] = next[c], got'[c] = got[c]
      PROVE  pc'[c] \in {"idle", "rates"} /\ Writing(c)'
  BY <1>t, <1>3
<1>4. CASE Send(c)
  BY <1>t, <1>4 DEF Send, Collect, TypeOK, RatesTypeOK
<1>5. ASSUME NEW r \in Row, Visit(c, r), UNCHANGED runVars
      PROVE  pc'[c] \in {"idle", "rates"} /\ Writing(c)'
  BY <1>1, <1>5 DEF Visit, runVars
<1>6. CASE Commit(c) \/ Victim(c) \/ Crash(c)
  <2>1. pc' = [pc EXCEPT ![c] = "idle"]
    BY <1>6 DEF Commit, Victim, Crash, Rollback, Return
  <2> QED
    BY <1>t, <2>1 DEF TypeOK
<1>7. ASSUME NEW d \in Collector, d # c, Send(d) \/ Update(d) \/ (Crash(d) /\ Stop(d))
      PROVE  pc'[c] \in {"idle", "rates"} /\ Writing(c)'
  <2>1. pc'[c] = pc[c] /\ form'[c] = form[c]
    BY <1>t, <1>7, OthersLeaveRuns DEF Send, Update, Step
  <2>2. next'[c] = next[c] /\ got'[c] = got[c]
    BY <1>t, <1>7 DEF Send, Update, Stop, runVars, RatesTypeOK
  <2> QED
    BY <1>3, <1>7, <2>1, <2>2
<1>8. ASSUME NEW w \in Writer \ Collector, UNCHANGED runVars,
             OpenUntouched(w) \/ Step(w) \/ Crash(w) \/ \E r \in Row : Delete(w, r)
      PROVE  pc'[c] \in {"idle", "rates"} /\ Writing(c)'
  <2>1. pc'[c] = pc[c] /\ form'[c] = form[c]
    <3>1. \/ Step(w) \/ Crash(w) \/ \E r \in Row : Delete(w, r)
          \/ \E own, active, val : Open(w, own, active, val)
      BY <1>8 DEF OpenUntouched
    <3> QED
      BY <1>t, <1>8, <3>1, OthersLeaveRuns
  <2> QED
    BY <1>3, <1>8, <2>1 DEF runVars
<1>9. CASE \E d \in Collector : RunStep(d)
  <2>1. PICK d \in Collector : RunStep(d)
    BY <1>9
  <2>2. CASE (Start(d) \/ Turn(d) \/ Killed(d)) /\ UNCHANGED vars
    BY <1>2, <2>2
  <2>3. CASE d # c /\ (Send(d) \/ Update(d) \/ (Crash(d) /\ Stop(d)))
    BY <1>7, <2>3
  <2>4. CASE d = c /\ (Send(d) \/ Update(d) \/ (Crash(d) /\ Stop(d)))
    BY <1>4, <1>5, <1>6, <2>4 DEF Update
  <2> QED
    BY <2>1, <2>2, <2>3, <2>4 DEF RunStep
<1>10. CASE \E w \in Writer \ Collector : OperatorStep(w)
  BY <1>8, <1>10 DEF OperatorStep
<1>11. CASE (Tick \/ Outage \/ Recovery) /\ UNCHANGED vars
  BY <1>1, <1>11 DEF Tick, Outage, Recovery, vars
<1>12. CASE UNCHANGED ratesVars
  BY <1>1, <1>12 DEF ratesVars
<1> QED
  BY <1>9, <1>10, <1>11, <1>12, RatesCases

-------------------------------------------------------------------------------
LEMMA RatesInvInit == RatesInit => RatesInv
<1> SUFFICES ASSUME RatesInit
             PROVE  RatesInv
  OBVIOUS
<1>1. TypeOK
  BY TypeInit DEF RatesInit
<1>2. RatesTypeOK
  <2>1. up \in BOOLEAN
    BY DEF RatesInit
  <2>2. got \in [Collector -> Value]
    BY PresetAssumption DEF RatesInit
  <2>3. asked \in [Collector -> {"no", "waiting", "hanging"}]
    BY DEF RatesInit
  <2>4. /\ now \in 0..MaxTime /\ next \in [Collector -> 0..(Len(Keys) + 2)]
        /\ began \in [Collector -> 0..MaxTime]
    BY RatesAssumption, KeysType DEF RatesInit
  <2> QED
    BY <2>1, <2>2, <2>3, <2>4 DEF RatesTypeOK
<1>3. RunInv
  BY Collectors, KeysType DEF RatesInit, Init, RunInv, Asking, Writing, Fresh
<1> QED
  BY <1>1, <1>2, <1>3 DEF RatesInv

LEMMA RatesInvStep ==
    ASSUME RatesInv, [RatesNext]_ratesVars
    PROVE  RatesInv'
<1>1. TypeOK'
  BY RatesStepIsStep, TypeStep DEF RatesInv
<1>2. RatesTypeOK'
  BY RatesTypeKept DEF RatesInv
<1>3. RunInv'
  BY RunKept, AskingKept, FreshKept DEF RatesInv, RunInv
<1> QED
  BY <1>1, <1>2, <1>3 DEF RatesInv

LEMMA RatesInvCorrect == RatesSpec => []RatesInv
BY RatesInvInit, RatesInvStep, PTL DEF RatesSpec

(* The clock, what each run has and when it began keep their type, through  *)
(* outages, killed runs and whatever operators save (the command            *)
(* collect_exchange_rates).                                                 *)
THEOREM RatesTyped == RatesSpec => []RatesTypeOK
<1>1. RatesInv => RatesTypeOK
  BY DEF RatesInv
<1> QED
  BY <1>1, RatesInvCorrect, PTL

(* The runs of the collector beside the operators write the Global table    *)
(* only as PresetTable allows: each theorem about that table holds here.    *)
THEOREM RatesImplementTable == RatesSpec => Spec
<1>1. RatesInit => Init
  BY DEF RatesInit
<1>2. RatesInv /\ [RatesNext]_ratesVars => [Next]_vars
  BY RatesStepIsStep
<1> QED
  BY <1>1, <1>2, RatesInvCorrect, PTL DEF RatesSpec, Spec

(* When the UPDATE of a run commits, every preset that was active through   *)
(* it has rates not older than the run: they are those the run has, all     *)
(* were asked for since it began, and the UPDATE passed over no preset.     *)
THEOREM RunRefreshes == RatesSpec => RunRefreshesRates
<1>1. IInv /\ RatesInv /\ [RatesNext]_ratesVars =>
        [\A c \in Collector : Commit(c) =>
          \A r \in older[c] : \A k \in DOMAIN db'[r].val : db'[r].val[k] >= began[c]]_ratesVars
  <2> SUFFICES ASSUME IInv, RatesInv, NEW c \in Collector, Commit(c), NEW r \in older[c],
                      NEW k \in DOMAIN db'[r].val
               PROVE  db'[r].val[k] >= began[c]
    OBVIOUS
  <2>1. pc[c] = "rates" /\ todo[c] = {} /\ c \in Writer
    BY Collectors DEF RatesInv, RunInv, Commit
  <2>2. r \in Locked(c)
    BY <2>1 DEF IInv, SnapshotCovered, InStatement
  <2>3. db'[r].val = form[c].val
    BY <2>1, <2>2 DEF IInv, Written, Locked, Commit, Publish
  <2>4. form[c].val = got[c] /\ next[c] = Len(Keys) + 2 /\ Fresh(c) /\ got[c] \in Value
    BY <2>1 DEF RatesInv, RatesTypeOK, RunInv, Writing
  <2>5. PICK i \in 1..Len(Keys) : k = Keys[i]
    BY <2>3, <2>4, RatesAssumption
  <2> QED
    BY <2>3, <2>4, <2>5, KeysType DEF Fresh
<1> QED
  BY <1>1, RatesImplementTable, IInvCorrect, RatesInvCorrect, PTL DEF RatesSpec, RunRefreshesRates
================================================================================
