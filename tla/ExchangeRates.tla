----------------------------- MODULE ExchangeRates -----------------------------
(***************************************************************************)
(* The command collect_exchange_rates.  A run asks two services for one    *)
(* rate after the other, each in a loop that sleeps and asks again until   *)
(* it gets an answer, and writes all of them to the active Global preset   *)
(* with one UPDATE.  A request has no timeout: one that an outage cuts off *)
(* may wait for ever.  The Global table is PresetTable, whose values are   *)
(* here the times at which the market had each rate.                       *)
(***************************************************************************)
EXTENDS PresetTable, Sequences

CONSTANTS
    Collector,   \* runs of the command
    Keys,        \* the rates, in the order a run asks for them
    MaxTime,     \* bound of the market's clock
    Edit         \* whether operators open the form of existing presets

ASSUME RatesAssumption ==
    /\ Collector \subseteq Autocommit
    /\ Keys \in Seq(STRING)
    /\ MaxTime \in Nat
    /\ Edit \in BOOLEAN
    /\ Value = [{Keys[i] : i \in 1..Len(Keys)} -> 0..MaxTime]
    /\ Collected = Value

VARIABLES
    now,     \* the market's clock
    up,      \* whether the services answer
    next,    \* the rate each run asks for; 0 when it has not started
    asked,   \* its request: not sent, waiting for an answer, or cut off
    got,     \* the rates it has
    began    \* history: when it started

runVars == <<now, up, next, asked, got, began>>
ratesVars == <<rows, db, lock, dirty, pc, form, todo, older,
               now, up, next, asked, got, began>>

RatesInit ==
    /\ Init
    /\ now = 0
    /\ up = FALSE
    /\ next = [c \in Collector |-> 0]
    /\ asked = [c \in Collector |-> "no"]
    /\ got = [c \in Collector |-> Default]
    /\ began = [c \in Collector |-> 0]

-------------------------------------------------------------------------------
(* The environment: prices move, the services come and go. *)
Tick == now < MaxTime /\ now' = now + 1 /\ UNCHANGED <<up, next, asked, got, began>>
Outage == up /\ up' = FALSE /\ UNCHANGED <<now, next, asked, got, began>>
Recovery == ~up /\ up' = TRUE /\ UNCHANGED <<now, next, asked, got, began>>

(* Mutant: a run skips the first rate. *)
StartLate(c) ==
    /\ next[c] = 0
    /\ next' = [next EXCEPT ![c] = 2]
    /\ began' = [began EXCEPT ![c] = now]
    /\ UNCHANGED <<now, up, asked, got>>

Start(c) ==
    /\ next[c] = 0
    /\ next' = [next EXCEPT ![c] = 1]
    /\ began' = [began EXCEPT ![c] = now]
    /\ UNCHANGED <<now, up, asked, got>>

(* A turn of the loop of get_fiat_rate or get_crypto_usd_rate: requests.get *)
(* is called, and it returns the rate or raises.                            *)
Ask(c) ==
    /\ next[c] \in 1..Len(Keys)
    /\ asked[c] = "no"
    /\ asked' = [asked EXCEPT ![c] = "waiting"]
    /\ UNCHANGED <<now, up, next, got, began>>

Answer(c) ==
    /\ asked[c] = "waiting"
    /\ up
    /\ got' = [got EXCEPT ![c][Keys[next[c]]] = now]
    /\ next' = [next EXCEPT ![c] = @ + 1]
    /\ asked' = [asked EXCEPT ![c] = "no"]
    /\ UNCHANGED <<now, up, began>>

(* The connection is lost in an outage and nobody tells: the run goes on    *)
(* waiting, whether the services come back or not.                          *)
CutOff(c) ==
    /\ asked[c] = "waiting"
    /\ ~up
    /\ asked' = [asked EXCEPT ![c] = "hanging"]
    /\ UNCHANGED <<now, up, next, got, began>>

(* Mutant: a turn that fails is the last one, and its rate is missing. *)
FailAndGoOn(c) ==
    /\ asked[c] # "no"
    /\ got' = [got EXCEPT ![c] = [k \in DOMAIN @ \ {Keys[next[c]]} |-> @[k]]]
    /\ next' = [next EXCEPT ![c] = @ + 1]
    /\ asked' = [asked EXCEPT ![c] = "no"]
    /\ UNCHANGED <<now, up, began>>

(* Any exception, the operator's interrupt of a request included, only ends *)
(* the turn.                                                                *)
Fail(c) ==
    /\ asked[c] # "no"
    /\ asked' = [asked EXCEPT ![c] = "no"]
    /\ UNCHANGED <<now, up, next, got, began>>

Stop(c) ==
    /\ next' = [next EXCEPT ![c] = 0]
    /\ asked' = [asked EXCEPT ![c] = "no"]
    /\ got' = [got EXCEPT ![c] = Default]
    /\ began' = [began EXCEPT ![c] = 0]
    /\ UNCHANGED <<now, up>>

Killed(c) == next[c] \in 1..(Len(Keys) + 1) /\ Stop(c)

(* Mutant: the command waits for an active preset before it writes. *)
SendToActive(c) ==
    /\ next[c] = Len(Keys) + 1
    /\ Active # {}
    /\ Collect(c, got[c])
    /\ next' = [next EXCEPT ![c] = @ + 1]
    /\ UNCHANGED <<now, up, asked, got, began>>

Send(c) ==
    /\ next[c] = Len(Keys) + 1
    /\ Collect(c, got[c])
    /\ next' = [next EXCEPT ![c] = @ + 1]
    /\ UNCHANGED <<now, up, asked, got, began>>

(* The UPDATE at work, and its end: the command is done. *)
Update(c) ==
    \/ \E r \in Row : Visit(c, r) /\ UNCHANGED runVars
    \/ (Commit(c) \/ Victim(c)) /\ Stop(c)

Turn(c) == Ask(c) \/ Answer(c) \/ CutOff(c) \/ Fail(c)

(* Operators do not type over the rates of the forms they send. *)
OpenUntouched(w) ==
    \/ \E r \in rows : Edit /\ \E a \in Choices : Open(w, r, a, db[r].val)
    \/ \E r \in Row \ rows : \E a \in Choices : Open(w, r, a, Default)

RatesNext ==
    \/ (Tick \/ Outage \/ Recovery) /\ UNCHANGED vars
    \/ \E c \in Collector :
          \/ (Start(c) \/ Turn(c) \/ Killed(c)) /\ UNCHANGED vars
          \/ Send(c)
          \/ Update(c)
          \/ Crash(c) /\ Stop(c)
    \/ \E w \in Writer \ Collector :
          \/ (OpenUntouched(w) \/ Step(w) \/ Crash(w)) /\ UNCHANGED runVars
          \/ (\E r \in Row : Delete(w, r)) /\ UNCHANGED runVars

RatesSpec == RatesInit /\ [][RatesNext]_ratesVars

(* The services come back after each outage and stay up long enough, again  *)
(* and again, for a run to ask and for a request to be answered; no request *)
(* that is cut off has to end.  The row locks are granted as in             *)
(* PresetTable, and a run that has all its rates sends them.                *)
RatesFairSpec ==
    /\ RatesSpec
    /\ WF_ratesVars(Recovery /\ UNCHANGED vars)
    /\ \A c \in Collector :
          /\ SF_ratesVars(up /\ Ask(c) /\ UNCHANGED vars)
          /\ SF_ratesVars(Answer(c) /\ UNCHANGED vars)
          /\ WF_ratesVars(Send(c))
          /\ SF_ratesVars(Update(c))
    /\ \A w \in Writer \ Collector :
          SF_ratesVars(pc[w] # "form" /\ Step(w) /\ UNCHANGED runVars)

-------------------------------------------------------------------------------
(* Every variable of the runs has its type. *)
RatesTypeOK ==
    /\ now \in 0..MaxTime
    /\ up \in BOOLEAN
    /\ next \in [Collector -> 0..(Len(Keys) + 2)]
    /\ asked \in [Collector -> {"no", "waiting", "hanging"}]
    /\ got \in [Collector -> Value]
    /\ began \in [Collector -> 0..MaxTime]

(* A run leaves no rate behind that is older than itself in a preset that   *)
(* was active throughout its UPDATE, however long the services kept it      *)
(* waiting and whatever operators saved meanwhile.                          *)
RunRefreshesRates ==
    [][\A c \in Collector : Commit(c) =>
          \A r \in older[c] : \A k \in DOMAIN db'[r].val : db'[r].val[k] >= began[c]]_ratesVars

(* A run that has started ends, although its loops have no limit of turns   *)
(* and there may be no active preset to send the rates to, or it is held by *)
(* a request without a timeout that an outage has cut off.                  *)
RunEnds == \A c \in Collector : next[c] # 0 ~> next[c] = 0 \/ asked[c] = "hanging"
================================================================================
