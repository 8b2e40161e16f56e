---------------------------- MODULE GlobalEndpoint -----------------------------
(***************************************************************************)
(* The readers of the presets: get_global() of api_v1/logic.py, which the  *)
(* client polls every five seconds, and the build view of api_v1/views.py. *)
(* Both look whether an active preset exists and then fetch "the" active   *)
(* preset, in separate statements of no common transaction, while the      *)
(* Global and Rules tables are written as PresetTable describes.           *)
(***************************************************************************)
EXTENDS PresetTable

CONSTANTS
    RulesWriter,   \* shell sessions that edit the rules
    Reader         \* requests to the two endpoints

ASSUME EndpointAssumption == Nobody \notin RulesWriter

VARIABLES
    rRows, rDb, rLock, rDirty, rPc, rForm, rTodo, rOlder,   \* the Rules table
    stage,   \* the next statement of each request
    fixed,   \* the Global preset it has fetched
    answer   \* how its last request ended

(* PresetTable itself is the Global table.  The rules are not registered in *)
(* the admin, so each statement of their saves commits by itself; the       *)
(* collector does not write them.                                           *)
R == INSTANCE PresetTable WITH
        Writer <- RulesWriter, Autocommit <- RulesWriter, Collected <- {},
        Removable <- Row,
        rows <- rRows, db <- rDb, lock <- rLock, dirty <- rDirty,
        pc <- rPc, form <- rForm, todo <- rTodo, older <- rOlder

rVars == <<rRows, rDb, rLock, rDirty, rPc, rForm, rTodo, rOlder>>
readVars == <<stage, fixed, answer>>
endpointVars == <<rows, db, lock, dirty, pc, form, todo, older,
                  rRows, rDb, rLock, rDirty, rPc, rForm, rTodo, rOlder,
                  stage, fixed, answer>>

ReadStages == {"idle", "anyGlobal", "anyRules", "getGlobal", "getRules",
               "buildAny", "buildGet"}
Answers == {"none", "served", "refused", "raised"}

EndpointInit ==
    /\ Init
    /\ R!Init
    /\ stage = [c \in Reader |-> "idle"]
    /\ fixed = [c \in Reader |-> NoRow]
    /\ answer = [c \in Reader |-> "none"]

-------------------------------------------------------------------------------
Goto(c, s) == stage' = [stage EXCEPT ![c] = s] /\ UNCHANGED <<answer>>

(* Mutant: the request forgets that it has ended. *)
FinishAgain(c, how) ==
    /\ stage' = [stage EXCEPT ![c] = how]
    /\ fixed' = [fixed EXCEPT ![c] = NoRow]
    /\ answer' = [answer EXCEPT ![c] = how]

Finish(c, how) ==
    /\ stage' = [stage EXCEPT ![c] = "idle"]
    /\ fixed' = [fixed EXCEPT ![c] = NoRow]
    /\ answer' = [answer EXCEPT ![c] = how]

Request(c) ==
    /\ stage[c] = "idle"
    /\ stage' = [stage EXCEPT ![c] = "anyGlobal"]
    /\ answer' = [answer EXCEPT ![c] = "none"]
    /\ UNCHANGED fixed

(* Global.objects.filter(active=True), and Rules' only if that found some:  *)
(* otherwise the request is refused with {'success': False}.                *)
AnyGlobal(c) ==
    /\ stage[c] = "anyGlobal"
    /\ IF Active # {} THEN Goto(c, "anyRules") /\ UNCHANGED fixed
                        ELSE Finish(c, "refused")

AnyRules(c) ==
    /\ stage[c] = "anyRules"
    /\ IF R!Active # {} THEN Goto(c, "getGlobal") /\ UNCHANGED fixed
                        ELSE Finish(c, "refused")

(* get(active=True) raises DoesNotExist or MultipleObjectsReturned unless   *)
(* exactly one preset is active now.                                        *)
GetGlobal(c) ==
    /\ stage[c] = "getGlobal"
    /\ \/ \E g \in Active :
            /\ Active = {g}
            /\ fixed' = [fixed EXCEPT ![c] = g]
            /\ Goto(c, "getRules")
       \/ ~(\E g \in Row : Active = {g}) /\ Finish(c, "raised")

GetRules(c) ==
    /\ stage[c] = "getRules"
    /\ Finish(c, IF \E r \in Row : R!Active = {r} THEN "served" ELSE "raised")

(* Mutant: the build view fetches the preset without looking for one. *)
BuildUnasked(c) == stage[c] = "buildAny" /\ Goto(c, "buildGet") /\ UNCHANGED fixed

(* The build view serves its page without presets when none is active. *)
Build(c) ==
    /\ stage[c] = "idle"
    /\ stage' = [stage EXCEPT ![c] = "buildAny"]
    /\ answer' = [answer EXCEPT ![c] = "none"]
    /\ UNCHANGED fixed

BuildAny(c) ==
    /\ stage[c] = "buildAny"
    /\ IF Active # {} THEN Goto(c, "buildGet") /\ UNCHANGED fixed
                        ELSE Finish(c, "served")

BuildGet(c) ==
    /\ stage[c] = "buildGet"
    /\ Finish(c, IF \E g \in Row : Active = {g} THEN "served" ELSE "raised")

Read(c) ==
    \/ AnyGlobal(c) \/ AnyRules(c) \/ GetGlobal(c) \/ GetRules(c)
    \/ BuildAny(c) \/ BuildGet(c)

EndpointNext ==
    \/ Next /\ UNCHANGED <<rVars, readVars>>
    \/ R!Next /\ UNCHANGED <<vars, readVars>>
    \/ \E c \in Reader : /\ Request(c) \/ Build(c) \/ Read(c)
                         /\ UNCHANGED <<vars, rVars>>

EndpointSpec == EndpointInit /\ [][EndpointNext]_endpointVars

-------------------------------------------------------------------------------
(* Every variable of the readers has its type. *)
ReadersTypeOK ==
    /\ stage \in [Reader -> ReadStages]
    /\ fixed \in [Reader -> Row \cup {NoRow}]
    /\ answer \in [Reader -> Answers]

(* If operators only activate presets, in the admin and one at a time, a    *)
(* request that has found an active Global preset always fetches exactly    *)
(* one a statement later, although nothing holds the table between the two: *)
(* neither get_global() nor the build view fails on Global.objects.get().   *)
FoundGlobalStays ==
    ~Overlap /\ Autocommit = {} /\ Choices = {TRUE} /\ Removable = {} =>
        \A c \in Reader : stage[c] \in {"anyRules", "getGlobal", "buildGet"}
                              => \E g \in Row : Active = {g}
================================================================================
