------------------------------ MODULE PresetTable ------------------------------
(***************************************************************************)
(* One table of presets of the Django backend (AdminSettings, Global or    *)
(* Rules of insomnia_keeper_main/models.py) as PostgreSQL keeps it at      *)
(* READ COMMITTED, and the transactions that write it.                     *)
(*                                                                         *)
(* A save of an active preset is two statements:                           *)
(*     UPDATE ... SET active = FALSE WHERE active = TRUE                   *)
(*     INSERT / UPDATE of the preset itself                                *)
(* and the exchange-rate collector is one:                                 *)
(*     UPDATE ... SET <rates> WHERE active = TRUE                          *)
(* An UPDATE takes the rows its snapshot shows as active and then visits   *)
(* them one by one: it waits for a row another transaction has locked,     *)
(* tests the condition again on the newest committed version, and keeps    *)
(* the lock of a row it wrote until its transaction ends.                  *)
(***************************************************************************)
EXTENDS Integers, FiniteSets

CONSTANTS
    Row,         \* primary keys
    Value,       \* what the other columns of a preset hold (rates, fee, text)
    Accepted,    \* the values save() does not reject
    Default,     \* the value of a preset just created
    Collected,   \* the values the collector may bring (none but for Global)
    Writer,      \* connections that write the table
    Autocommit,  \* the writers that run outside transaction.atomic (a shell)
    Nobody,      \* "no writer", holder of an unlocked row
    NoRow,       \* "no row", what a writer without a form saves
    Choices,     \* the states of the form's "active" box in use
    Removable,   \* the presets operators may delete
    Overlap      \* FALSE: one save is finished before the next one starts

ASSUME PresetAssumption ==
    /\ Autocommit \subseteq Writer
    /\ Nobody \notin Writer
    /\ NoRow \notin Row
    /\ Default \in Value
    /\ Accepted \subseteq Value
    /\ Collected \subseteq Value
    /\ Choices \subseteq BOOLEAN
    /\ Removable \subseteq Row
    /\ Overlap \in BOOLEAN

VARIABLES
    rows,    \* the committed rows
    db,      \* their committed versions
    lock,    \* the transaction that has written the row and not ended
    dirty,   \* the version it has written
    pc,      \* where each writer is
    form,    \* the preset it saves, or the value it collected
    todo,    \* rows of its UPDATE's snapshot it has not visited
    older    \* history: rows active at its snapshot and at every commit since

vars == <<rows, db, lock, dirty, pc, form, todo, older>>

Version == [active : BOOLEAN, val : Value]
Form == [own : Row \cup {NoRow}, active : BOOLEAN, val : Value]
Stages == {"idle", "form", "clear", "own", "commit", "rates", "delete", "gone"}
InStatement == {"clear", "rates"}
Saving == {"clear", "own", "commit"}

Blank == [active |-> FALSE, val |-> Default]
NoForm == [own |-> NoRow, active |-> FALSE, val |-> Default]

Active == {r \in rows : db[r].active}
Locked(w) == {r \in Row : lock[r] = w}

Init ==
    /\ rows = {}
    /\ db = [r \in Row |-> Blank]
    /\ lock = [r \in Row |-> Nobody]
    /\ dirty = [r \in Row |-> Blank]
    /\ pc = [w \in Writer |-> "idle"]
    /\ form = [w \in Writer |-> NoForm]
    /\ todo = [w \in Writer |-> {}]
    /\ older = [w \in Writer |-> {}]

-------------------------------------------------------------------------------
(* The rows w has written are free again. *)
Release(w) ==
    /\ lock' = [r \in Row |-> IF lock[r] = w THEN Nobody ELSE lock[r]]
    /\ dirty' = [r \in Row |-> IF lock[r] = w THEN Blank ELSE dirty[r]]

(* What a COMMIT, or the end of a statement in autocommit, publishes. *)
Publish(w) ==
    /\ rows' = rows \cup Locked(w)
    /\ db' = [r \in Row |-> IF lock[r] = w THEN dirty[r] ELSE db[r]]
    /\ Release(w)

StillActive(x, w) == {r \in older[x] : lock[r] = w => dirty[r].active}

(* w is done with its save or its collection. *)
Return(w) ==
    /\ pc' = [pc EXCEPT ![w] = "idle"]
    /\ form' = [form EXCEPT ![w] = NoForm]
    /\ todo' = [todo EXCEPT ![w] = {}]

(* The change form, or the object a shell session loads: a row as it is now *)
(* with the columns the operator types over.  The add form holds the key    *)
(* the row will get, which the table's sequence gives to nobody else.       *)
Open(w, own, active, val) ==
    /\ pc[w] = "idle"
    /\ own \in rows \/ \A x \in Writer : form[x].own # own
    /\ form' = [form EXCEPT ![w] = [own |-> own, active |-> active, val |-> val]]
    /\ pc' = [pc EXCEPT ![w] = "form"]
    /\ UNCHANGED <<rows, db, lock, dirty, todo, older>>

(* Mutant: save() without the UPDATE that clears the other presets. *)
SaveWithoutClear(w) ==
    /\ pc[w] = "form"
    /\ form[w].val \in Accepted
    /\ Overlap \/ \A x \in Writer : pc[x] \notin Saving
    /\ pc' = [pc EXCEPT ![w] = "own"]
    /\ UNCHANGED <<rows, db, lock, dirty, form, todo, older>>

(* save() up to its first statement.  A rejected value raises before any    *)
(* statement.  An active preset starts the UPDATE that clears the others.   *)
Save(w) ==
    /\ pc[w] = "form"
    /\ form[w].val \in Accepted
    /\ Overlap \/ \A x \in Writer : pc[x] \notin Saving
    /\ IF form[w].active
       THEN /\ pc' = [pc EXCEPT ![w] = "clear"]
            /\ todo' = [todo EXCEPT ![w] = Active]
            /\ older' = [older EXCEPT ![w] = Active]
       ELSE /\ pc' = [pc EXCEPT ![w] = "own"]
            /\ UNCHANGED <<todo, older>>
    /\ UNCHANGED <<rows, db, lock, dirty, form>>

Reject(w) ==
    /\ pc[w] = "form"
    /\ form[w].val \notin Accepted
    /\ Return(w)
    /\ UNCHANGED <<rows, db, lock, dirty, older>>

(* The collector's only statement starts, with the rates it has fetched. *)
Collect(w, val) ==
    /\ pc[w] = "idle"
    /\ form' = [form EXCEPT ![w] = [own |-> NoRow, active |-> FALSE, val |-> val]]
    /\ pc' = [pc EXCEPT ![w] = "rates"]
    /\ todo' = [todo EXCEPT ![w] = Active]
    /\ older' = [older EXCEPT ![w] = Active]
    /\ UNCHANGED <<rows, db, lock, dirty>>

(* Mutants: the UPDATE passes over the rows somebody else has locked; the   *)
(* other presets are cleared by saving objects instead of by an UPDATE.     *)
VisitSkippingLocked(w, r) ==
    /\ pc[w] \in InStatement
    /\ r \in todo[w]
    /\ todo' = [todo EXCEPT ![w] = @ \ {r}]
    /\ IF lock[r] = Nobody /\ db[r].active
       THEN /\ lock' = [lock EXCEPT ![r] = w]
            /\ dirty' = [dirty EXCEPT ![r] =
                  [active |-> pc[w] = "rates",
                   val |-> IF pc[w] = "rates" THEN form[w].val ELSE db[r].val]]
       ELSE UNCHANGED <<lock, dirty>>
    /\ UNCHANGED <<rows, db, pc, form, older>>

VisitSavingObjects(w, r) ==
    /\ pc[w] \in InStatement
    /\ r \in todo[w]
    /\ lock[r] = Nobody
    /\ todo' = [todo EXCEPT ![w] = @ \ {r}]
    /\ lock' = [lock EXCEPT ![r] = w]
    /\ dirty' = [dirty EXCEPT ![r] = [active |-> pc[w] = "rates", val |-> form[w].val]]
    /\ UNCHANGED <<rows, db, pc, form, older>>

(* The UPDATE reaches a row of its snapshot that nobody else has locked. *)
Visit(w, r) ==
    /\ pc[w] \in InStatement
    /\ r \in todo[w]
    /\ lock[r] = Nobody
    /\ todo' = [todo EXCEPT ![w] = @ \ {r}]
    /\ IF db[r].active
       THEN /\ lock' = [lock EXCEPT ![r] = w]
            /\ dirty' = [dirty EXCEPT ![r] =
                  IF pc[w] = "clear" THEN [active |-> FALSE, val |-> db[r].val]
                                     ELSE [active |-> TRUE, val |-> form[w].val]]
       ELSE UNCHANGED <<lock, dirty>>
    /\ UNCHANGED <<rows, db, pc, form, older>>

(* Mutant: every statement commits, the admin's transaction is dropped. *)
EndClearPublishing(w) ==
    /\ pc[w] = "clear"
    /\ todo[w] = {}
    /\ Publish(w)
    /\ older' = [x \in Writer |-> StillActive(x, w)]
    /\ pc' = [pc EXCEPT ![w] = "own"]
    /\ UNCHANGED <<form, todo>>

(* The first UPDATE ends: published at once in autocommit, or kept.         *)
EndClear(w) ==
    /\ pc[w] = "clear"
    /\ todo[w] = {}
    /\ IF w \in Autocommit
       THEN /\ Publish(w)
            /\ older' = [x \in Writer |-> StillActive(x, w)]
       ELSE UNCHANGED <<rows, db, lock, dirty, older>>
    /\ pc' = [pc EXCEPT ![w] = "own"]
    /\ UNCHANGED <<form, todo>>

(* Mutant: the preset is inserted again instead of updated in place. *)
WriteNoRow(w) ==
    /\ pc[w] = "own"
    /\ form' = [form EXCEPT ![w].own = NoRow]
    /\ dirty' = [dirty EXCEPT ![form[w].own] = form[w]]
    /\ lock' = [lock EXCEPT ![form[w].own] = w]
    /\ pc' = [pc EXCEPT ![w] = "commit"]
    /\ UNCHANGED <<rows, db, todo, older>>

(* Mutant: the preset is written over another connection than the UPDATE,   *)
(* where the row the UPDATE has cleared looks locked by somebody else.      *)
WriteOwnElsewhere(w) ==
    LET r == form[w].own IN
    /\ pc[w] = "own"
    /\ lock[r] = Nobody
    /\ lock' = [lock EXCEPT ![r] = w]
    /\ dirty' = [dirty EXCEPT ![r] = [active |-> form[w].active, val |-> form[w].val]]
    /\ pc' = [pc EXCEPT ![w] = "commit"]
    /\ UNCHANGED <<rows, db, form, todo, older>>

(* super().save(): every column of the preset is written from the object. *)
WriteOwn(w) ==
    LET r == form[w].own IN
    /\ pc[w] = "own"
    /\ lock[r] \in {Nobody, w}
    /\ lock' = [lock EXCEPT ![r] = w]
    /\ dirty' = [dirty EXCEPT ![r] = [active |-> form[w].active, val |-> form[w].val]]
    /\ pc' = [pc EXCEPT ![w] = "commit"]
    /\ UNCHANGED <<rows, db, form, todo, older>>

Commit(w) ==
    /\ \/ pc[w] = "commit"
       \/ pc[w] = "rates" /\ todo[w] = {}
    /\ Publish(w)
    /\ older' = [x \in Writer |-> IF x = w THEN {} ELSE StillActive(x, w)]
    /\ Return(w)

(* A deletion, confirmed in the admin or asked for in a shell: a DELETE of  *)
(* one row, and the end of its transaction.                                 *)
Delete(w, r) ==
    /\ pc[w] = "idle"
    /\ r \in rows \cap Removable
    /\ form' = [form EXCEPT ![w] = [NoForm EXCEPT !.own = r]]
    /\ pc' = [pc EXCEPT ![w] = "delete"]
    /\ UNCHANGED <<rows, db, lock, dirty, todo, older>>

(* It waits for a row somebody else has locked, and may find none.          *)
Erase(w) ==
    LET r == form[w].own IN
    /\ pc[w] = "delete"
    /\ r \in rows => lock[r] = Nobody
    /\ lock' = IF r \in rows THEN [lock EXCEPT ![r] = w] ELSE lock
    /\ pc' = [pc EXCEPT ![w] = "gone"]
    /\ UNCHANGED <<rows, db, dirty, form, todo, older>>

(* No UPDATE finds the row any more, and its change form in the admin leads *)
(* nowhere.  A save that has begun, or an object in a shell, inserts it     *)
(* again.                                                                   *)
Closed(w) == {w} \cup {x \in Writer \ Autocommit : pc[x] = "form" /\ form[x].own \in Locked(w)}

EndDelete(w) ==
    /\ pc[w] = "gone"
    /\ rows' = rows \ Locked(w)
    /\ db' = [r \in Row |-> IF lock[r] = w THEN Blank ELSE db[r]]
    /\ Release(w)
    /\ pc' = [x \in Writer |-> IF x \in Closed(w) THEN "idle" ELSE pc[x]]
    /\ form' = [x \in Writer |-> IF x \in Closed(w) THEN NoForm ELSE form[x]]
    /\ todo' = [x \in Writer |-> todo[x] \ Locked(w)]
    /\ older' = [x \in Writer |-> older[x] \ Locked(w)]

(* The connection or the process is lost, or PostgreSQL picks the           *)
(* transaction as the victim of a deadlock: what it wrote is forgotten.     *)
Rollback(w) ==
    /\ Release(w)
    /\ older' = [older EXCEPT ![w] = {}]
    /\ Return(w)
    /\ UNCHANGED <<rows, db>>

Crash(w) == pc[w] # "idle" /\ Rollback(w)

(* u waits for a row that w has locked. *)
WaitsFor(u, w) ==
    /\ u # w
    /\ \/ pc[u] \in InStatement /\ \E r \in todo[u] : lock[r] = w
       \/ pc[u] = "own" /\ form[u].own \in Locked(w)
       \/ pc[u] = "delete" /\ form[u].own \in rows \cap Locked(w)

Waits(u) == \E w \in Writer : WaitsFor(u, w)

(* w is on a cycle of waits: each of a set of writers waits for another one *)
(* of them, and each of them is waited for.                                 *)
Deadlocked(w) ==
    /\ Waits(w)
    /\ \E S \in SUBSET {u \in Writer : Waits(u)} : w \in S /\ \E f \in [S -> S] :
        /\ \A u \in S : WaitsFor(u, f[u])
        /\ \A u, v \in S : f[u] = f[v] => u = v

Victim(w) == Deadlocked(w) /\ Rollback(w)

Step(w) ==
    \/ Save(w) \/ Reject(w) \/ EndClear(w) \/ WriteOwn(w) \/ Commit(w) \/ Victim(w)
    \/ Erase(w) \/ EndDelete(w)
    \/ \E r \in Row : Visit(w, r)

Next == \E w \in Writer :
    \/ Step(w)
    \/ Crash(w)
    \/ \E own \in Row, active \in Choices, val \in Value :
          Open(w, own, active, val)
    \/ \E val \in Collected : Collect(w, val)
    \/ \E r \in Row : Delete(w, r)

Spec == Init /\ [][Next]_vars

(* Every statement sent is executed and every transaction ends: PostgreSQL  *)
(* hands a row to those who wait for it in the order they came, so a writer *)
(* is not passed over for ever, and it breaks every cycle of waits.  Nobody *)
(* has to open a form or to send one.                                       *)
FairSpec == Spec /\ \A w \in Writer : SF_vars(pc[w] # "form" /\ Step(w))

-------------------------------------------------------------------------------
(* Every variable has its type. *)
TypeOK ==
    /\ rows \subseteq Row
    /\ db \in [Row -> Version]
    /\ lock \in [Row -> Writer \cup {Nobody}]
    /\ dirty \in [Row -> Version]
    /\ pc \in [Writer -> Stages]
    /\ form \in [Writer -> Form]
    /\ todo \in [Writer -> SUBSET Row]
    /\ older \in [Writer -> SUBSET Row]

(* As long as saves do not overlap, the committed table never shows two     *)
(* active presets, whatever crashes and whatever the collector does between *)
(* the statements: get(active=True) does not find several.                  *)
OneActivePreset ==
    ~Overlap => \A r, s \in Active : r = s

(* If every save is a transaction of its own and only activates presets,    *)
(* and nobody deletes one, the committed table always has an active preset once it has a row: the   *)
(* window in which the UPDATE has cleared all of them is never visible.     *)
AlwaysAnActivePreset ==
    Autocommit = {} /\ Choices = {TRUE} /\ Removable = {} /\ rows # {} => Active # {}

(* The commit of an activating save leaves no other preset active that was  *)
(* active when the save began and at every commit since: two presets end up *)
(* active together only if the saves that activated them overlapped.        *)
SaveReplacesWhatItSaw ==
    [][\A w \in Writer :
          pc[w] = "commit" /\ form[w].active /\ Commit(w)
              => \A r \in older[w] \ {form[w].own} : ~db'[r].active]_vars

(* When the collector's UPDATE ends, each preset that was active when it    *)
(* began and at every commit since holds the rates it brought, even if a    *)
(* save had the row locked or rewrote it meanwhile.                         *)
CollectorReachesTheActive ==
    [][\A w \in Writer :
          pc[w] = "rates" /\ Commit(w)
              => \A r \in older[w] : db'[r].val = form[w].val]_vars

(* A preset's data is changed only by a save of that preset or by the       *)
(* collector while it is active: clearing the flag of other presets never   *)
(* writes back data read before somebody else's commit.                     *)
ClearingKeepsData ==
    [][\A r \in rows \cap rows' : db'[r].val # db[r].val =>
          \E w \in Writer : /\ Commit(w)
                            /\ \/ pc[w] = "commit" /\ form[w].own = r
                               \/ pc[w] = "rates" /\ db[r].active]_vars

(* Every save and every collection ends, with its commit or its rollback:   *)
(* no writer waits for a row for ever, although deadlocks do arise.         *)
EveryWriteEnds ==
    \A w \in Writer : pc[w] \in Saving \cup {"rates", "delete", "gone"} ~> pc[w] = "idle"
================================================================================
