--------------------------- MODULE PresetTable_proof ---------------------------
(* Proofs about PresetTable, for any set of rows, values and writers. *)
EXTENDS PresetTable, TLAPS

(* The inductive invariant, in parts.                                       *)

(* A row whose lock w holds because its UPDATE cleared it. *)
Cleared(r) == r \in rows /\ ~dirty[r].active /\ dirty[r].val = db[r].val

(* Only a transaction in progress holds a lock. *)
LocksAreHeld == \A r \in Row : lock[r] # Nobody => pc[lock[r]] \notin {"idle", "form"}

(* What a transaction has written so far. *)
Written(w) ==
    /\ pc[w] \in {"clear", "own"} => \A r \in Locked(w) : Cleared(r)
    /\ pc[w] = "commit" =>
          /\ lock[form[w].own] = w
          /\ dirty[form[w].own].active = form[w].active
          /\ \A r \in Locked(w) \ {form[w].own} : Cleared(r)
    /\ pc[w] = "rates" =>
          \A r \in Locked(w) : /\ r \in rows /\ db[r].active
                              /\ dirty[r].active /\ dirty[r].val = form[w].val

(* The UPDATE that clears belongs to an active preset. *)
FormHeld(w) ==
    /\ pc[w] \in {"form"} \cup Saving => form[w].own \in Row
    /\ pc[w] = "clear" => form[w].active

(* Nothing the snapshot showed escapes: a row still active is yet to be     *)
(* visited or locked.                                                       *)
SnapshotCovered(w) ==
    /\ todo[w] \subseteq rows
    /\ older[w] \subseteq Active
    /\ pc[w] \in {"idle", "form", "delete", "gone"} => older[w] = {}
    /\ pc[w] \in InStatement => older[w] \subseteq todo[w] \cup Locked(w)
    /\ pc[w] \in {"own", "commit"} => older[w] \subseteq Locked(w)

IInv ==
    /\ TypeOK
    /\ LocksAreHeld
    /\ \A w \in Writer : Written(w) /\ FormHeld(w) /\ SnapshotCovered(w)

(* With saves one at a time: the snapshot of the one in progress still      *)
(* shows every active preset.                                               *)
OneSaver == \A u, w \in Writer : pc[u] \in Saving /\ pc[w] \in Saving => u = w
SaverSeesAll == \A w \in Writer : pc[w] \in Saving /\ form[w].active => Active \subseteq older[w]
SerialInv == ~Overlap => OneSaver /\ SaverSeesAll /\ \A r, s \in Active : r = s

(* With saves that only activate: every form in use is an activating one.   *)
ActivatingInv ==
    Autocommit = {} /\ Choices = {TRUE} /\ Removable = {} =>
        /\ \A w \in Writer : pc[w] \in {"form"} \cup Saving => form[w].active
        /\ \A w \in Writer : pc[w] \notin {"delete", "gone"}
        /\ rows # {} => Active # {}

(* The types hold initially and are kept by every step. *)
LEMMA TypeInit == Init => TypeOK
  BY PresetAssumption DEF Init, TypeOK, Version, Form, Stages, Blank, NoForm

LEMMA TypeStep == TypeOK /\ [Next]_vars => TypeOK'
<1> USE PresetAssumption DEF TypeOK, Version, Form, Stages, Blank, NoForm
<1> SUFFICES ASSUME TypeOK, [Next]_vars
             PROVE  TypeOK'
  OBVIOUS
<1> USE DEF Return, Release, Publish, Rollback, Locked
<1>a. Active \in SUBSET Row
  BY DEF Active
<1>b. \A x, w \in Writer : StillActive(x, w) \in SUBSET Row
  BY DEF StillActive
<1>1. ASSUME NEW w \in Writer, Save(w) PROVE TypeOK'
  <2>1. CASE form[w].active
    <3>1. /\ pc' = [pc EXCEPT ![w] = "clear"]
          /\ todo' = [todo EXCEPT ![w] = Active]
          /\ older' = [older EXCEPT ![w] = Active]
          /\ UNCHANGED <<rows, db, lock, dirty, form>>
      BY <1>1, <2>1 DEF Save
    <3> QED
      BY <1>a, <3>1
  <2>2. CASE ~form[w].active
    BY <1>1, <2>2 DEF Save
  <2> QED
    BY <2>1, <2>2
<1>2. ASSUME NEW w \in Writer, Reject(w) PROVE TypeOK'
  BY <1>2 DEF Reject
<1>3. ASSUME NEW w \in Writer, EndClear(w) PROVE TypeOK'
  <2>1. CASE w \in Autocommit
    <3>1. /\ Publish(w)
          /\ older' = [x \in Writer |-> StillActive(x, w)]
          /\ pc' = [pc EXCEPT ![w] = "own"]
          /\ UNCHANGED <<form, todo>>
      BY <1>3, <2>1 DEF EndClear
    <3> QED
      BY <1>b, <3>1
  <2>2. CASE w \notin Autocommit
    BY <1>3, <2>2 DEF EndClear
  <2> QED
    BY <2>1, <2>2
<1>4. ASSUME NEW w \in Writer, WriteOwn(w) PROVE TypeOK'
  BY <1>4 DEF WriteOwn
<1>5. ASSUME NEW w \in Writer, Commit(w) PROVE TypeOK'
  BY <1>b, <1>5 DEF Commit
<1>6. ASSUME NEW w \in Writer, Rollback(w) PROVE TypeOK'
  BY <1>6
<1>7. ASSUME NEW w \in Writer, NEW r \in Row, Visit(w, r) PROVE TypeOK'
  <2>1. CASE ~db[r].active
    BY <1>7, <2>1 DEF Visit
  <2>2. CASE db[r].active /\ pc[w] = "clear"
    <3>1. /\ todo' = [todo EXCEPT ![w] = @ \ {r}]
          /\ lock' = [lock EXCEPT ![r] = w]
          /\ dirty' = [dirty EXCEPT ![r] = [active |-> FALSE, val |-> db[r].val]]
          /\ UNCHANGED <<rows, db, pc, form, older>>
      BY <1>7, <2>2 DEF Visit
    <3>2. [active |-> FALSE, val |-> db[r].val] \in Version
      OBVIOUS
    <3> QED
      BY <3>1, <3>2
  <2>3. CASE db[r].active /\ pc[w] = "rates"
    <3>1. /\ todo' = [todo EXCEPT ![w] = @ \ {r}]
          /\ lock' = [lock EXCEPT ![r] = w]
          /\ dirty' = [dirty EXCEPT ![r] = [active |-> TRUE, val |-> form[w].val]]
          /\ UNCHANGED <<rows, db, pc, form, older>>
      BY <1>7, <2>3 DEF Visit
    <3>2. [active |-> TRUE, val |-> form[w].val] \in Version
      OBVIOUS
    <3> QED
      BY <3>1, <3>2
  <2> QED
    BY <1>7, <2>1, <2>2, <2>3 DEF Visit, InStatement
<1>8. ASSUME NEW w \in Writer, NEW own \in Row, NEW active \in Choices,
             NEW val \in Value, Open(w, own, active, val)
      PROVE  TypeOK'
  BY <1>8 DEF Open
<1>9. ASSUME NEW w \in Writer, NEW val \in Collected, Collect(w, val)
      PROVE  TypeOK'
  BY <1>a, <1>9 DEF Collect
<1>10. ASSUME NEW w \in Writer, NEW r \in Row, Delete(w, r) PROVE TypeOK'
  BY <1>10 DEF Delete
<1>11. ASSUME NEW w \in Writer, Erase(w) PROVE TypeOK'
  BY <1>11 DEF Erase
<1>12. ASSUME NEW w \in Writer, EndDelete(w) PROVE TypeOK'
  BY <1>12 DEF EndDelete
<1>13. CASE UNCHANGED vars
  BY <1>13 DEF vars
<1> QED
  BY <1>1, <1>2, <1>3, <1>4, <1>5, <1>6, <1>7, <1>8, <1>9, <1>10, <1>11, <1>12, <1>13
     DEF Next, Step, Victim, Crash

(* Type correctness: every variable of the table keeps its type. *)
THEOREM TypeCorrect == Spec => []TypeOK
  BY TypeInit, TypeStep, PTL DEF Spec

LEMMA IInvInit == Init => IInv
  BY TypeInit, PresetAssumption
     DEF Init, IInv, LocksAreHeld, Written, FormHeld, SnapshotCovered, Locked,
         Active, Blank, NoForm, Saving, InStatement

LEMMA IInvStep == IInv /\ [Next]_vars => IInv'
<1> SUFFICES ASSUME IInv, [Next]_vars
             PROVE  IInv'
  OBVIOUS
<1> USE PresetAssumption
<1>t. TypeOK /\ TypeOK'
  BY TypeStep DEF IInv
<1> DEFINE Parts == /\ LocksAreHeld
                    /\ \A x \in Writer : Written(x) /\ FormHeld(x) /\ SnapshotCovered(x)
<1>p. Parts
  BY DEF IInv
<1> USE DEF TypeOK, Version, Form, Stages, NoForm, Blank, Saving, InStatement, Locked, Active
<1>1. ASSUME NEW w \in Writer, Save(w)
      PROVE  Parts'
  <2>1. LocksAreHeld'
    BY <1>t, <1>p, <1>1 DEF LocksAreHeld, Save, Saving, InStatement
  <2> SUFFICES ASSUME NEW x \in Writer
               PROVE  (Written(x) /\ FormHeld(x) /\ SnapshotCovered(x))'
    BY <2>1
  <2>2. Written(x)'
    <3>1. UNCHANGED <<rows, db, lock, dirty, form>> /\ pc'[w] \in {"clear", "own"}
      BY <1>t, <1>1 DEF Save
    <3>2. CASE x = w
      <4>1. Locked(w) = {}
        BY <1>t, <1>p, <1>1 DEF LocksAreHeld, Save
      <4> QED
        BY <3>1, <3>2, <4>1 DEF Written, Cleared
    <3>3. CASE x # w
      <4>1. pc'[x] = pc[x]
        BY <1>t, <1>1, <3>3 DEF Save
      <4> QED
        BY <1>p, <3>1, <4>1 DEF Written, Cleared
    <3> QED
      BY <3>2, <3>3
  <2>3. FormHeld(x)'
    BY <1>t, <1>p, <1>1 DEF FormHeld, Save, Saving, InStatement
  <2>4. SnapshotCovered(x)'
    BY <1>t, <1>p, <1>1 DEF LocksAreHeld, SnapshotCovered, Written, Cleared, FormHeld, Save, Saving, InStatement
  <2> QED
    BY <2>2, <2>3, <2>4
<1>2. ASSUME NEW w \in Writer, Reject(w)
      PROVE  Parts'
  <2>1. LocksAreHeld'
    BY <1>t, <1>p, <1>2 DEF LocksAreHeld, Reject, Return
  <2> SUFFICES ASSUME NEW x \in Writer
               PROVE  (Written(x) /\ FormHeld(x) /\ SnapshotCovered(x))'
    BY <2>1
  <2>2. Written(x)'
    BY <1>t, <1>p, <1>2 DEF LocksAreHeld, Written, Cleared, FormHeld, Reject, Return
  <2>3. FormHeld(x)'
    BY <1>t, <1>p, <1>2 DEF FormHeld, Reject, Return
  <2>4. SnapshotCovered(x)'
    BY <1>t, <1>p, <1>2 DEF LocksAreHeld, SnapshotCovered, Written, Cleared, FormHeld, Reject, Return
  <2> QED
    BY <2>2, <2>3, <2>4
<1>3. ASSUME NEW w \in Writer, EndClear(w)
      PROVE  Parts'
  <2>1. LocksAreHeld'
    BY <1>t, <1>p, <1>3 DEF LocksAreHeld, EndClear, Publish, Release, StillActive
  <2> SUFFICES ASSUME NEW x \in Writer
               PROVE  (Written(x) /\ FormHeld(x) /\ SnapshotCovered(x))'
    BY <2>1
  <2>2. Written(x)'
    BY <1>t, <1>p, <1>3 DEF LocksAreHeld, Written, Cleared, FormHeld, EndClear, Publish, Release, StillActive
  <2>3. FormHeld(x)'
    BY <1>t, <1>p, <1>3 DEF FormHeld, EndClear, Publish, Release, StillActive
  <2>4. SnapshotCovered(x)'
    <3>1. CASE w \in Autocommit
      <4>1. /\ todo' = todo /\ rows \subseteq rows'
            /\ older'[x] = StillActive(x, w)
            /\ \A r \in Row : lock[r] # w => db'[r] = db[r]
            /\ \A r \in Row : lock[r] = w => ~dirty[r].active
            /\ Locked(x) \ Locked(w) \subseteq Locked(x)'
        BY <1>t, <1>p, <1>3, <3>1 DEF Written, Cleared, EndClear, Publish, Release
      <4>2. older'[x] \subseteq older[x] \ Locked(w)
        BY <1>t, <4>1 DEF StillActive
      <4>3. pc'[x] = IF x = w THEN "own" ELSE pc[x]
        BY <1>t, <1>3 DEF EndClear
      <4>4. x = w => pc[x] = "clear" /\ todo[x] = {}
        BY <1>3 DEF EndClear
      <4>5. older[x] \subseteq Active
        BY <1>p DEF SnapshotCovered
      <4>6. older'[x] \subseteq Active'
        BY <1>t, <4>1, <4>2, <4>5
      <4> QED
        BY <1>p, <1>t, <4>1, <4>2, <4>3, <4>4, <4>6 DEF SnapshotCovered
    <3>2. CASE w \notin Autocommit
      <4>1. /\ UNCHANGED <<rows, db, lock, todo, older>>
            /\ pc'[x] = IF x = w THEN "own" ELSE pc[x]
            /\ x = w => pc[x] = "clear" /\ todo[x] = {}
        BY <1>t, <1>3, <3>2 DEF EndClear
      <4> QED
        BY <1>p, <4>1 DEF SnapshotCovered
    <3> QED
      BY <3>1, <3>2
  <2> QED
    BY <2>2, <2>3, <2>4
<1>4. ASSUME NEW w \in Writer, WriteOwn(w)
      PROVE  Parts'
  <2>1. LocksAreHeld'
    BY <1>t, <1>p, <1>4 DEF LocksAreHeld, WriteOwn
  <2> SUFFICES ASSUME NEW x \in Writer
               PROVE  (Written(x) /\ FormHeld(x) /\ SnapshotCovered(x))'
    BY <2>1
  <2>2. Written(x)'
    BY <1>t, <1>p, <1>4 DEF LocksAreHeld, Written, Cleared, FormHeld, WriteOwn
  <2>3. FormHeld(x)'
    BY <1>t, <1>p, <1>4 DEF FormHeld, WriteOwn
  <2>4. SnapshotCovered(x)'
    BY <1>t, <1>p, <1>4 DEF LocksAreHeld, SnapshotCovered, Written, Cleared, FormHeld, WriteOwn
  <2> QED
    BY <2>2, <2>3, <2>4
<1>5. ASSUME NEW w \in Writer, Commit(w)
      PROVE  Parts'
  <2>1. LocksAreHeld'
    BY <1>t, <1>p, <1>5 DEF LocksAreHeld, Commit, Publish, Release, StillActive, Return
  <2> SUFFICES ASSUME NEW x \in Writer
               PROVE  (Written(x) /\ FormHeld(x) /\ SnapshotCovered(x))'
    BY <2>1
  <2>2. Written(x)'
    <3>1. CASE x = w
      BY <1>t, <1>5, <3>1 DEF Written, Commit, Publish, Release, StillActive, Return
    <3>2. CASE x # w
      <4>1. /\ pc'[x] = pc[x] /\ form'[x] = form[x]
            /\ Locked(x)' = Locked(x)
            /\ \A r \in Locked(x) : dirty'[r] = dirty[r] /\ db'[r] = db[r]
            /\ rows \subseteq rows'
        BY <1>t, <1>5, <3>2 DEF Commit, Publish, Release, StillActive, Return
      <4>2. pc[x] \in {"clear", "own"} => \A r \in Locked(x)' : Cleared(r)'
        BY <1>p, <1>t, <4>1 DEF Written, Cleared
      <4>3. pc[x] = "commit" =>
              /\ lock'[form[x].own] = x
              /\ dirty'[form[x].own].active = form[x].active
              /\ \A r \in Locked(x)' \ {form[x].own} : Cleared(r)'
        BY <1>p, <1>t, <4>1 DEF Written, Cleared, FormHeld
      <4>4. pc[x] = "rates" =>
              \A r \in Locked(x)' : /\ r \in rows' /\ db'[r].active
                                   /\ dirty'[r].active /\ dirty'[r].val = form[x].val
        BY <1>p, <1>t, <4>1 DEF Written
      <4> QED
        BY <4>1, <4>2, <4>3, <4>4 DEF Written
    <3> QED
      BY <3>1, <3>2
  <2>3. FormHeld(x)'
    BY <1>t, <1>p, <1>5 DEF FormHeld, Commit, Publish, Release, StillActive, Return
  <2>4. SnapshotCovered(x)'
    BY <1>t, <1>p, <1>5 DEF LocksAreHeld, SnapshotCovered, Written, Cleared, FormHeld, Commit, Publish, Release, StillActive, Return
  <2> QED
    BY <2>2, <2>3, <2>4
<1>6. ASSUME NEW w \in Writer, Rollback(w)
      PROVE  Parts'
  <2>1. LocksAreHeld'
    BY <1>t, <1>p, <1>6 DEF LocksAreHeld, Rollback, Release, Return
  <2> SUFFICES ASSUME NEW x \in Writer
               PROVE  (Written(x) /\ FormHeld(x) /\ SnapshotCovered(x))'
    BY <2>1
  <2>2. Written(x)'
    <3>1. CASE x = w
      BY <1>t, <1>6, <3>1 DEF Written, Rollback, Release, Return
    <3>2. CASE x # w
      <4>1. /\ pc'[x] = pc[x] /\ form'[x] = form[x]
            /\ Locked(x)' = Locked(x)
            /\ \A r \in Locked(x) : dirty'[r] = dirty[r] /\ db'[r] = db[r]
            /\ rows \subseteq rows'
        BY <1>t, <1>6, <3>2 DEF Rollback, Release, Return
      <4>2. pc[x] \in {"clear", "own"} => \A r \in Locked(x)' : Cleared(r)'
        BY <1>p, <1>t, <4>1 DEF Written, Cleared
      <4>3. pc[x] = "commit" =>
              /\ lock'[form[x].own] = x
              /\ dirty'[form[x].own].active = form[x].active
              /\ \A r \in Locked(x)' \ {form[x].own} : Cleared(r)'
        BY <1>p, <1>t, <4>1 DEF Written, Cleared, FormHeld
      <4>4. pc[x] = "rates" =>
              \A r \in Locked(x)' : /\ r \in rows' /\ db'[r].active
                                   /\ dirty'[r].active /\ dirty'[r].val = form[x].val
        BY <1>p, <1>t, <4>1 DEF Written
      <4> QED
        BY <4>1, <4>2, <4>3, <4>4 DEF Written
    <3> QED
      BY <3>1, <3>2
  <2>3. FormHeld(x)'
    BY <1>t, <1>p, <1>6 DEF FormHeld, Rollback, Release, Return
  <2>4. SnapshotCovered(x)'
    BY <1>t, <1>p, <1>6 DEF LocksAreHeld, SnapshotCovered, Written, Cleared, FormHeld, Rollback, Release, Return
  <2> QED
    BY <2>2, <2>3, <2>4
<1>7. ASSUME NEW w \in Writer, NEW r \in Row, Visit(w, r)
      PROVE  Parts'
  <2>1. LocksAreHeld'
    BY <1>t, <1>p, <1>7 DEF LocksAreHeld, Visit
  <2> SUFFICES ASSUME NEW x \in Writer
               PROVE  (Written(x) /\ FormHeld(x) /\ SnapshotCovered(x))'
    BY <2>1
  <2>2. Written(x)'
    <3>1. CASE ~db[r].active
      <4>1. UNCHANGED <<rows, db, lock, dirty, pc, form>>
        BY <1>7, <3>1 DEF Visit
      <4> QED
        BY <1>p, <4>1 DEF Written, Cleared
    <3>2. CASE db[r].active
      <4>1. /\ lock' = [lock EXCEPT ![r] = w]
            /\ UNCHANGED <<rows, db, pc, form>>
            /\ lock[r] = Nobody
            /\ \A q \in Row \ {r} : dirty'[q] = dirty[q]
            /\ r \in rows
            /\ pc[w] = "clear" => ~dirty'[r].active /\ dirty'[r].val = db[r].val
            /\ pc[w] = "rates" => dirty'[r].active /\ dirty'[r].val = form[w].val
            /\ pc[w] \in {"clear", "rates"}
        <5>1. r \in rows
          BY <1>t, <1>p, <1>7 DEF Visit, SnapshotCovered
        <5> QED
          BY <1>t, <1>7, <3>2, <5>1 DEF Visit
      <4>2. CASE x = w
        BY <1>t, <1>p, <3>2, <4>1, <4>2 DEF Written, Cleared
      <4>3. CASE x # w
        BY <1>t, <1>p, <4>1, <4>3 DEF Written, Cleared, FormHeld
      <4> QED
        BY <4>2, <4>3
    <3> QED
      BY <3>1, <3>2
  <2>3. FormHeld(x)'
    BY <1>t, <1>p, <1>7 DEF FormHeld, Visit
  <2>4. SnapshotCovered(x)'
    BY <1>t, <1>p, <1>7 DEF LocksAreHeld, SnapshotCovered, Written, Cleared, FormHeld, Visit
  <2> QED
    BY <2>2, <2>3, <2>4
<1>8. ASSUME NEW w \in Writer, NEW own \in Row, NEW active \in Choices,
             NEW val \in Value, Open(w, own, active, val)
      PROVE  Parts'
  <2>1. LocksAreHeld'
    BY <1>t, <1>p, <1>8 DEF LocksAreHeld, Open
  <2> SUFFICES ASSUME NEW x \in Writer
               PROVE  (Written(x) /\ FormHeld(x) /\ SnapshotCovered(x))'
    BY <2>1
  <2>2. Written(x)'
    BY <1>t, <1>p, <1>8 DEF LocksAreHeld, Written, Cleared, FormHeld, Open
  <2>3. FormHeld(x)'
    BY <1>t, <1>p, <1>8 DEF FormHeld, Open
  <2>4. SnapshotCovered(x)'
    BY <1>t, <1>p, <1>8 DEF LocksAreHeld, SnapshotCovered, Written, Cleared, FormHeld, Open
  <2> QED
    BY <2>2, <2>3, <2>4
<1>9. ASSUME NEW w \in Writer, NEW val \in Collected, Collect(w, val)
      PROVE  Parts'
  <2>1. LocksAreHeld'
    BY <1>t, <1>p, <1>9 DEF LocksAreHeld, Collect
  <2> SUFFICES ASSUME NEW x \in Writer
               PROVE  (Written(x) /\ FormHeld(x) /\ SnapshotCovered(x))'
    BY <2>1
  <2>2. Written(x)'
    BY <1>t, <1>p, <1>9 DEF LocksAreHeld, Written, Cleared, FormHeld, Collect
  <2>3. FormHeld(x)'
    BY <1>t, <1>p, <1>9 DEF FormHeld, Collect
  <2>4. SnapshotCovered(x)'
    BY <1>t, <1>p, <1>9 DEF LocksAreHeld, SnapshotCovered, Written, Cleared, FormHeld, Collect
  <2> QED
    BY <2>2, <2>3, <2>4
<1>10. ASSUME NEW w \in Writer, NEW r \in Row, Delete(w, r)
      PROVE  Parts'
  <2>1. LocksAreHeld'
    BY <1>t, <1>p, <1>10 DEF LocksAreHeld, Delete
  <2> SUFFICES ASSUME NEW x \in Writer
               PROVE  (Written(x) /\ FormHeld(x) /\ SnapshotCovered(x))'
    BY <2>1
  <2>2. Written(x)'
    BY <1>t, <1>p, <1>10 DEF LocksAreHeld, Written, Cleared, FormHeld, Delete
  <2>3. FormHeld(x)'
    BY <1>t, <1>p, <1>10 DEF FormHeld, Delete
  <2>4. SnapshotCovered(x)'
    BY <1>t, <1>p, <1>10 DEF LocksAreHeld, SnapshotCovered, Written, Cleared, FormHeld, Delete
  <2> QED
    BY <2>2, <2>3, <2>4
<1>11. ASSUME NEW w \in Writer, Erase(w)
      PROVE  Parts'
  <2>1. LocksAreHeld'
    BY <1>t, <1>p, <1>11 DEF LocksAreHeld, Erase
  <2> SUFFICES ASSUME NEW x \in Writer
               PROVE  (Written(x) /\ FormHeld(x) /\ SnapshotCovered(x))'
    BY <2>1
  <2>2. Written(x)'
    BY <1>t, <1>p, <1>11 DEF LocksAreHeld, Written, Cleared, FormHeld, Erase
  <2>3. FormHeld(x)'
    BY <1>t, <1>p, <1>11 DEF FormHeld, Erase
  <2>4. SnapshotCovered(x)'
    BY <1>t, <1>p, <1>11 DEF LocksAreHeld, SnapshotCovered, Written, Cleared, FormHeld, Erase
  <2> QED
    BY <2>2, <2>3, <2>4
<1>12. ASSUME NEW w \in Writer, EndDelete(w)
      PROVE  Parts'
  <2>1. LocksAreHeld'
    BY <1>t, <1>p, <1>12 DEF LocksAreHeld, EndDelete, Closed, Release
  <2> SUFFICES ASSUME NEW x \in Writer
               PROVE  (Written(x) /\ FormHeld(x) /\ SnapshotCovered(x))'
    BY <2>1
  <2>2. Written(x)'
    <3>1. CASE x \in Closed(w)
      BY <1>t, <1>12, <3>1 DEF Written, EndDelete
    <3>2. CASE x \notin Closed(w)
      <4>1. /\ pc'[x] = pc[x] /\ form'[x] = form[x]
            /\ Locked(x)' = Locked(x)
            /\ \A r \in Locked(x) : dirty'[r] = dirty[r] /\ db'[r] = db[r]
            /\ \A r \in Locked(x) : r \in rows => r \in rows'
        BY <1>t, <1>12, <3>2 DEF EndDelete, Closed, Release
      <4>2. pc[x] \in {"clear", "own"} => \A r \in Locked(x)' : Cleared(r)'
        BY <1>p, <1>t, <4>1 DEF Written, Cleared
      <4>3. pc[x] = "commit" =>
              /\ lock'[form[x].own] = x
              /\ dirty'[form[x].own].active = form[x].active
              /\ \A r \in Locked(x)' \ {form[x].own} : Cleared(r)'
        BY <1>p, <1>t, <4>1 DEF Written, Cleared, FormHeld
      <4>4. pc[x] = "rates" =>
              \A r \in Locked(x)' : /\ r \in rows' /\ db'[r].active
                                   /\ dirty'[r].active /\ dirty'[r].val = form[x].val
        BY <1>p, <1>t, <4>1 DEF Written
      <4> QED
        BY <4>1, <4>2, <4>3, <4>4 DEF Written
    <3> QED
      BY <3>1, <3>2
  <2>3. FormHeld(x)'
    BY <1>t, <1>p, <1>12 DEF FormHeld, EndDelete, Closed, Release
  <2>4. SnapshotCovered(x)'
    <3>1. /\ rows' = rows \ Locked(w)
          /\ todo'[x] = todo[x] \ Locked(w)
          /\ older'[x] = older[x] \ Locked(w)
          /\ Active' = Active \ Locked(w)
      BY <1>t, <1>12 DEF EndDelete
    <3>2. CASE x \in Closed(w)
      <4>1. pc'[x] = "idle" /\ older[x] \subseteq Locked(w)
        BY <1>t, <1>p, <1>12, <3>2 DEF SnapshotCovered, EndDelete, Closed
      <4> QED
        BY <1>p, <3>1, <4>1 DEF SnapshotCovered
    <3>3. CASE x \notin Closed(w)
      <4>1. pc'[x] = pc[x] /\ x # w /\ Locked(x)' = Locked(x)
        BY <1>t, <1>12, <3>3 DEF EndDelete, Closed, Release
      <4> QED
        BY <1>p, <3>1, <4>1 DEF SnapshotCovered
    <3> QED
      BY <3>2, <3>3
  <2> QED
    BY <2>2, <2>3, <2>4
<1>13. CASE UNCHANGED vars
  <2>1. LocksAreHeld'
    BY <1>p, <1>13 DEF vars, LocksAreHeld
  <2> SUFFICES ASSUME NEW x \in Writer
               PROVE  (Written(x) /\ FormHeld(x) /\ SnapshotCovered(x))'
    BY <2>1, <1>t DEF IInv
  <2> QED
    BY <1>p, <1>13 DEF vars, Written, Cleared, FormHeld, SnapshotCovered
<1> QED
  BY <1>t, <1>1, <1>2, <1>3, <1>4, <1>5, <1>6, <1>7, <1>8, <1>9, <1>10, <1>11, <1>12, <1>13
     DEF Next, Step, Victim, Crash, IInv

(* The inductive invariant holds in every state. *)
THEOREM IInvCorrect == Spec => []IInv
  BY IInvInit, IInvStep, PTL DEF Spec

-------------------------------------------------------------------------------
(* What the commits publish. *)

LEMMA CollectorCommit ==
    ASSUME IInv, NEW w \in Writer, Commit(w), pc[w] = "rates"
    PROVE  rows' = rows /\ Active' = Active
  BY PresetAssumption
     DEF IInv, Written, TypeOK, Version, Commit, Publish, Locked, Active

LEMMA SaveCommit ==
    ASSUME IInv, NEW w \in Writer, Commit(w), pc[w] = "commit"
    PROVE  /\ Active' \subseteq (Active \ Locked(w)) \cup {form[w].own}
           /\ form[w].own \in Active' <=> form[w].active
           /\ form[w].own \in Row
  BY PresetAssumption
     DEF IInv, Written, Cleared, FormHeld, Saving, TypeOK, Version, Form,
         Commit, Publish, Locked, Active

(* No activating save commits next to a preset it has seen active all along. *)
THEOREM SaveReplaces == Spec => SaveReplacesWhatItSaw
<1>1. IInv /\ [Next]_vars =>
        [\A w \in Writer :
            pc[w] = "commit" /\ form[w].active /\ Commit(w)
              => \A r \in older[w] \ {form[w].own} : ~db'[r].active]_vars
  <2> SUFFICES ASSUME IInv, NEW w \in Writer, Commit(w), pc[w] = "commit",
                      NEW r \in older[w] \ {form[w].own}
               PROVE  ~db'[r].active
    OBVIOUS
  <2>1. r \in Locked(w) /\ r \in rows
    BY DEF IInv, SnapshotCovered, Active
  <2> QED
    BY <2>1, SaveCommit DEF Active, Commit, Publish
<1> QED
  BY <1>1, IInvCorrect, PTL DEF Spec, SaveReplacesWhatItSaw

(* The collector's rates reach every preset active throughout its UPDATE. *)
THEOREM CollectorReaches == Spec => CollectorReachesTheActive
<1>1. IInv /\ [Next]_vars =>
        [\A w \in Writer :
            pc[w] = "rates" /\ Commit(w)
              => \A r \in older[w] : db'[r].val = form[w].val]_vars
  <2> SUFFICES ASSUME IInv, NEW w \in Writer, Commit(w), pc[w] = "rates",
                      NEW r \in older[w]
               PROVE  db'[r].val = form[w].val
    OBVIOUS
  <2>1. r \in Locked(w)
    BY DEF IInv, SnapshotCovered, InStatement, Commit
  <2> QED
    BY <2>1 DEF IInv, Written, Locked, Commit, Publish
<1> QED
  BY <1>1, IInvCorrect, PTL DEF Spec, CollectorReachesTheActive

(* Clearing a flag does not bring back old data. *)
THEOREM ClearingKeeps == Spec => ClearingKeepsData
<1>1. IInv /\ [Next]_vars =>
        [\A r \in rows \cap rows' : db'[r].val # db[r].val =>
            \E w \in Writer : /\ Commit(w)
                              /\ \/ pc[w] = "commit" /\ form[w].own = r
                                 \/ pc[w] = "rates" /\ db[r].active]_vars
  <2> SUFFICES ASSUME IInv, Next, NEW r \in rows \cap rows', db'[r].val # db[r].val
               PROVE  \E w \in Writer : /\ Commit(w)
                                        /\ \/ pc[w] = "commit" /\ form[w].own = r
                                           \/ pc[w] = "rates" /\ db[r].active
    BY DEF vars
  <2>t. r \in Row
    BY DEF IInv, TypeOK
  <2>1. PICK w \in Writer : EndClear(w) \/ Commit(w)
    BY <2>t DEF Next, Step, Save, Reject, WriteOwn, Visit, Victim, Crash, Rollback, Open,
                Collect, Delete, Erase, EndDelete, Locked
  <2>2. lock[r] = w /\ db'[r] = dirty[r]
    BY <2>t, <2>1 DEF EndClear, Commit, Publish
  <2>3. ~Cleared(r)
    BY <2>2 DEF Cleared
  <2>4. Commit(w)
    BY <2>t, <2>1, <2>2, <2>3 DEF IInv, Written, EndClear, Locked
  <2> QED
    BY <2>t, <2>2, <2>3, <2>4 DEF IInv, Written, Commit, Locked
<1> QED
  BY <1>1, IInvCorrect, PTL DEF Spec, ClearingKeepsData

LEMMA SerialInvCorrect == Spec => []SerialInv
<1> USE PresetAssumption
<1>1. Init => SerialInv
  BY DEF Init, SerialInv, OneSaver, SaverSeesAll, Active, Saving
<1>2. IInv /\ SerialInv /\ [Next]_vars => SerialInv'
  <2> SUFFICES ASSUME IInv, OneSaver, SaverSeesAll, \A r, s \in Active : r = s,
                      [Next]_vars, ~Overlap
               PROVE  OneSaver' /\ SaverSeesAll' /\ (\A r, s \in Active : r = s)'
    BY DEF SerialInv
  <2>t. TypeOK /\ TypeOK'
    BY TypeStep DEF IInv
  <2>1. ASSUME NEW w \in Writer, Save(w) PROVE SerialInv'
    BY <2>1, <2>t DEF Save, SerialInv, OneSaver, SaverSeesAll, Active, Saving, TypeOK
  <2>2. ASSUME NEW w \in Writer, EndClear(w) PROVE SerialInv'
    <3>1. OneSaver'
      BY <2>2, <2>t DEF EndClear, OneSaver, Saving, TypeOK
    <3>2. Active' \subseteq Active /\ (w \in Autocommit => Active' \cap Locked(w) = {})
      BY <2>2, <2>t DEF EndClear, Publish, IInv, Written, Cleared, Active, Locked, TypeOK, Version
    <3>3. SaverSeesAll'
      <4> SUFFICES ASSUME NEW x \in Writer, pc'[x] \in Saving, form'[x].active,
                          NEW r \in Active'
                   PROVE  r \in older'[x]
        BY DEF SaverSeesAll
      <4>1. x = w /\ pc[w] = "clear" /\ form[w].active
        BY <2>2, <2>t DEF EndClear, OneSaver, Saving, TypeOK
      <4>2. r \in older[w]
        BY <3>2, <4>1 DEF SaverSeesAll, Saving
      <4> QED
        BY <2>2, <2>t, <3>2, <4>1, <4>2 DEF EndClear, StillActive, Locked, TypeOK, Active
    <3> QED
      BY <3>1, <3>2, <3>3 DEF SerialInv
  <2>3. ASSUME NEW w \in Writer, Commit(w) PROVE SerialInv'
    <3>1. OneSaver'
      BY <2>3, <2>t DEF Commit, Return, OneSaver, Saving, TypeOK
    <3>2. CASE pc[w] = "rates"
      <4>1. Active' = Active
        BY <2>3, <3>2, CollectorCommit
      <4>2. \A x \in Writer : x # w => older'[x] = older[x]
        BY <2>3, <2>t, <3>2
           DEF Commit, StillActive, IInv, Written, Locked, TypeOK, Version, SnapshotCovered
      <4>3. SaverSeesAll'
        BY <2>3, <2>t, <4>1, <4>2 DEF SaverSeesAll, Commit, Return, Saving, TypeOK
      <4> QED
        BY <3>1, <4>1, <4>3 DEF SerialInv
    <3>3. CASE pc[w] = "commit"
      <4>1. SaverSeesAll'
        BY <2>3, <2>t, <3>3 DEF SaverSeesAll, OneSaver, Commit, Return, Saving, TypeOK
      <4>2. CASE form[w].active
        <5>1. Active \subseteq Locked(w)
          BY <3>3, <4>2 DEF SaverSeesAll, Saving, IInv, SnapshotCovered
        <5> QED
          BY <2>3, <3>1, <3>3, <4>1, <5>1, SaveCommit DEF SerialInv
      <4>3. CASE ~form[w].active
        BY <2>3, <3>1, <3>3, <4>1, <4>3, SaveCommit DEF SerialInv
      <4> QED
        BY <4>2, <4>3
    <3> QED
      BY <2>3, <3>2, <3>3 DEF Commit
  <2>4. ASSUME NEW w \in Writer, Rollback(w) PROVE SerialInv'
    BY <2>4, <2>t DEF Rollback, Return, SerialInv, OneSaver, SaverSeesAll, Active, Saving, TypeOK
  <2>5. ASSUME NEW w \in Writer, Reject(w) PROVE SerialInv'
    BY <2>5, <2>t DEF Reject, Return, SerialInv, OneSaver, SaverSeesAll, Active, Saving, TypeOK
  <2>6. ASSUME NEW w \in Writer, WriteOwn(w) PROVE SerialInv'
    BY <2>6, <2>t DEF WriteOwn, SerialInv, OneSaver, SaverSeesAll, Active, Saving, TypeOK, Form
  <2>7. ASSUME NEW w \in Writer, NEW r \in Row, Visit(w, r) PROVE SerialInv'
    BY <2>7, <2>t DEF Visit, SerialInv, OneSaver, SaverSeesAll, Active
  <2>8. ASSUME NEW w \in Writer, NEW own \in Row, NEW active \in Choices,
               NEW val \in Value, Open(w, own, active, val)
        PROVE  SerialInv'
    BY <2>8, <2>t DEF Open, SerialInv, OneSaver, SaverSeesAll, Active, Saving, TypeOK
  <2>9. ASSUME NEW w \in Writer, NEW val \in Collected, Collect(w, val)
        PROVE  SerialInv'
    BY <2>9, <2>t DEF Collect, SerialInv, OneSaver, SaverSeesAll, Active, Saving, TypeOK
  <2>10. ASSUME NEW w \in Writer, NEW r \in Row, Delete(w, r) PROVE SerialInv'
    BY <2>10, <2>t DEF Delete, SerialInv, OneSaver, SaverSeesAll, Active, Saving, TypeOK
  <2>11. ASSUME NEW w \in Writer, Erase(w) PROVE SerialInv'
    BY <2>11, <2>t DEF Erase, SerialInv, OneSaver, SaverSeesAll, Active, Saving, TypeOK
  <2>12. ASSUME NEW w \in Writer, EndDelete(w) PROVE SerialInv'
    BY <2>12, <2>t DEF EndDelete, SerialInv, OneSaver, SaverSeesAll, Active, Saving, Locked, TypeOK
  <2>13. CASE UNCHANGED vars
    BY <2>13 DEF vars, SerialInv, OneSaver, SaverSeesAll, Active
  <2> QED
    BY <2>1, <2>2, <2>3, <2>4, <2>5, <2>6, <2>7, <2>8, <2>9, <2>10, <2>11, <2>12, <2>13
       DEF Next, Step, Victim, Crash, SerialInv
<1> QED
  BY <1>1, <1>2, IInvCorrect, PTL DEF Spec

(* Saves that do not overlap leave at most one preset active. *)
THEOREM OneActive == Spec => []OneActivePreset
<1>1. SerialInv => OneActivePreset
  BY DEF SerialInv, OneActivePreset
<1> QED
  BY <1>1, SerialInvCorrect, PTL

LEMMA ActivatingInvCorrect == Spec => []ActivatingInv
<1> USE PresetAssumption
<1>1. Init => ActivatingInv
  BY DEF Init, ActivatingInv, Saving
<1>2. IInv /\ ActivatingInv /\ [Next]_vars => ActivatingInv'
  <2> SUFFICES ASSUME IInv, ActivatingInv, [Next]_vars, Autocommit = {}, Choices = {TRUE},
                      Removable = {}
               PROVE  ActivatingInv'
    BY DEF ActivatingInv
  <2>t. TypeOK /\ TypeOK'
    BY TypeStep DEF IInv
  <2> USE DEF ActivatingInv
  <2>1. ASSUME NEW w \in Writer, Save(w) PROVE ActivatingInv'
    BY <2>1, <2>t DEF Save, Active, Saving, TypeOK
  <2>2. ASSUME NEW w \in Writer, EndClear(w) PROVE ActivatingInv'
    BY <2>2, <2>t DEF EndClear, Active, Saving, TypeOK
  <2>3. ASSUME NEW w \in Writer, Commit(w) PROVE ActivatingInv'
    <3>1. (\A x \in Writer : /\ pc[x] \in {"form"} \cup Saving => form[x].active
                             /\ pc[x] \notin {"delete", "gone"})'
      BY <2>3, <2>t DEF Commit, Return, Saving, TypeOK
    <3>2. CASE pc[w] = "rates"
      BY <2>3, <3>1, <3>2, CollectorCommit
    <3>3. CASE pc[w] = "commit"
      BY <2>3, <3>1, <3>3, SaveCommit DEF Saving
    <3> QED
      BY <2>3, <3>2, <3>3 DEF Commit
  <2>4. ASSUME NEW w \in Writer, Rollback(w) PROVE ActivatingInv'
    BY <2>4, <2>t DEF Rollback, Return, Active, Saving, TypeOK
  <2>5. ASSUME NEW w \in Writer, Reject(w) PROVE ActivatingInv'
    BY <2>5, <2>t DEF Reject, Return, Active, Saving, TypeOK
  <2>6. ASSUME NEW w \in Writer, WriteOwn(w) PROVE ActivatingInv'
    BY <2>6, <2>t DEF WriteOwn, Active, Saving, TypeOK, Form
  <2>7. ASSUME NEW w \in Writer, NEW r \in Row, Visit(w, r) PROVE ActivatingInv'
    BY <2>7, <2>t DEF Visit, Active, TypeOK
  <2>8. ASSUME NEW w \in Writer, NEW own \in Row, NEW active \in Choices,
               NEW val \in Value, Open(w, own, active, val)
        PROVE  ActivatingInv'
    BY <2>8, <2>t DEF Open, Active, Saving, TypeOK
  <2>9. ASSUME NEW w \in Writer, NEW val \in Collected, Collect(w, val)
        PROVE  ActivatingInv'
    BY <2>9, <2>t DEF Collect, Active, Saving, TypeOK
  <2>10. ASSUME NEW w \in Writer, \/ Erase(w) \/ EndDelete(w)
                                  \/ \E r \in Row : Delete(w, r)
         PROVE  FALSE
    BY <2>10 DEF Delete, Erase, EndDelete
  <2>11. CASE UNCHANGED vars
    BY <2>11 DEF vars, Active
  <2> QED
    BY <2>1, <2>2, <2>3, <2>4, <2>5, <2>6, <2>7, <2>8, <2>9, <2>10, <2>11
       DEF Next, Step, Victim, Crash
<1> QED
  BY <1>1, <1>2, IInvCorrect, PTL DEF Spec

(* Activating saves in transactions always leave an active preset. *)
THEOREM AlwaysActive == Spec => []AlwaysAnActivePreset
<1>1. ActivatingInv => AlwaysAnActivePreset
  BY DEF ActivatingInv, AlwaysAnActivePreset
<1> QED
  BY <1>1, ActivatingInvCorrect, PTL

================================================================================
