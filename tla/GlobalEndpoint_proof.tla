-------------------------- MODULE GlobalEndpoint_proof -------------------------
(* Proofs about GlobalEndpoint, from what PresetTable_proof shows of the    *)
(* Global table.                                                            *)
EXTENDS GlobalEndpoint, PresetTable_proof

(* The composition runs the Global table as PresetTable specifies it. *)
LEMMA GlobalTableRuns == EndpointSpec => Spec
<1>1. EndpointInit => Init
  BY DEF EndpointInit
<1>2. [EndpointNext]_endpointVars => [Next]_vars
  BY DEF EndpointNext, endpointVars, vars
<1> QED
  BY <1>1, <1>2, PTL DEF Spec, EndpointSpec

(* An active preset stays while operators activate one at a time. *)
LEMMA ActivePresetStays ==
    ASSUME IInv, SerialInv, ActivatingInv, SerialInv', ActivatingInv',
           TypeOK', [Next]_vars, ~Overlap, Autocommit = {}, Choices = {TRUE},
           Removable = {}, NEW g \in Row, Active = {g}
    PROVE  \E h \in Row : Active' = {h}
<1>1. g \in rows
  BY DEF Active
<1>2. rows \subseteq rows'
  BY DEF Next, Step, Open, Save, Reject, Collect, Visit, EndClear, WriteOwn, Commit,
         Crash, Victim, Rollback, Publish, Delete, Erase, EndDelete, ActivatingInv, vars
<1>3. Active' # {} /\ \A r, s \in Active' : r = s
  BY <1>1, <1>2 DEF SerialInv, ActivatingInv
<1>4. Active' \subseteq Row
  BY DEF Active, TypeOK
<1> QED
  BY <1>3, <1>4

(* The requests are of their type, and one that has found an active Global  *)
(* preset fetches exactly one: neither a write of the table nor a statement *)
(* of a request ends that.                                                  *)
LEMMA ReadersInv == EndpointSpec => [](ReadersTypeOK /\ FoundGlobalStays)
<1>1. EndpointInit => ReadersTypeOK /\ FoundGlobalStays
  BY DEF EndpointInit, ReadersTypeOK, FoundGlobalStays, ReadStages, Answers
<1>2. /\ IInv /\ SerialInv /\ ActivatingInv
      /\ IInv' /\ SerialInv' /\ ActivatingInv'
      /\ ReadersTypeOK /\ FoundGlobalStays
      /\ [Next]_vars /\ [EndpointNext]_endpointVars
      => ReadersTypeOK' /\ FoundGlobalStays'
  <2> SUFFICES ASSUME IInv, SerialInv, ActivatingInv, IInv', SerialInv', ActivatingInv',
                      ReadersTypeOK, FoundGlobalStays,
                      [Next]_vars, [EndpointNext]_endpointVars
               PROVE  ReadersTypeOK' /\ FoundGlobalStays'
    OBVIOUS
  <2>t. TypeOK /\ TypeOK'
    BY DEF IInv
  <2>1. CASE UNCHANGED readVars
    <3>1. ReadersTypeOK'
      BY <2>1 DEF readVars, ReadersTypeOK
    <3>2. FoundGlobalStays'
      <4> SUFFICES ASSUME ~Overlap, Autocommit = {}, Choices = {TRUE}, Removable = {},
                          NEW c \in Reader, stage'[c] \in {"anyRules", "getGlobal", "buildGet"}
                   PROVE  \E g \in Row : Active' = {g}
        BY DEF FoundGlobalStays
      <4>1. PICK g \in Row : Active = {g}
        BY <2>1 DEF readVars, FoundGlobalStays
      <4> QED
        BY <2>t, <4>1, ActivePresetStays
    <3> QED
      BY <3>1, <3>2
  <2>2. ASSUME NEW c \in Reader, Request(c) \/ Build(c) \/ Read(c), UNCHANGED vars
        PROVE  ReadersTypeOK' /\ FoundGlobalStays'
    <3>1. Active' = Active
      BY <2>2 DEF vars, Active
    <3>2. ReadersTypeOK'
      <4> USE DEF ReadersTypeOK, ReadStages, Answers, Goto, Finish
      <4>1. CASE Request(c) \/ Build(c)
        BY <4>1 DEF Request, Build
      <4>2. CASE AnyGlobal(c) \/ AnyRules(c) \/ BuildAny(c)
        BY <4>2 DEF AnyGlobal, AnyRules, BuildAny
      <4>3. CASE GetRules(c) \/ BuildGet(c)
        BY <4>3 DEF GetRules, BuildGet
      <4>4. CASE GetGlobal(c)
        BY <2>t, <4>4 DEF GetGlobal, Active, TypeOK
      <4> QED
        BY <2>2, <4>1, <4>2, <4>3, <4>4 DEF Read
    <3>3. ~Overlap /\ Active # {} => \E g \in Row : Active = {g}
      BY <2>t DEF SerialInv, Active, TypeOK
    <3>4. \A d \in Reader : stage'[d] \in {"anyRules", "getGlobal", "buildGet"} =>
             stage[d] \in {"anyRules", "getGlobal", "buildGet"} \/ Active # {}
      BY <2>2 DEF ReadersTypeOK, Request, Build, Read, AnyGlobal, AnyRules, GetGlobal,
                  GetRules, BuildAny, BuildGet, Goto, Finish
    <3> QED
      BY <3>1, <3>2, <3>3, <3>4 DEF FoundGlobalStays
  <2> QED
    BY <2>1, <2>2 DEF EndpointNext, endpointVars, readVars
<1> QED
  BY <1>1, <1>2, GlobalTableRuns, IInvCorrect, SerialInvCorrect, ActivatingInvCorrect, PTL
     DEF EndpointSpec, Spec

(* Every request of get_global() and of the build view is at one of their   *)
(* statements, has fetched a row of the table or none, and ends as one of   *)
(* the known answers, whatever is written meanwhile to either table.        *)
THEOREM ReadersTyped == EndpointSpec => []ReadersTypeOK
BY ReadersInv, PTL

(* The statement that looks for an active Global preset and the one that    *)
(* fetches it agree, whatever is saved between them.                        *)
THEOREM FoundGlobal == EndpointSpec => []FoundGlobalStays
BY ReadersInv, PTL
================================================================================
