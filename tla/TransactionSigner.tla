--------------------------- MODULE TransactionSigner ---------------------------
(***************************************************************************)
(* How the inputs of a planned Bitcoin transaction are signed: by          *)
(* SignatureBuilder with the private keys of the request, or by the caller *)
(* himself, who collects the hashes to sign with preImageHashes and hands  *)
(* his signatures to compile.  It implements TransactionPlan, which only   *)
(* says that signing succeeds or fails.                                    *)
(*                                                                         *)
(* A script is a record: pk and pkh have a key, multi has keys and the     *)
(* number of them required, wpkh has a key, sh and wsh have the script     *)
(* whose hash they hold, and program and other are scripts nothing can     *)
(* sign.  A wsh holds pk, pkh, multi or other.  A hash of a script or key  *)
(* stands for what was hashed; a public key is named by its private key.   *)
(***************************************************************************)
EXTENDS TransactionPlan, SequencesExt

CONSTANTS
    Key,                    \* private keys
    Scripts,                \* scripts of unspent outputs
    SigningRequests(_, _)   \* what a request may say of signing a plan

VARIABLES
    request,  \* scripts of the plan's outputs, redeem scripts, keys, hash type
    way,      \* "open", "collected", "direct" or "compiled"
    hashes,   \* what preImageHashes gave the caller
    answers,  \* the signatures he gave back
    error,    \* of the last attempt to sign
    signed    \* inputs of the signed transaction

signing == <<request, way, hashes, answers, error, signed>>

NoRequest == [scripts |-> <<>>, known |-> {}, keys |-> {}, hashType |-> "all"]

SignerInit ==
    /\ Init
    /\ request = NoRequest
    /\ way = "open"
    /\ hashes = <<>>
    /\ answers = <<>>
    /\ error = "ok"
    /\ signed = <<>>

-------------------------------------------------------------------------------
(* What a script is pushed: signatures with their hash type, public keys,   *)
(* scripts, the empty item multisig takes, and blanks of the right size.    *)
Signature(answer) ==
    [item |-> "signature", key |-> answer.key, hash |-> answer.hash, type |-> request.hashType]
PublicKey(key) == [item |-> "key", key |-> key]
Bytes(script) == [item |-> "script", script |-> script]
Empty == [item |-> "empty"]
Blank == [item |-> "blank"]
Unsigned == [script |-> <<>>, witness |-> <<>>]

Redeemed(script) == IF script.kind = "sh" THEN script.of ELSE script

InWitness(script) == Redeemed(script).kind \in {"wpkh", "wsh"}

(* The script that takes the signatures. *)
Core(script) ==
    LET inner == Redeemed(script) IN
    CASE inner.kind = "wpkh" -> [kind |-> "pkh", key |-> inner.key]
      [] inner.kind = "wsh" -> inner.of
      [] OTHER -> inner

(* A multisig script has the keys for the signatures it requires, maybe     *)
(* none: what has fewer is not matched as one.                              *)
MatchMultisig(core) ==
    core.kind = "multi" => core.keys \in Seq(Key) /\ core.required \in 0..Len(core.keys)

ASSUME SignerAssumption == \A script \in Scripts : MatchMultisig(Core(script))

(* Mutant: witness scripts are signed as the other scripts are. *)
VersionOfType(script) == IF request.hashType = "fork" THEN "witness" ELSE "base"

Version(script) ==
    IF InWitness(script) \/ request.hashType = "fork" THEN "witness" ELSE "base"

(* The keys a script asks for, in the order of their signatures. *)
Signers(core) ==
    IF core.kind = "multi" THEN SubSeq(core.keys, 1, core.required) ELSE <<core.key>>

(* The hashes to sign for the i-th input, each with the key that signs it.  *)
(* Inputs signed before do not change them.                                 *)
Asked(script, i) ==
    [j \in 1..Len(Signers(Core(script))) |->
        [key |-> Signers(Core(script))[j],
         hash |-> [script |-> Core(script), input |-> i, version |-> Version(script)]]]

(* Each script behind a hash must be among the request's, and the last one  *)
(* of a kind that can be signed.                                            *)
ScriptError(script) ==
    IF {s.of : s \in {t \in {script, Redeemed(script)} : t.kind \in {"sh", "wsh"}}}
            \subseteq request.known
    THEN IF Core(script).kind \in {"pk", "pkh", "multi"} THEN "ok" ELSE "script_output"
    ELSE "script_redeem"

(* Mutant: a signature from outside is not verified. *)
TrustingError(mode, given, asked, first) ==
    IF mode = "normal" /\ \E j \in 1..Len(asked) : asked[j].key \notin request.keys
    THEN "missing_private_key"
    ELSE IF mode = "external" /\ first + Len(asked) > Len(given)
    THEN "signing"
    ELSE "ok"

(* Signing needs the keys; a signature from outside has to be there and     *)
(* must sign the hash.  Which key made it is not checked.                   *)
SigningError(mode, given, asked, first) ==
    IF mode = "normal" /\ \E j \in 1..Len(asked) : asked[j].key \notin request.keys
    THEN "missing_private_key"
    ELSE IF mode = "external"
            /\ \E j \in 1..Len(asked) :
                  first + j > Len(given) \/ given[first + j].hash # asked[j].hash
    THEN "signing"
    ELSE "ok"

(* Mutants: no blank for a key the request does not hold; a signature from  *)
(* outside keeps its place but not its hash type.                           *)
SignaturesOfOwnKeys(mode, given, asked, first) ==
    IF mode = "external" THEN [j \in 1..Len(asked) |-> Signature(given[first + j])]
    ELSE IF mode = "normal" THEN [j \in 1..Len(asked) |-> Signature(asked[j])]
    ELSE [j \in 1..Len(SelectSeq(asked, LAMBDA ask : ask.key \in request.keys)) |-> Blank]

SignaturesWithoutType(mode, given, asked, first) ==
    [j \in 1..Len(asked) |->
        CASE mode = "normal" -> Signature(asked[j])
          [] mode = "external" -> [Signature(given[first + j]) EXCEPT !.type = "none"]
          [] OTHER -> Blank]

Signatures(mode, given, asked, first) ==
    [j \in 1..Len(asked) |->
        CASE mode = "normal" -> Signature(asked[j])
          [] mode = "external" -> Signature(given[first + j])
          [] OTHER -> Blank]

(* The public key that goes with the one signature of a pkh script. *)
KeyItem(mode, given, key, first) ==
    IF key \in request.keys THEN PublicKey(key)
    ELSE IF mode = "external" THEN PublicKey(given[first + 1].key)
    ELSE Blank

(* Script and witness of an input.  A redeem script that is not a witness   *)
(* program is pushed twice.                                                 *)
Spending(script, mode, given, signatures, first) ==
    LET core == Core(script)
        items == CASE core.kind = "multi" -> <<Empty>> \o signatures
                   [] core.kind = "pkh" -> Append(signatures, KeyItem(mode, given, core.key, first))
                   [] core.kind = "pk" -> signatures
        redeem == IF script.kind = "sh" THEN <<Bytes(script.of)>> ELSE <<>>
    IN  IF InWitness(script)
        THEN [script |-> redeem,
              witness |-> items \o (IF Redeemed(script).kind = "wsh" THEN <<Bytes(core)>> ELSE <<>>)]
        ELSE [script |-> items \o redeem \o redeem, witness |-> <<>>]

(* Mutant: an input takes the signature of its own number. *)
FirstByInput(done, i) == i - 1

(* Signatures from outside are used in the order of the hashes so far. *)
First(done, i) == Len(done.hashes)

(* A trial signs the plan as it was before its fee. *)
PlanOf(mode) == IF mode = "estimate" THEN Preliminary(input, plan.utxos) ELSE plan

(* SignatureBuilder::sign of one input, after the inputs that are done.     *)
SignInput(mode, given, done, i) ==
    LET script == request.scripts[i]
        outputs == Len(Build(input, PlanOf(mode)).outputs)
        asked == Asked(script, i)
        first == First(done, i)
        failure == IF ScriptError(script) = "ok" THEN SigningError(mode, given, asked, first)
                                                 ELSE ScriptError(script)
    IN  IF done.error # "ok" THEN done
        ELSE IF request.hashType = "single" /\ i > outputs
        THEN [done EXCEPT !.inputs = Append(@, Unsigned)]
        ELSE IF failure # "ok" THEN [done EXCEPT !.error = failure]
        ELSE [error |-> "ok", hashes |-> done.hashes \o asked,
              inputs |-> Append(done.inputs,
                            Spending(script, mode, given,
                                     Signatures(mode, given, asked, first), first))]

(* What the inputs signed so far come to. *)
SignUpTo(mode, given) ==
    LET done[i \in 0..Len(plan.utxos)] ==
            IF i = 0 THEN [error |-> "ok", hashes |-> <<>>, inputs |-> <<>>]
            ELSE SignInput(mode, given, done[i - 1], i)
    IN  done

(* Mutant: a transaction that could not be built is signed all the same. *)
SignWithoutInputs(mode, given) ==
    LET none == [error |-> plan.error, hashes |-> <<>>, inputs |-> <<>>]
    IN  IF plan.error # "ok" \/ ~Buildable(input, PlanOf(mode).change) THEN none
        ELSE SignUpTo(mode, given)[Len(plan.utxos)]

(* SignatureBuilder::sign of a transaction, in one of its four modes:       *)
(* "normal", "external", "collect" and "estimate".                          *)
SignAll(mode, given) ==
    LET none == [error |-> plan.error, hashes |-> <<>>, inputs |-> <<>>]
    IN  IF plan.error # "ok" THEN none
        ELSE IF ~Buildable(input, PlanOf(mode).change) THEN [none EXCEPT !.error = "missing_input_utxos"]
        ELSE SignUpTo(mode, given)[Len(plan.utxos)]

-------------------------------------------------------------------------------
(* The plan fixes which outputs are spent, and so the scripts to sign for. *)
MakePlan ==
    /\ Plan
    /\ request' \in SigningRequests(input, plan')
    /\ request'.scripts \in [1..Len(plan'.utxos) -> Scripts]
    /\ UNCHANGED <<way, hashes, answers, error, signed>>

Outcome(result) ==
    /\ error' = result.error
    /\ IF result.error = "ok"
       THEN stage' = "signed" /\ tx' = Build(input, plan) /\ signed' = result.inputs
       ELSE stage' = "failed" /\ UNCHANGED <<tx, signed>>
    /\ UNCHANGED <<input, plan, request, hashes>>

(* TransactionSigner::sign with the keys of the request. *)
SignDirectly ==
    /\ stage = "planned"
    /\ way = "open"
    /\ way' = "direct"
    /\ Outcome(SignAll("normal", <<>>))
    /\ UNCHANGED answers

(* preImageHashes: it does not tell whether it went through all inputs. *)
PreImageHashes ==
    /\ stage = "planned"
    /\ way = "open"
    /\ way' = "collected"
    /\ hashes' = SignAll("collect", <<>>).hashes
    /\ UNCHANGED <<vars, request, answers, error, signed>>

(* The caller signs each hash with its key.  He may give the signatures     *)
(* back in order, with two neighbours exchanged, or without the last one.   *)
Answers ==
    {hashes} \cup {Front(hashes) : short \in {hashes} \ {<<>>}}
        \cup {[hashes EXCEPT ![j] = hashes[j + 1], ![j + 1] = hashes[j]] :
                 j \in 1..(Len(hashes) - 1)}

(* compile: TransactionSigner::sign with the signatures from outside. *)
Compile ==
    /\ stage = "planned"
    /\ way = "collected"
    /\ way' = "compiled"
    /\ answers' \in Answers
    /\ Outcome(SignAll("external", answers'))

SignerNext == MakePlan \/ SignDirectly \/ PreImageHashes \/ Compile

SignerSpec == SignerInit /\ [][SignerNext]_<<vars, signing>>

-------------------------------------------------------------------------------
(* What the network makes of an input: the signatures on the stack satisfy  *)
(* a script, whose hash must have been signed in the version it asks for.   *)
Satisfies(stack, script, i, version) ==
    LET n == Len(stack)
        By(key) == Signature([key |-> key,
                              hash |-> [script |-> script, input |-> i, version |-> version]])
    IN  CASE script.kind = "pk" -> n >= 1 /\ stack[n] = By(script.key)
          [] script.kind = "pkh" ->
                n >= 2 /\ stack[n] = PublicKey(script.key) /\ stack[n - 1] = By(script.key)
          [] script.kind = "multi" ->
                /\ n > script.required
                /\ stack[n - script.required] = Empty
                /\ \E place \in [1..script.required -> 1..Len(script.keys)] :
                      /\ \A j, k \in 1..script.required : j < k => place[j] < place[k]
                      /\ \A j \in 1..script.required :
                            stack[n - script.required + j] = By(script.keys[place[j]])
          [] OTHER -> FALSE

WitnessSatisfies(witness, script, i) ==
    CASE script.kind = "wpkh" ->
            Len(witness) = 2 /\ Satisfies(witness, [kind |-> "pkh", key |-> script.key], i, "witness")
      [] script.kind = "wsh" ->
            /\ witness # <<>>
            /\ Last(witness) = Bytes(script.of)
            /\ Satisfies(Front(witness), script.of, i, "witness")
      [] OTHER -> FALSE

Unlocks(in, script, i) ==
    LET base == IF request.hashType = "fork" THEN "witness" ELSE "base" IN
    IF script.kind \in {"wpkh", "wsh"}
    THEN in.script = <<>> /\ WitnessSatisfies(in.witness, script, i)
    ELSE IF script.kind = "sh" /\ script.of.kind \in {"wpkh", "wsh"}
    THEN in.script = <<Bytes(script.of)>> /\ WitnessSatisfies(in.witness, script.of, i)
    ELSE in.witness = <<>> /\ Satisfies(in.script, script, i, base)

(* The redeem script is not a witness program: line 121 pushes it again.    *)
LegacyRedeem(script) == script.kind = "sh" /\ ~InWitness(script)

(* Every input of a signed transaction unlocks the output it spends, signed *)
(* with the keys or compiled from the signatures of the hashes in order:    *)
(* the items, their order, where they go and what they sign are right.  Not *)
(* so for old redeem scripts, nor for inputs beyond the last output, that   *)
(* SIGHASH_SINGLE leaves unsigned (SignatureBuilder.cpp:43 and 121).        *)
SignedUnlocks ==
    stage = "signed" /\ answers = hashes =>
        /\ Len(signed) = Len(tx.inputs)
        /\ \A i \in 1..Len(signed) :
              \/ Unlocks(signed[i], request.scripts[i], i)
              \/ LegacyRedeem(request.scripts[i])
              \/ request.hashType = "single" /\ i > Len(tx.outputs)

(* The hashes collected are those compile looks for, one for one: with a    *)
(* signature of each in order it fails only over a plan or a script that no *)
(* signature would help (SignatureBuilder.cpp, createSignature).            *)
RightAnswersCompile ==
    way = "compiled" /\ stage = "failed" /\ answers = hashes =>
        error \notin {"signing", "missing_private_key"}

(* No transaction is compiled while a hash lacks its signature or has that  *)
(* of another hash, however the caller mixed them up.                       *)
EveryHashAnswered ==
    way = "compiled" /\ stage = "signed" =>
        /\ Len(hashes) <= Len(answers)
        /\ \A j \in 1..Len(hashes) : answers[j].hash = hashes[j].hash

(* Whoever holds all keys gets the same transaction from both ways.         *)
BothWaysAlike ==
    way = "compiled" /\ answers = hashes /\ {hashes[j].key : j \in 1..Len(hashes)} \subseteq request.keys =>
        LET direct == SignAll("normal", <<>>) IN
        /\ direct.error = error
        /\ stage = "signed" => direct.inputs = signed

(* What can be signed can be estimated before, keys or not, and the trial   *)
(* signature has the items of the real one (TransactionBuilder.cpp:52).     *)
(* The trial is of the plan before its fee (lines 48-52 and 143-153), whose *)
(* change the fee may have eaten since: then the trial has one output more, *)
(* for which it needs an address, and may sign, or fail at, an input that   *)
(* the real signature with SIGHASH_SINGLE leaves without items.             *)
EstimateHasTheItems ==
    LET trial == SignAll("estimate", <<>>)
        Beyond(i) == request.hashType = "single" /\ i > Len(tx.outputs)
    IN  stage = "signed" /\ input.segwit /\ Buildable(input, PlanOf("estimate").change) =>
            /\ \/ trial.error = "ok" /\ Len(trial.inputs) = Len(signed)
               \/ \E i \in 1..Len(signed) : Beyond(i)
            /\ \A i \in 1..Len(trial.inputs) :
                  \/ Beyond(i)
                  \/ /\ Len(trial.inputs[i].script) = Len(signed[i].script)
                     /\ Len(trial.inputs[i].witness) = Len(signed[i].witness)
================================================================================
