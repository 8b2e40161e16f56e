------------------------------- MODULE KeyStore -------------------------------
(***************************************************************************)
(* The key store of wallet-core (KeyStore.swift, Wallet.swift and          *)
(* StoredKey.cpp).  Each wallet is an encrypted key in memory and a file   *)
(* of its own; the watched accounts are a list in memory and a file.  A    *)
(* call changes the memory first and the disk afterwards, the file system  *)
(* may refuse any step on the disk, and the process may die between two.   *)
(* The store is used by one thread; a call that throws before it changed   *)
(* anything is a step that changes nothing.                                *)
(***************************************************************************)
EXTENDS Naturals, Sequences

CONSTANTS
    Files,         \* the names generateFileName() may give
    WatchesFile,   \* watches.json
    Mnemonics,     \* secrets of HD wallets
    PrivateKeys,   \* secrets of the others
    Passwords,
    Coins,
    DefaultCoin,   \* ethereum, for an import without coins
    WatchLists,    \* the lists watch() may be given
    MaxWatches,    \* bound on the list in memory
    NoKey,         \* a name without a Wallet object
    NoFile,
    Torn           \* a file that cannot be decoded: empty, or cut off

Secrets == Mnemonics \cup PrivateKeys
Paths == Files \cup {WatchesFile}
Keys == [secret : Secrets, password : Passwords, accounts : SUBSET Coins]
Watches == UNION {{l[i] : i \in 1..Len(l)} : l \in WatchLists}

ASSUME KeyStoreAssumption ==
    /\ WatchesFile \notin Files
    /\ Mnemonics \cap PrivateKeys = {}
    /\ DefaultCoin \in Coins
    /\ MaxWatches \in Nat
    /\ WatchLists \subseteq Seq(Watches)
    /\ NoKey \notin Keys
    /\ {NoFile, Torn} \cap (Keys \cup Seq(Watches)) = {}
    /\ NoFile # Torn

VARIABLES
    disk,      \* the content of each path
    wallets,   \* the names of the listed wallets
    key,       \* the key of every Wallet object the program holds
    watches,   \* the watched accounts
    encoded,   \* the list being written to the watches file
    pc,        \* what the running call does to the disk; idle, down
    todo,      \* the paths it still has to do that to
    behind     \* history: paths where the file system refused the last step

vars == <<disk, wallets, key, watches, encoded, pc, todo, behind>>
memory == <<wallets, key, watches>>

Init ==
    /\ disk = [p \in Paths |-> NoFile]
    /\ wallets = {}
    /\ key = [f \in Files |-> NoKey]
    /\ watches = <<>>
    /\ encoded = <<>>
    /\ pc = "down"
    /\ todo = {}
    /\ behind = {}

-------------------------------------------------------------------------------
(* Keys.  A decryption with another password fails at the MAC.              *)
Opens(k, pw) == k.password = pw
IsHD(k) == k.secret \in Mnemonics
HasHDWallet(k, pw) == IsHD(k) /\ Opens(k, pw)
WithAccounts(k, coins) == [k EXCEPT !.accounts = @ \cup coins]
WithoutAccounts(k, coins) == [k EXCEPT !.accounts = @ \ coins]

(* A new key for the same secret.  A private key gets the account of one of *)
(* the coins, an HD wallet all of them.                                     *)
Reencrypted(k, pw, coins) == [k EXCEPT !.password = pw, !.accounts = coins]

(* Mutant: load() takes the file that cannot be decoded, too.               *)
Exists(p) == disk[p] # NoFile

(* What a start of the store can read of a path.                            *)
Readable(p) == disk[p] \notin {NoFile, Torn}

-------------------------------------------------------------------------------
(* The disk.  A file is opened, which empties it, and written.  The result  *)
(* of storing a key is dropped; a list of watches that cannot be written    *)
(* makes the call throw.  Either way the call is over.                      *)
Start(step, paths) == pc' = step /\ todo' = paths
Finish == Start("idle", {})
Refused == behind' = behind \cup todo

Content(p) == IF p = WatchesFile THEN encoded ELSE key[p]

Open ==
    /\ pc = "open"
    /\ \E p \in todo :
        \/ /\ disk' = [disk EXCEPT ![p] = Torn]
           /\ Start("write", todo)
           /\ UNCHANGED <<encoded, behind>>
        \/ Finish /\ Refused /\ encoded' = <<>> /\ UNCHANGED disk
    /\ UNCHANGED memory

Write ==
    /\ pc = "write"
    /\ \E p \in todo :
        \/ /\ disk' = [disk EXCEPT ![p] = Content(p)]
           /\ behind' = behind \ {p}
        \/ Refused /\ UNCHANGED disk
    /\ encoded' = <<>>
    /\ Finish
    /\ UNCHANGED memory

(* removeItem(), which throws when there is no such file.                   *)
RemoveItem ==
    /\ pc = "remove"
    /\ \E p \in todo :
        \/ /\ disk[p] # NoFile
           /\ disk' = [disk EXCEPT ![p] = NoFile]
           /\ behind' = behind \ {p}
        \/ Refused /\ UNCHANGED disk
    /\ Finish
    /\ UNCHANGED <<memory, encoded>>

-------------------------------------------------------------------------------
(* The process.                                                             *)
Die ==
    /\ wallets' = {}
    /\ key' = [f \in Files |-> NoKey]
    /\ watches' = <<>>
    /\ encoded' = <<>>
    /\ behind' = {}
    /\ Start("down", {})
    /\ UNCHANGED disk

Crash == pc # "down" /\ Die

(* A watches file that cannot be decoded makes load() throw.                *)
LoadFails == pc = "down" /\ disk[WatchesFile] = Torn /\ UNCHANGED vars

Load ==
    /\ pc = "down"
    /\ disk[WatchesFile] # Torn
    /\ watches' = IF Readable(WatchesFile) THEN disk[WatchesFile] ELSE <<>>
    /\ wallets' = {f \in Files : Readable(f)}
    /\ key' = [f \in Files |-> IF Readable(f) THEN disk[f] ELSE NoKey]
    /\ Finish
    /\ UNCHANGED <<disk, encoded, behind>>

-------------------------------------------------------------------------------
(* New wallets.  The wallet is listed before its file is written.  A name   *)
(* is taken again only when nothing is left of its first use.               *)
Add(f, k) ==
    /\ pc = "idle"
    /\ key[f] = NoKey
    /\ disk[f] = NoFile
    /\ key' = [key EXCEPT ![f] = k]
    /\ wallets' = wallets \cup {f}
    /\ Start("open", {f})
    /\ UNCHANGED <<disk, watches, encoded, behind>>

NewKey(s, pw, coins) == [secret |-> s, password |-> pw, accounts |-> coins]

CreateWallet(f, s, pw, coins) == Add(f, NewKey(s, pw, coins))

ImportPrivateKey(f, s, pw, coin) == Add(f, NewKey(s, pw, {coin}))

OrDefault(coins) == IF coins = {} THEN {DefaultCoin} ELSE coins

ImportMnemonic(f, s, pw, coins) == Add(f, NewKey(s, pw, OrDefault(coins)))

(* An encrypted JSON key, whose secret says which import it is.             *)
ImportJSON(f, s, pw, coins) ==
    \/ s \in Mnemonics /\ ImportMnemonic(f, s, pw, coins)
    \/ /\ s \in PrivateKeys
       /\ \E first \in OrDefault(coins) : ImportPrivateKey(f, s, pw, first)

-------------------------------------------------------------------------------
(* Calls on a Wallet object, which the program may still hold when the      *)
(* wallet is no longer listed.                                              *)
Held(f) == pc = "idle" /\ key[f] # NoKey

Rejected == UNCHANGED vars

SetKey(f, k) == key' = [key EXCEPT ![f] = k]

Save(f) == Start("open", {f}) /\ UNCHANGED <<disk, wallets, watches, encoded, behind>>

(* fatalError("Missing wallet") ends the process.                           *)
Missing(f) == f \notin wallets /\ Die

(* Mutant: any key with the right password is saved.                        *)
AddAccountsToAny(f, pw, coins) ==
    /\ Held(f)
    /\ Opens(key[f], pw)
    /\ SetKey(f, WithAccounts(key[f], coins))
    /\ Save(f)

(* getAccounts() wants an HD wallet; the list of wallets is not looked at.  *)
AddAccounts(f, pw, coins) ==
    /\ Held(f)
    /\ \/ ~HasHDWallet(key[f], pw) /\ Rejected
       \/ /\ HasHDWallet(key[f], pw)
          /\ SetKey(f, WithAccounts(key[f], coins))
          /\ Save(f)

RemoveAccounts(f, pw, coins) ==
    /\ Held(f)
    /\ \/ ~Opens(key[f], pw) /\ Rejected
       \/ Opens(key[f], pw) /\ Missing(f)
       \/ /\ Opens(key[f], pw)
          /\ f \in wallets
          /\ SetKey(f, WithoutAccounts(key[f], coins))
          /\ Save(f)

(* Wallet.getAccount() and privateKey() derive an account that is not saved *)
(* before the next store.  Without an HD wallet nothing is derived.         *)
GetAccount(f, pw, coin) ==
    /\ Held(f)
    /\ HasHDWallet(key[f], pw)
    /\ SetKey(f, WithAccounts(key[f], {coin}))
    /\ UNCHANGED <<disk, wallets, watches, encoded, pc, todo, behind>>

(* Mutant: the new key of an HD wallet is not saved either.                 *)
UpdateMemory(f, pw, new) ==
    /\ Held(f)
    /\ f \in wallets
    /\ Opens(key[f], pw)
    /\ SetKey(f, Reencrypted(key[f], new, key[f].accounts))
    /\ UNCHANGED <<disk, wallets, watches, encoded, pc, todo, behind>>

(* A new password, or with the same one a new name.  The key in memory is   *)
(* replaced first; then getAccounts() throws unless it is an HD wallet, and *)
(* nothing is saved.                                                        *)
Update(f, pw, new) ==
    /\ Held(f)
    /\ \/ Missing(f)
       \/ /\ f \in wallets
          /\ ~Opens(key[f], pw) \/ key[f].accounts = {}
          /\ Rejected
       \/ /\ f \in wallets
          /\ Opens(key[f], pw)
          /\ IsHD(key[f])
          /\ key[f].accounts # {}
          /\ SetKey(f, Reencrypted(key[f], new, key[f].accounts))
          /\ Save(f)
       \/ /\ f \in wallets
          /\ Opens(key[f], pw)
          /\ ~IsHD(key[f])
          /\ \E coin \in key[f].accounts :
                SetKey(f, Reencrypted(key[f], new, {coin}))
          /\ UNCHANGED <<disk, wallets, watches, encoded, pc, todo, behind>>

Delete(f, pw) ==
    /\ Held(f)
    /\ \/ Missing(f)
       \/ f \in wallets /\ ~Opens(key[f], pw) /\ Rejected
       \/ /\ f \in wallets
          /\ Opens(key[f], pw)
          /\ wallets' = wallets \ {f}
          /\ Start("remove", {f})
          /\ UNCHANGED <<disk, key, watches, encoded, behind>>

(* destroy() empties the list, not the watches in memory, and then removes  *)
(* every file of the directory, ignoring those that cannot be removed.      *)
Destroy ==
    /\ pc = "idle"
    /\ wallets' = {}
    /\ Start("destroy", {p \in Paths : disk[p] # NoFile})
    /\ UNCHANGED <<disk, key, watches, encoded, behind>>

DestroyNext ==
    /\ pc = "destroy"
    /\ \E p \in todo :
        /\ todo' = todo \ {p}
        /\ \/ /\ disk' = [disk EXCEPT ![p] = NoFile]
              /\ behind' = behind \ {p}
           \/ behind' = behind \cup {p} /\ UNCHANGED disk
    /\ UNCHANGED <<memory, encoded, pc>>

DestroyEnds ==
    /\ pc = "destroy"
    /\ todo = {}
    /\ Finish
    /\ UNCHANGED <<disk, memory, encoded, behind>>

-------------------------------------------------------------------------------
(* Watched accounts.  The parameter of watch() hides the property of the    *)
(* same name: what is encoded is the list that was given, not all of them.  *)
WriteWatches(all, list) ==
    /\ watches' = all
    /\ encoded' = list
    /\ Start("open", {WatchesFile})
    /\ UNCHANGED <<disk, wallets, key, behind>>

Watch(list) ==
    /\ pc = "idle"
    /\ Len(watches \o list) <= MaxWatches
    /\ WriteWatches(watches \o list, list)

First(w) == CHOOSE i \in 1..Len(watches) :
                watches[i] = w /\ \A j \in 1..(i - 1) : watches[j] # w

WithoutFirst(w) == SubSeq(watches, 1, First(w) - 1)
                       \o SubSeq(watches, First(w) + 1, Len(watches))

(* Mutant: the list is only shortened in memory.                            *)
RemoveWatchInMemory(w) ==
    /\ pc = "idle"
    /\ \E i \in 1..Len(watches) : watches[i] = w
    /\ watches' = WithoutFirst(w)
    /\ UNCHANGED <<disk, wallets, key, encoded, pc, todo, behind>>

(* The complete list is written.                                            *)
RemoveWatch(w) ==
    /\ pc = "idle"
    /\ \E i \in 1..Len(watches) : watches[i] = w
    /\ WriteWatches(WithoutFirst(w), WithoutFirst(w))

-------------------------------------------------------------------------------
New ==
    \E f \in Files, pw \in Passwords, coins \in SUBSET Coins :
        \/ \E s \in Mnemonics : CreateWallet(f, s, pw, coins)
        \/ \E s \in Secrets : ImportJSON(f, s, pw, coins)

OnWallet ==
    \E f \in Files, pw \in Passwords :
        \/ \E coins \in SUBSET Coins :
              AddAccounts(f, pw, coins) \/ RemoveAccounts(f, pw, coins)
        \/ \E coin \in Coins : GetAccount(f, pw, coin)
        \/ \E new \in Passwords : Update(f, pw, new)
        \/ Delete(f, pw)

OnWatches == (\E l \in WatchLists : Watch(l)) \/ (\E w \in Watches : RemoveWatch(w))

OnDisk == Open \/ Write \/ RemoveItem \/ DestroyNext \/ DestroyEnds

Next == Crash \/ LoadFails \/ Load \/ New \/ OnWallet \/ Destroy \/ OnWatches \/ OnDisk

Spec == Init /\ [][Next]_vars

-------------------------------------------------------------------------------
(* Types; a path is being worked on exactly while a call is at the disk.    *)
TypeOK ==
    /\ disk = [p \in Paths |-> disk[p]]
    /\ \A f \in Files : disk[f] \in Keys \cup {NoFile, Torn}
    /\ disk[WatchesFile] \in Seq(Watches) \cup {NoFile, Torn}
    /\ wallets \subseteq Files
    /\ key \in [Files -> Keys \cup {NoKey}]
    /\ watches \in Seq(Watches)
    /\ encoded \in Seq(Watches)
    /\ pc \in {"down", "idle", "open", "write", "remove", "destroy"}
    /\ todo \subseteq Paths
    /\ pc \in {"down", "idle"} => todo = {}
    /\ pc \in {"open", "write", "remove"} => \E p \in Paths : todo = {p}
    /\ behind \subseteq Paths

(* The file of a wallet opens with what the memory has: the same secret, no *)
(* account the memory lacks, and, but for a private key whose update threw, *)
(* the same password.                                                       *)
Saved(f) ==
    /\ disk[f] \in Keys
    /\ disk[f].secret = key[f].secret
    /\ disk[f].accounts \subseteq key[f].accounts
    /\ IsHD(key[f]) => disk[f].password = key[f].password

(* What the next start shows is what the list shows now, for every path     *)
(* that no call is working on and the file system has not refused: a listed *)
(* wallet is on the disk, and a key file that is not listed is an HD wallet *)
(* that a kept handle wrote back.  So a crash costs at most the one wallet  *)
(* being written, and a save whose result was dropped no other wallet.      *)
RestartShowsTheList ==
    pc # "down" => \A f \in Files \ (todo \cup behind) :
        /\ f \in wallets => Saved(f)
        /\ Readable(f) /\ f \notin wallets => IsHD(key[f]) /\ Saved(f)

(* While the store runs, the watches file holds the end of the list in      *)
(* memory: an address no longer watched does not come back, and load() is   *)
(* locked out by a torn file only if a call that writes it was cut off or   *)
(* threw.                                                                   *)
WatchFileIsSuffix ==
    pc # "down" /\ WatchesFile \notin todo \cup behind =>
        \/ disk[WatchesFile] = NoFile
        \/ \E i \in 0..Len(watches) :
              disk[WatchesFile] = SubSeq(watches, i + 1, Len(watches))

(* The file of a private key that was deleted stays away: a handle kept by  *)
(* the program cannot bring it back, although that of an HD wallet can.     *)
DeletedKeyStaysDeleted ==
    [][\A f \in Files :
         /\ key[f] # NoKey
         /\ ~IsHD(key[f])
         /\ f \notin wallets
         /\ disk[f] = NoFile
         => disk'[f] = NoFile]_vars

(* Updates the password of an existing account: the current password of a   *)
(* wallet with accounts is accepted, and the new key goes to the disk.      *)
CurrentPasswordUpdates ==
    [][\A f \in Files, pw, new \in Passwords :
         /\ Update(f, pw, new)
         /\ f \in wallets
         /\ Opens(key[f], pw)
         /\ key[f].accounts # {}
         => pc' = "open"]_vars
================================================================================
