----------------------------- MODULE KeyStore_proof ------------------------------
(***************************************************************************)
(* What a start of the key store shows, for any wallets, passwords, coins  *)
(* and watched accounts, and whatever the file system refuses.             *)
(***************************************************************************)
EXTENDS KeyStore, ListInduction, SequenceTheorems

(* A key file that is being written belongs to a wallet with a key; if the  *)
(* wallet is no longer listed, it is an HD wallet that addAccounts() was    *)
(* called on.  A file being removed belongs to a wallet already forgotten.  *)
Working ==
    /\ pc \in {"open", "write"} => \A f \in todo \cap Files :
          key[f] # NoKey /\ (f \notin wallets => IsHD(key[f]))
    /\ pc = "remove" => todo \subseteq Files \ wallets
    /\ pc = "destroy" => wallets = {}

(* A private key has one account at most, in memory and on the disk.        *)
OneAccount(k) == k \in Keys /\ ~IsHD(k) => \A c, d \in k.accounts : c = d
OneAccountEach == \A f \in Files : OneAccount(key[f]) /\ OneAccount(disk[f])

(* What is being written to the watches file is the end of the list.        *)
Suffix(s, t) == \E i \in 0..Len(t) : s = SubSeq(t, i + 1, Len(t))
EncodedIsSuffix == pc \in {"open", "write"} /\ WatchesFile \in todo => Suffix(encoded, watches)

IInv == TypeOK /\ Working /\ OneAccountEach /\ RestartShowsTheList
            /\ EncodedIsSuffix /\ WatchFileIsSuffix

-------------------------------------------------------------------------------
(* Keys.                                                                    *)

(* What is done to a key gives a key of the same secret, and a key that has *)
(* at most one account for a private key.                                   *)
LEMMA KeyOperations ==
    ASSUME NEW k \in Keys, NEW pw \in Passwords, NEW coins \in SUBSET Coins
    PROVE  /\ WithAccounts(k, coins) \in Keys
           /\ WithAccounts(k, coins).secret = k.secret
           /\ WithAccounts(k, coins).password = k.password
           /\ WithAccounts(k, coins).accounts = k.accounts \cup coins
           /\ WithoutAccounts(k, coins) \in Keys
           /\ WithoutAccounts(k, coins).secret = k.secret
           /\ WithoutAccounts(k, coins).accounts = k.accounts \ coins
           /\ Reencrypted(k, pw, coins) \in Keys
           /\ Reencrypted(k, pw, coins).secret = k.secret
           /\ Reencrypted(k, pw, coins).accounts = coins
<1>1. k.accounts \subseteq Coins
  BY DEF Keys
<1> QED
  BY <1>1 DEF Keys, WithAccounts, WithoutAccounts, Reencrypted

LEMMA NewKeys ==
    ASSUME NEW s \in Secrets, NEW pw \in Passwords, NEW coins \in SUBSET Coins
    PROVE  NewKey(s, pw, coins) \in Keys /\ NewKey(s, pw, coins).secret = s
             /\ NewKey(s, pw, coins).accounts = coins
BY DEF NewKey, Keys

(* A step that gives one name another key leaves the others alone.          *)
LEMMA KeyStep ==
    ASSUME TypeOK, NEW f \in Files, NEW k \in Keys, SetKey(f, k)
    PROVE  /\ key' \in [Files -> Keys \cup {NoKey}]
           /\ key'[f] = k
           /\ \A g \in Files : g # f => key'[g] = key[g]
BY DEF TypeOK, SetKey

(* A step that gives one path another content leaves the others alone.      *)
LEMMA DiskStep ==
    ASSUME TypeOK, NEW p \in Paths, NEW c, disk' = [disk EXCEPT ![p] = c]
    PROVE  /\ disk' = [q \in Paths |-> disk'[q]]
           /\ disk'[p] = c
           /\ \A q \in Paths : q # p => disk'[q] = disk[q]
<1>1. DOMAIN disk = Paths
  BY DEF TypeOK
<1> QED
  BY <1>1

-------------------------------------------------------------------------------
(* Calls on a Wallet object.                                                *)

(* A call that changes a key and saves it: the file of the wallet is what   *)
(* the call is working on, and nothing else changes.                        *)
LEMMA KeySaved ==
    ASSUME IInv, pc = "idle", NEW f \in Files, NEW k \in Keys, OneAccount(k),
           f \notin wallets => IsHD(k), SetKey(f, k), Save(f)
    PROVE  IInv'
<1> USE KeyStoreAssumption DEF Save, Start
<1>1. /\ key' \in [Files -> Keys \cup {NoKey}]
      /\ key'[f] = k
      /\ \A g \in Files : g # f => key'[g] = key[g]
  BY KeyStep DEF IInv
<1>2. TypeOK'
  BY <1>1 DEF IInv, TypeOK, Paths
<1>3. Working'
  BY <1>1 DEF IInv, Working
<1>4. OneAccountEach'
  <2>1. ASSUME NEW g \in Files
        PROVE  OneAccount(key'[g]) /\ OneAccount(disk'[g])
    BY <1>1 DEF IInv, OneAccountEach
  <2> QED
    BY <2>1 DEF OneAccountEach, OneAccount
<1>5. RestartShowsTheList'
  <2>1. ASSUME NEW g \in Files \ (todo' \cup behind')
        PROVE  g \in Files \ (todo \cup behind) /\ key'[g] = key[g]
    BY <1>1 DEF IInv, TypeOK
  <2> QED
    BY <2>1 DEF IInv, RestartShowsTheList, Saved, Readable, IsHD
<1>6. EncodedIsSuffix'
  BY DEF EncodedIsSuffix
<1>7. WatchFileIsSuffix'
  BY DEF IInv, WatchFileIsSuffix, TypeOK
<1> QED
  BY <1>2, <1>3, <1>4, <1>5, <1>6, <1>7 DEF IInv

(* A call that changes a key and leaves it to a later one to save it: the   *)
(* file still has the same secret and no account the memory lacks.          *)
LEMMA KeyUnsaved ==
    ASSUME IInv, pc = "idle", NEW f \in Files, key[f] # NoKey,
           NEW k \in Keys, OneAccount(k), SetKey(f, k),
           k.secret = key[f].secret,
           IsHD(k) => k.password = key[f].password,
           disk[f] \in Keys /\ disk[f].secret = key[f].secret
             /\ disk[f].accounts \subseteq key[f].accounts
             => disk[f].accounts \subseteq k.accounts,
           UNCHANGED <<disk, wallets, watches, encoded, pc, todo, behind>>
    PROVE  IInv'
<1> USE KeyStoreAssumption
<1>1. /\ key' \in [Files -> Keys \cup {NoKey}]
      /\ key'[f] = k
      /\ \A g \in Files : g # f => key'[g] = key[g]
  BY KeyStep DEF IInv
<1>2. TypeOK'
  BY <1>1 DEF IInv, TypeOK
<1>3. Working'
  BY <1>1 DEF IInv, Working
<1>4. OneAccountEach'
  <2>1. ASSUME NEW g \in Files
        PROVE  OneAccount(key'[g]) /\ OneAccount(disk'[g])
    BY <1>1 DEF IInv, OneAccountEach
  <2> QED
    BY <2>1 DEF OneAccountEach, OneAccount
<1>5. RestartShowsTheList'
  <2>1. IsHD(k) <=> IsHD(key[f])
    BY DEF IsHD
  <2>2. Saved(f) => Saved(f)'
    BY <1>1, <2>1 DEF Saved, IsHD
  <2>3. ASSUME NEW g \in Files
        PROVE  (Saved(g) => Saved(g)') /\ (IsHD(key[g]) => IsHD(key'[g]))
    BY <1>1, <2>1, <2>2 DEF Saved, IsHD
  <2> QED
    BY <2>3 DEF IInv, RestartShowsTheList, Readable
<1>6. EncodedIsSuffix'
  BY DEF IInv, EncodedIsSuffix, Suffix
<1>7. WatchFileIsSuffix'
  BY DEF IInv, WatchFileIsSuffix
<1> QED
  BY <1>2, <1>3, <1>4, <1>5, <1>6, <1>7 DEF IInv

(* The end of the process: nothing is promised of a store that is down.     *)
LEMMA DieKeeps == ASSUME IInv, Die PROVE IInv'
<1> USE KeyStoreAssumption DEF Die, Start
<1>1. TypeOK'
  BY EmptySeq DEF IInv, TypeOK
<1>2. Working' /\ RestartShowsTheList' /\ EncodedIsSuffix' /\ WatchFileIsSuffix'
  BY DEF Working, RestartShowsTheList, EncodedIsSuffix, WatchFileIsSuffix
<1>3. OneAccountEach'
  BY DEF IInv, OneAccountEach, OneAccount
<1> QED
  BY <1>1, <1>2, <1>3 DEF IInv

LEMMA RejectedKeeps == ASSUME IInv, UNCHANGED vars PROVE IInv'
<1> USE DEF vars, IInv
<1>1. TypeOK'
  BY DEF TypeOK
<1>2. Working'
  BY DEF Working, IsHD
<1>3. OneAccountEach'
  BY DEF OneAccountEach, OneAccount, IsHD
<1>4. RestartShowsTheList'
  BY DEF RestartShowsTheList, Saved, Readable, IsHD
<1>5. EncodedIsSuffix' /\ WatchFileIsSuffix'
  BY DEF EncodedIsSuffix, Suffix, WatchFileIsSuffix
<1> QED
  BY <1>1, <1>2, <1>3, <1>4, <1>5

LEMMA AddAccountsKeeps ==
    ASSUME IInv, NEW f \in Files, NEW pw \in Passwords, NEW coins \in SUBSET Coins,
           AddAccounts(f, pw, coins)
    PROVE  IInv'
<1>1. CASE Rejected
  BY <1>1, RejectedKeeps DEF Rejected
<1>2. CASE HasHDWallet(key[f], pw) /\ SetKey(f, WithAccounts(key[f], coins)) /\ Save(f)
  <2>1. key[f] \in Keys /\ pc = "idle"
    BY DEF AddAccounts, Held, IInv, TypeOK
  <2> DEFINE k == WithAccounts(key[f], coins)
  <2>2. k \in Keys /\ k.secret = key[f].secret
    BY <2>1, KeyOperations
  <2>3. IsHD(k)
    BY <1>2, <2>2 DEF HasHDWallet, IsHD
  <2>4. OneAccount(k)
    BY <2>3 DEF OneAccount
  <2> QED
    BY <1>2, <2>1, <2>2, <2>3, <2>4, KeySaved
<1> QED
  BY <1>1, <1>2 DEF AddAccounts

LEMMA RemoveAccountsKeeps ==
    ASSUME IInv, NEW f \in Files, NEW pw \in Passwords, NEW coins \in SUBSET Coins,
           RemoveAccounts(f, pw, coins)
    PROVE  IInv'
<1>1. CASE Rejected
  BY <1>1, RejectedKeeps DEF Rejected
<1>2. CASE Missing(f)
  BY <1>2, DieKeeps DEF Missing
<1>3. CASE f \in wallets /\ SetKey(f, WithoutAccounts(key[f], coins)) /\ Save(f)
  <2>1. key[f] \in Keys /\ pc = "idle"
    BY DEF RemoveAccounts, Held, IInv, TypeOK
  <2> DEFINE k == WithoutAccounts(key[f], coins)
  <2>2. k \in Keys /\ k.secret = key[f].secret /\ k.accounts = key[f].accounts \ coins
    <3>1. \E any \in Passwords : TRUE
      OBVIOUS
    <3> QED
      BY <2>1, <3>1, KeyOperations
  <2>3. OneAccount(k)
    BY <2>1, <2>2 DEF IInv, OneAccountEach, OneAccount, IsHD
  <2> QED
    BY <1>3, <2>1, <2>2, <2>3, KeySaved
<1> QED
  BY <1>1, <1>2, <1>3 DEF RemoveAccounts

LEMMA GetAccountKeeps ==
    ASSUME IInv, NEW f \in Files, NEW pw \in Passwords, NEW coin \in Coins,
           GetAccount(f, pw, coin)
    PROVE  IInv'
<1>1. key[f] \in Keys /\ key[f] # NoKey /\ pc = "idle"
  BY DEF GetAccount, Held, IInv, TypeOK
<1> DEFINE k == WithAccounts(key[f], {coin})
<1>2. /\ k \in Keys
      /\ k.secret = key[f].secret
      /\ k.password = key[f].password
      /\ k.accounts = key[f].accounts \cup {coin}
  BY <1>1, KeyOperations
<1>3. OneAccount(k)
  BY <1>2 DEF GetAccount, HasHDWallet, IsHD, OneAccount
<1>4. SetKey(f, k) /\ UNCHANGED <<disk, wallets, watches, encoded, pc, todo, behind>>
  BY DEF GetAccount
<1> HIDE DEF k
<1> QED
  BY <1>1, <1>2, <1>3, <1>4, KeyUnsaved

(* The update of a private key throws after the key in memory was replaced. *)
(* The file has no account but the one the new key is given: there was only *)
(* one.                                                                     *)
LEMMA UpdateKeeps ==
    ASSUME IInv, NEW f \in Files, NEW pw \in Passwords, NEW new \in Passwords,
           Update(f, pw, new)
    PROVE  IInv'
<1>1. key[f] \in Keys /\ key[f] # NoKey /\ pc = "idle"
  BY DEF Update, Held, IInv, TypeOK
<1>2. key[f].accounts \in SUBSET Coins
  BY <1>1 DEF Keys
<1>3. CASE Missing(f)
  BY <1>3, DieKeeps DEF Missing
<1>4. CASE Rejected
  BY <1>4, RejectedKeeps DEF Rejected
<1>5. CASE /\ f \in wallets
           /\ IsHD(key[f])
           /\ SetKey(f, Reencrypted(key[f], new, key[f].accounts))
           /\ Save(f)
  <2> DEFINE k == Reencrypted(key[f], new, key[f].accounts)
  <2>1. k \in Keys /\ k.secret = key[f].secret
    BY <1>1, <1>2, KeyOperations
  <2>2. IsHD(k)
    BY <1>5, <2>1 DEF IsHD
  <2>3. OneAccount(k)
    BY <2>2 DEF OneAccount
  <2> HIDE DEF k
  <2>4. SetKey(f, k)
    BY <1>5 DEF k
  <2> QED
    BY <1>5, <1>1, <2>1, <2>2, <2>3, <2>4, KeySaved
<1>6. ASSUME ~IsHD(key[f]), NEW coin \in key[f].accounts,
             SetKey(f, Reencrypted(key[f], new, {coin})),
             UNCHANGED <<disk, wallets, watches, encoded, pc, todo, behind>>
      PROVE  IInv'
  <2> DEFINE k == Reencrypted(key[f], new, {coin})
  <2>1. /\ k \in Keys
        /\ k.secret = key[f].secret
        /\ k.accounts = {coin}
    BY <1>1, <1>2, KeyOperations
  <2>2. ~IsHD(k)
    BY <1>6, <2>1 DEF IsHD
  <2>3. OneAccount(k)
    BY <2>1 DEF OneAccount
  <2>4. key[f].accounts = {coin}
    BY <1>1, <1>6 DEF IInv, OneAccountEach, OneAccount
  <2> HIDE DEF k
  <2>5. SetKey(f, k)
    BY <1>6 DEF k
  <2> QED
    BY <1>1, <1>6, <2>1, <2>2, <2>3, <2>4, <2>5, KeyUnsaved
<1> QED
  BY <1>3, <1>4, <1>5, <1>6 DEF Update

(* The list forgets the wallet before its file is removed.                  *)
LEMMA DeleteKeeps ==
    ASSUME IInv, NEW f \in Files, NEW pw \in Passwords, Delete(f, pw)
    PROVE  IInv'
<1> USE KeyStoreAssumption
<1>1. CASE Missing(f)
  BY <1>1, DieKeeps DEF Missing
<1>2. CASE Rejected
  BY <1>2, RejectedKeeps DEF Rejected
<1>3. CASE /\ pc = "idle"
           /\ wallets' = wallets \ {f}
           /\ pc' = "remove" /\ todo' = {f}
           /\ UNCHANGED <<disk, key, watches, encoded, behind>>
  <2>1. TypeOK'
    BY <1>3 DEF IInv, TypeOK, Paths
  <2>2. Working' /\ EncodedIsSuffix'
    BY <1>3 DEF Working, EncodedIsSuffix
  <2>3. OneAccountEach'
    BY <1>3 DEF IInv, OneAccountEach, OneAccount, IsHD
  <2>4. RestartShowsTheList'
    BY <1>3 DEF IInv, TypeOK, RestartShowsTheList, Saved, Readable, IsHD
  <2>5. WatchFileIsSuffix'
    BY <1>3 DEF IInv, TypeOK, WatchFileIsSuffix
  <2> QED
    BY <2>1, <2>2, <2>3, <2>4, <2>5 DEF IInv
<1> QED
  BY <1>1, <1>2, <1>3 DEF Delete, Held, Start

-------------------------------------------------------------------------------
(* New wallets.                                                             *)

LEMMA AddKeeps ==
    ASSUME IInv, NEW f \in Files, NEW k \in Keys, OneAccount(k), Add(f, k)
    PROVE  IInv'
<1> USE KeyStoreAssumption DEF Add, Start
<1>1. /\ key' \in [Files -> Keys \cup {NoKey}]
      /\ key'[f] = k
      /\ \A g \in Files : g # f => key'[g] = key[g]
  BY DEF IInv, TypeOK
<1>2. TypeOK'
  BY <1>1 DEF IInv, TypeOK, Paths
<1>3. Working'
  BY <1>1 DEF Working
<1>4. OneAccountEach'
  <2>1. ASSUME NEW g \in Files
        PROVE  OneAccount(key'[g]) /\ OneAccount(disk'[g])
    BY <1>1 DEF IInv, OneAccountEach
  <2> QED
    BY <2>1 DEF OneAccountEach, OneAccount
<1>5. RestartShowsTheList'
  <2>1. ASSUME NEW g \in Files \ (todo' \cup behind')
        PROVE  /\ g \in Files \ (todo \cup behind)
               /\ key'[g] = key[g]
               /\ g \in wallets' <=> g \in wallets
    BY <1>1 DEF IInv, TypeOK
  <2> QED
    BY <2>1 DEF IInv, RestartShowsTheList, Saved, Readable, IsHD
<1>6. EncodedIsSuffix' /\ WatchFileIsSuffix'
  BY DEF IInv, TypeOK, EncodedIsSuffix, WatchFileIsSuffix
<1> QED
  BY <1>2, <1>3, <1>4, <1>5, <1>6 DEF IInv

LEMMA ImportMnemonicKeeps ==
    ASSUME IInv, NEW f \in Files, NEW s \in Mnemonics, NEW pw \in Passwords,
           NEW coins \in SUBSET Coins, Add(f, NewKey(s, pw, coins))
    PROVE  IInv'
<1>1. s \in Secrets
  BY DEF Secrets
<1>2. NewKey(s, pw, coins) \in Keys /\ IsHD(NewKey(s, pw, coins))
  BY <1>1, NewKeys DEF IsHD
<1>3. OneAccount(NewKey(s, pw, coins))
  BY <1>2 DEF OneAccount
<1> QED
  BY <1>2, <1>3, AddKeeps

LEMMA ImportPrivateKeyKeeps ==
    ASSUME IInv, NEW f \in Files, NEW s \in Secrets, NEW pw \in Passwords,
           NEW coin \in Coins, ImportPrivateKey(f, s, pw, coin)
    PROVE  IInv'
<1>1. NewKey(s, pw, {coin}) \in Keys /\ NewKey(s, pw, {coin}).accounts = {coin}
  BY NewKeys
<1>2. OneAccount(NewKey(s, pw, {coin}))
  BY <1>1 DEF OneAccount
<1> QED
  BY <1>1, <1>2, AddKeeps DEF ImportPrivateKey

LEMMA NewKeeps == ASSUME IInv, New PROVE IInv'
<1>1. PICK f \in Files, pw \in Passwords, coins \in SUBSET Coins :
        \/ \E s \in Mnemonics : CreateWallet(f, s, pw, coins)
        \/ \E s \in Secrets : ImportJSON(f, s, pw, coins)
  BY DEF New
<1>2. OrDefault(coins) \in SUBSET Coins
  BY KeyStoreAssumption DEF OrDefault
<1>3. ASSUME NEW s \in Mnemonics, CreateWallet(f, s, pw, coins)
      PROVE  IInv'
  BY <1>3, ImportMnemonicKeeps DEF CreateWallet
<1>4. ASSUME NEW s \in Secrets, ImportJSON(f, s, pw, coins)
      PROVE  IInv'
  <2>1. CASE s \in Mnemonics /\ ImportMnemonic(f, s, pw, coins)
    BY <2>1, <1>2, ImportMnemonicKeeps DEF ImportMnemonic
  <2>2. CASE \E first \in OrDefault(coins) : ImportPrivateKey(f, s, pw, first)
    BY <2>2, <1>2, ImportPrivateKeyKeeps
  <2> QED
    BY <1>4, <2>1, <2>2 DEF ImportJSON
<1> QED
  BY <1>1, <1>3, <1>4

-------------------------------------------------------------------------------
(* The disk.                                                                *)

LEMMA LoadKeeps == ASSUME IInv, Load PROVE IInv'
<1> USE KeyStoreAssumption DEF Load, Start, Finish
<1>1. ASSUME NEW f \in Files, Readable(f)
      PROVE  disk[f] \in Keys
  BY <1>1 DEF IInv, TypeOK, Readable
<1>2. key' \in [Files -> Keys \cup {NoKey}]
  BY <1>1
<1>3. Readable(WatchesFile) => disk[WatchesFile] \in Seq(Watches)
  BY DEF IInv, TypeOK, Readable
<1>4. watches' \in Seq(Watches)
  BY <1>3, EmptySeq
<1>5. TypeOK'
  BY <1>2, <1>4 DEF IInv, TypeOK
<1>6. Working' /\ EncodedIsSuffix'
  BY DEF Working, EncodedIsSuffix
<1>7. OneAccountEach'
  <2>1. ASSUME NEW f \in Files
        PROVE  OneAccount(key'[f]) /\ OneAccount(disk'[f])
    <3>1. OneAccount(disk[f])
      BY DEF IInv, OneAccountEach
    <3>2. key'[f] = disk[f] \/ key'[f] = NoKey
      OBVIOUS
    <3> QED
      BY <3>1, <3>2 DEF OneAccount
  <2> QED
    BY <2>1 DEF OneAccountEach, OneAccount
<1>8. RestartShowsTheList'
  <2>1. ASSUME NEW f \in Files
        PROVE  /\ f \in wallets' => Saved(f)'
               /\ Readable(f)' => f \in wallets'
    BY <1>1 DEF Saved, Readable
  <2> QED
    BY <2>1 DEF RestartShowsTheList
<1>9. WatchFileIsSuffix'
  <2>1. CASE Readable(WatchesFile)
    <3>1. watches' = disk'[WatchesFile]
      BY <2>1
    <3>2. watches' = SubSeq(watches', 0 + 1, Len(watches')) /\ 0 \in 0..Len(watches')
      BY <1>4, SubSeqFull, LenProperties
    <3> QED
      BY <3>1, <3>2 DEF WatchFileIsSuffix
  <2>2. CASE ~Readable(WatchesFile)
    BY <2>2 DEF Readable, WatchFileIsSuffix
  <2> QED
    BY <2>1, <2>2
<1> QED
  BY <1>5, <1>6, <1>7, <1>8, <1>9 DEF IInv

(* A refused step ends the call; only the path it was working on is behind. *)
LEMMA RefusedKeeps ==
    ASSUME IInv, pc # "down", NEW p \in Paths, todo = {p},
           behind' = behind \cup {p}, encoded' \in {<<>>, encoded},
           pc' = "idle", todo' = {}, UNCHANGED <<disk, wallets, key, watches>>
    PROVE  IInv'
<1>1. encoded' \in Seq(Watches)
  BY EmptySeq DEF IInv, TypeOK
<1>2. TypeOK'
  BY <1>1 DEF IInv, TypeOK
<1>3. Working' /\ EncodedIsSuffix'
  BY DEF Working, EncodedIsSuffix
<1>4. OneAccountEach'
  BY DEF IInv, OneAccountEach, OneAccount, IsHD
<1>5. RestartShowsTheList'
  BY DEF IInv, RestartShowsTheList, Saved, Readable, IsHD
<1>6. WatchFileIsSuffix'
  BY DEF IInv, WatchFileIsSuffix
<1> QED
  BY <1>2, <1>3, <1>4, <1>5, <1>6 DEF IInv

(* Opening a file for writing empties it; when that is refused, the memory  *)
(* stays ahead of the file.                                                 *)
LEMMA OpenKeeps == ASSUME IInv, Open PROVE IInv'
<1> USE KeyStoreAssumption DEF Start, Finish, memory
<1>1. PICK p \in Paths : todo = {p} /\ pc = "open"
  BY DEF IInv, TypeOK, Open
<1>2. UNCHANGED <<wallets, key, watches>>
  BY DEF Open
<1>3. CASE /\ disk' = [disk EXCEPT ![p] = Torn]
           /\ pc' = "write" /\ todo' = todo
           /\ UNCHANGED <<encoded, behind>>
  <2>1. /\ disk' = [q \in Paths |-> disk'[q]]
        /\ disk'[p] = Torn
        /\ \A q \in Paths : q # p => disk'[q] = disk[q]
    BY <1>1, <1>3, DiskStep DEF IInv
  <2>2. Files \subseteq Paths /\ WatchesFile \in Paths
    BY DEF Paths
  <2>3. TypeOK'
    BY <1>1, <1>2, <1>3, <2>1, <2>2 DEF IInv, TypeOK
  <2>4. Working'
    BY <1>1, <1>2, <1>3 DEF IInv, Working, IsHD
  <2>5. OneAccountEach'
    BY <1>2, <2>1, <2>2 DEF IInv, OneAccountEach, OneAccount, IsHD
  <2>6. RestartShowsTheList'
    BY <1>1, <1>2, <1>3, <2>1, <2>2 DEF IInv, RestartShowsTheList, Saved, Readable, IsHD
  <2>7. EncodedIsSuffix'
    BY <1>1, <1>2, <1>3 DEF IInv, EncodedIsSuffix, Suffix
  <2>8. WatchFileIsSuffix'
    BY <1>1, <1>2, <1>3, <2>1, <2>2 DEF IInv, WatchFileIsSuffix
  <2> QED
    BY <2>3, <2>4, <2>5, <2>6, <2>7, <2>8 DEF IInv
<1>4. CASE Finish /\ Refused /\ encoded' = <<>> /\ UNCHANGED disk
  BY <1>1, <1>2, <1>4, RefusedKeeps DEF Refused
<1> QED
  BY <1>1, <1>3, <1>4 DEF Open

LEMMA WriteKeeps == ASSUME IInv, Write PROVE IInv'
<1> USE KeyStoreAssumption DEF Start, Finish, memory
<1>1. PICK p \in Paths : todo = {p} /\ pc = "write"
  BY DEF IInv, TypeOK, Write
<1>2. /\ UNCHANGED <<wallets, key, watches>>
      /\ encoded' = <<>> /\ pc' = "idle" /\ todo' = {}
  BY DEF Write
<1>3. CASE /\ disk' = [disk EXCEPT ![p] = Content(p)]
           /\ behind' = behind \ {p}
  <2>1. /\ disk' = [q \in Paths |-> disk'[q]]
        /\ disk'[p] = Content(p)
        /\ \A q \in Paths : q # p => disk'[q] = disk[q]
    BY <1>1, <1>3, DiskStep DEF IInv
  <2>2. Files \subseteq Paths /\ WatchesFile \in Paths
    BY DEF Paths
  <2>3. /\ p # WatchesFile => p \in Files /\ disk'[p] = key[p] /\ key[p] \in Keys
        /\ p = WatchesFile => disk'[p] = encoded
    BY <1>1, <2>1 DEF Content, Paths, IInv, Working, TypeOK
  <2>4. TypeOK'
    <3>1. encoded' \in Seq(Watches)
      BY <1>2, EmptySeq
    <3>2. \A f \in Files : disk'[f] \in Keys \cup {NoFile, Torn}
      BY <2>1, <2>2, <2>3 DEF IInv, TypeOK
    <3>3. disk'[WatchesFile] \in Seq(Watches) \cup {NoFile, Torn}
      BY <2>1, <2>2, <2>3 DEF IInv, TypeOK
    <3> QED
      BY <1>2, <1>3, <2>1, <3>1, <3>2, <3>3 DEF IInv, TypeOK
  <2>5. Working' /\ EncodedIsSuffix'
    BY <1>2 DEF Working, EncodedIsSuffix
  <2>6. OneAccountEach'
    <3>1. ASSUME NEW f \in Files
          PROVE  OneAccount(key'[f]) /\ OneAccount(disk'[f])
      BY <1>2, <2>1, <2>2, <2>3 DEF IInv, OneAccountEach
    <3> QED
      BY <3>1 DEF OneAccountEach, OneAccount
  <2>7. RestartShowsTheList'
    <3>1. ASSUME NEW f \in Files \ behind'
          PROVE  /\ f \in wallets' => Saved(f)'
                 /\ Readable(f)' /\ f \notin wallets' => IsHD(key'[f]) /\ Saved(f)'
      <4>1. CASE f = p
        BY <1>1, <1>2, <2>3, <4>1 DEF IInv, Working, Saved, IsHD
      <4>2. CASE f # p
        <5>1. f \in Files \ (todo \cup behind) /\ disk'[f] = disk[f]
          BY <1>1, <1>3, <2>1, <2>2, <4>2
        <5> QED
          BY <1>1, <1>2, <5>1 DEF IInv, RestartShowsTheList, Saved, Readable, IsHD
      <4> QED
        BY <4>1, <4>2
    <3> QED
      BY <3>1 DEF RestartShowsTheList, IsHD
  <2>8. WatchFileIsSuffix'
    <3>1. CASE p = WatchesFile
      BY <1>1, <1>2, <2>3, <3>1 DEF IInv, EncodedIsSuffix, Suffix, WatchFileIsSuffix
    <3>2. CASE p # WatchesFile
      BY <1>1, <1>2, <1>3, <2>1, <2>2, <3>2 DEF IInv, WatchFileIsSuffix
    <3> QED
      BY <3>1, <3>2
  <2> QED
    BY <2>4, <2>5, <2>6, <2>7, <2>8 DEF IInv
<1>4. CASE Refused /\ UNCHANGED disk
  BY <1>1, <1>2, <1>4, RefusedKeeps DEF Refused
<1> QED
  BY <1>1, <1>3, <1>4 DEF Write

LEMMA RemoveItemKeeps == ASSUME IInv, RemoveItem PROVE IInv'
<1> USE KeyStoreAssumption DEF Start, Finish, memory
<1>1. PICK p \in Files : todo = {p} /\ pc = "remove" /\ p \notin wallets
  BY DEF IInv, TypeOK, Working, RemoveItem
<1>2. /\ UNCHANGED <<wallets, key, watches, encoded>>
      /\ pc' = "idle" /\ todo' = {}
  BY DEF RemoveItem
<1>3. CASE /\ disk' = [disk EXCEPT ![p] = NoFile]
           /\ behind' = behind \ {p}
  <2>1. Files \subseteq Paths /\ WatchesFile \in Paths /\ p # WatchesFile
    BY DEF Paths
  <2>2. /\ disk' = [q \in Paths |-> disk'[q]]
        /\ disk'[p] = NoFile
        /\ \A q \in Paths : q # p => disk'[q] = disk[q]
    BY <1>3, <2>1, DiskStep DEF IInv
  <2>3. TypeOK'
    BY <1>2, <1>3, <2>1, <2>2 DEF IInv, TypeOK
  <2>4. Working' /\ EncodedIsSuffix'
    BY <1>2 DEF Working, EncodedIsSuffix
  <2>5. OneAccountEach'
    BY <1>2, <2>1, <2>2 DEF IInv, OneAccountEach, OneAccount, IsHD
  <2>6. RestartShowsTheList'
    BY <1>1, <1>2, <1>3, <2>1, <2>2
       DEF IInv, RestartShowsTheList, Saved, Readable, IsHD
  <2>7. WatchFileIsSuffix'
    BY <1>1, <1>2, <1>3, <2>1, <2>2 DEF IInv, WatchFileIsSuffix
  <2> QED
    BY <2>3, <2>4, <2>5, <2>6, <2>7 DEF IInv
<1>4. CASE Refused /\ UNCHANGED disk
  <2>1. p \in Paths
    BY DEF Paths
  <2> QED
    BY <1>1, <1>2, <1>4, <2>1, RefusedKeeps DEF Refused
<1> QED
  BY <1>1, <1>3, <1>4 DEF RemoveItem

(* destroy() forgets every wallet and works through every file there is.    *)
LEMMA DestroyKeeps == ASSUME IInv, Destroy PROVE IInv'
<1> USE DEF Destroy, Start
<1>1. TypeOK'
  BY DEF IInv, TypeOK
<1>2. Working' /\ EncodedIsSuffix'
  BY DEF Working, EncodedIsSuffix
<1>3. OneAccountEach'
  BY DEF IInv, OneAccountEach, OneAccount, IsHD
<1>4. RestartShowsTheList'
  BY DEF RestartShowsTheList, Readable, Paths
<1>5. WatchFileIsSuffix'
  BY DEF WatchFileIsSuffix, Paths
<1> QED
  BY <1>1, <1>2, <1>3, <1>4, <1>5 DEF IInv

LEMMA DestroyNextKeeps == ASSUME IInv, DestroyNext PROVE IInv'
<1> USE KeyStoreAssumption DEF memory
<1>1. PICK p \in todo :
        /\ todo' = todo \ {p}
        /\ \/ /\ disk' = [disk EXCEPT ![p] = NoFile]
              /\ behind' = behind \ {p}
           \/ behind' = behind \cup {p} /\ UNCHANGED disk
  BY DEF DestroyNext
<1>2. /\ UNCHANGED <<wallets, key, watches, encoded, pc>>
      /\ pc = "destroy" /\ wallets = {} /\ p \in Paths
  BY DEF DestroyNext, IInv, Working, TypeOK
<1>3. Files \subseteq Paths /\ WatchesFile \in Paths
  BY DEF Paths
<1>4. CASE /\ disk' = [disk EXCEPT ![p] = NoFile]
           /\ behind' = behind \ {p}
  <2>1. /\ disk' = [q \in Paths |-> disk'[q]]
        /\ disk'[p] = NoFile
        /\ \A q \in Paths : q # p => disk'[q] = disk[q]
    BY <1>2, <1>4, DiskStep DEF IInv
  <2>2. TypeOK'
    BY <1>1, <1>2, <1>3, <1>4, <2>1 DEF IInv, TypeOK
  <2>3. Working' /\ EncodedIsSuffix'
    BY <1>2 DEF Working, EncodedIsSuffix
  <2>4. OneAccountEach'
    BY <1>2, <1>3, <2>1 DEF IInv, OneAccountEach, OneAccount, IsHD
  <2>5. RestartShowsTheList'
    BY <1>1, <1>2, <1>3, <1>4, <2>1
       DEF IInv, RestartShowsTheList, Saved, Readable, IsHD
  <2>6. WatchFileIsSuffix'
    BY <1>1, <1>2, <1>3, <1>4, <2>1 DEF IInv, WatchFileIsSuffix
  <2> QED
    BY <2>2, <2>3, <2>4, <2>5, <2>6 DEF IInv
<1>5. CASE behind' = behind \cup {p} /\ UNCHANGED disk
  <2>1. TypeOK'
    BY <1>1, <1>2, <1>5 DEF IInv, TypeOK
  <2>2. Working' /\ EncodedIsSuffix'
    BY <1>2 DEF Working, EncodedIsSuffix
  <2>3. OneAccountEach'
    BY <1>2, <1>5 DEF IInv, OneAccountEach, OneAccount, IsHD
  <2>4. RestartShowsTheList'
    BY <1>1, <1>2, <1>5 DEF IInv, RestartShowsTheList, Saved, Readable, IsHD
  <2>5. WatchFileIsSuffix'
    BY <1>1, <1>2, <1>5 DEF IInv, WatchFileIsSuffix
  <2> QED
    BY <2>1, <2>2, <2>3, <2>4, <2>5 DEF IInv
<1> QED
  BY <1>1, <1>4, <1>5

LEMMA DestroyEndsKeeps == ASSUME IInv, DestroyEnds PROVE IInv'
<1> USE DEF DestroyEnds, Start, Finish, memory
<1>1. TypeOK'
  BY DEF IInv, TypeOK
<1>2. Working' /\ EncodedIsSuffix'
  BY DEF Working, EncodedIsSuffix
<1>3. OneAccountEach'
  BY DEF IInv, OneAccountEach, OneAccount, IsHD
<1>4. RestartShowsTheList'
  BY DEF IInv, RestartShowsTheList, Saved, Readable, IsHD
<1>5. WatchFileIsSuffix'
  BY DEF IInv, WatchFileIsSuffix
<1> QED
  BY <1>1, <1>2, <1>3, <1>4, <1>5 DEF IInv

-------------------------------------------------------------------------------
(* Watched accounts.                                                        *)

(* Either call writes the end of the list it leaves in memory.              *)
LEMMA WriteWatchesKeeps ==
    ASSUME IInv, pc = "idle", NEW all \in Seq(Watches), NEW list \in Seq(Watches),
           Suffix(list, all), WriteWatches(all, list)
    PROVE  IInv'
<1> USE KeyStoreAssumption DEF WriteWatches, Start
<1>1. TypeOK'
  BY DEF IInv, TypeOK, Paths
<1>2. Working'
  BY DEF Working
<1>3. OneAccountEach'
  BY DEF IInv, OneAccountEach, OneAccount, IsHD
<1>4. RestartShowsTheList'
  BY DEF IInv, TypeOK, RestartShowsTheList, Saved, Readable, IsHD
<1>5. EncodedIsSuffix' /\ WatchFileIsSuffix'
  BY DEF EncodedIsSuffix, Suffix, WatchFileIsSuffix
<1> QED
  BY <1>1, <1>2, <1>3, <1>4, <1>5 DEF IInv

LEMMA WatchKeeps ==
    ASSUME IInv, NEW list \in WatchLists, Watch(list)
    PROVE  IInv'
<1>1. watches \in Seq(Watches) /\ list \in Seq(Watches)
  BY KeyStoreAssumption DEF IInv, TypeOK
<1> DEFINE all == watches \o list
<1>2. all \in Seq(Watches) /\ Len(all) = Len(watches) + Len(list)
  BY <1>1, ConcatProperties
<1>3. Len(watches) \in Nat /\ Len(list) \in Nat
  BY <1>1, LenProperties
<1>4. SubSeq(all, Len(watches) + 1, Len(watches) + Len(list)) = list
  BY <1>1, <1>3, SubSeqOfConcat2, SubSeqFull
<1>5. Suffix(list, all)
  BY <1>2, <1>3, <1>4 DEF Suffix
<1> HIDE DEF all
<1>6. pc = "idle" /\ WriteWatches(all, list)
  BY DEF Watch, all
<1> QED
  BY <1>1, <1>2, <1>5, <1>6, WriteWatchesKeeps

(* The list without its first entry of an account is a list.                *)
LEMMA WithoutFirstType ==
    ASSUME NEW w, watches \in Seq(Watches), \E i \in 1..Len(watches) : watches[i] = w
    PROVE  WithoutFirst(w) \in Seq(Watches)
<1>1. Len(watches) \in Nat /\ \A i \in 1..Len(watches) : watches[i] \in Watches
  BY LenProperties, ElementOfSeq
<1>2. First(w) \in 1..Len(watches)
  <2> DEFINE Found == {i \in 1..Len(watches) : watches[i] = w}
  <2>1. PICK m \in Found : \A n \in Found : m <= n
    <3>1. Found \subseteq Nat /\ Found # {}
      BY <1>1
    <3> HIDE DEF Found
    <3> QED
      BY <3>1, LeastNumber
  <2>2. \A j \in 1..(m - 1) : watches[j] # w
    BY <1>1, <2>1
  <2> QED
    BY <2>1, <2>2 DEF First
<1>3. SubSeq(watches, 1, First(w) - 1) \in Seq(Watches)
  BY <1>1, <1>2, SubSeqProperties
<1>4. SubSeq(watches, First(w) + 1, Len(watches)) \in Seq(Watches)
  BY <1>1, <1>2, SubSeqProperties
<1> QED
  BY <1>3, <1>4, ConcatProperties DEF WithoutFirst

LEMMA RemoveWatchKeeps == ASSUME IInv, NEW w, RemoveWatch(w) PROVE IInv'
<1> DEFINE all == WithoutFirst(w)
<1>1. all \in Seq(Watches)
  BY WithoutFirstType DEF RemoveWatch, IInv, TypeOK
<1> HIDE DEF all
<1>2. Suffix(all, all)
  <2>1. 0 \in 0..Len(all) /\ all = SubSeq(all, 0 + 1, Len(all))
    BY <1>1, LenProperties, SubSeqFull
  <2> QED
    BY <2>1 DEF Suffix
<1>3. pc = "idle" /\ WriteWatches(all, all)
  BY DEF RemoveWatch, all
<1> QED
  BY <1>1, <1>2, <1>3, WriteWatchesKeeps

-------------------------------------------------------------------------------
LEMMA InitHolds == Init => IInv
<1> SUFFICES ASSUME Init PROVE IInv
  OBVIOUS
<1> USE KeyStoreAssumption DEF Init
<1>1. TypeOK
  BY EmptySeq DEF TypeOK, Paths
<1>2. Working /\ RestartShowsTheList /\ EncodedIsSuffix /\ WatchFileIsSuffix
  BY DEF Working, RestartShowsTheList, EncodedIsSuffix, WatchFileIsSuffix
<1>3. OneAccountEach
  BY DEF OneAccountEach, OneAccount, Paths
<1> QED
  BY <1>1, <1>2, <1>3 DEF IInv

LEMMA OnWalletKeeps == ASSUME IInv, OnWallet PROVE IInv'
BY AddAccountsKeeps, RemoveAccountsKeeps, GetAccountKeeps, UpdateKeeps, DeleteKeeps
   DEF OnWallet

LEMMA NextKeeps == IInv /\ [Next]_vars => IInv'
<1> SUFFICES ASSUME IInv, [Next]_vars PROVE IInv'
  OBVIOUS
<1>1. CASE Crash
  BY <1>1, DieKeeps DEF Crash
<1>2. CASE LoadFails \/ UNCHANGED vars
  BY <1>2, RejectedKeeps DEF LoadFails
<1>3. CASE OnWatches
  BY <1>3, WatchKeeps, RemoveWatchKeeps DEF OnWatches
<1>4. CASE OnDisk
  BY <1>4, OpenKeeps, WriteKeeps, RemoveItemKeeps, DestroyNextKeeps, DestroyEndsKeeps
     DEF OnDisk
<1> QED
  BY <1>1, <1>2, <1>3, <1>4, LoadKeeps, NewKeeps, OnWalletKeeps, DestroyKeeps DEF Next

LEMMA Inductive == Spec => []IInv
BY InitHolds, NextKeeps, PTL DEF Spec

(* The types of the store's variables: what is in the files and in memory,  *)
(* and that a path is being worked on exactly while a call is at the disk.  *)
THEOREM TypeCorrect == Spec => []TypeOK
<1>1. IInv => TypeOK
  BY DEF IInv
<1> QED
  BY <1>1, Inductive, PTL

(* What the next start would show is what the list shows now, for every     *)
(* wallet that no call is working on and the file system has not refused,   *)
(* however many wallets, coins and passwords there are.                     *)
THEOREM RestartIsRight == Spec => []RestartShowsTheList
<1>1. IInv => RestartShowsTheList
  BY DEF IInv
<1> QED
  BY <1>1, Inductive, PTL

(* An address that is no longer watched does not come back from the file.   *)
THEOREM WatchFileIsRight == Spec => []WatchFileIsSuffix
<1>1. IInv => WatchFileIsSuffix
  BY DEF IInv
<1> QED
  BY <1>1, Inductive, PTL

(* No step brings back the file of a private key that was deleted: the only *)
(* steps that create a file are those of a call on a listed wallet, and of  *)
(* addAccounts(), which wants an HD wallet.                                 *)
THEOREM DeletedStays == Spec => DeletedKeyStaysDeleted
<1>1. ASSUME IInv, [Next]_vars, NEW f \in Files, key[f] # NoKey, ~IsHD(key[f]),
             f \notin wallets, disk[f] = NoFile
      PROVE  disk'[f] = NoFile
  <2>1. CASE disk' = disk
    BY <1>1, <2>1
  <2>2. ASSUME NEW p \in Paths, NEW c, p # f, disk' = [disk EXCEPT ![p] = c]
        PROVE  disk'[f] = NoFile
    <3>1. f \in Paths
      BY DEF Paths
    <3> QED
      BY <1>1, <2>2, <3>1, DiskStep DEF IInv
  <2>3. ASSUME NEW p \in todo, pc \in {"open", "write"}
        PROVE  p \in Paths /\ p # f
    BY <1>1, <2>3 DEF IInv, TypeOK, Working
  <2>4. CASE Open
    BY <2>1, <2>2, <2>3, <2>4 DEF Open
  <2>5. CASE Write
    BY <2>1, <2>2, <2>3, <2>5 DEF Write
  <2>6. ASSUME NEW p \in Paths, disk' = [disk EXCEPT ![p] = NoFile]
        PROVE  disk'[f] = NoFile
    <3>1. f \in Paths
      BY DEF Paths
    <3> QED
      BY <1>1, <2>6, <3>1, DiskStep DEF IInv
  <2>7. todo \subseteq Paths
    BY <1>1 DEF IInv, TypeOK
  <2>8. CASE RemoveItem
    BY <2>1, <2>6, <2>7, <2>8 DEF RemoveItem
  <2>9. CASE DestroyNext
    BY <2>1, <2>6, <2>7, <2>9 DEF DestroyNext
  <2>10. CASE Crash \/ LoadFails \/ Load \/ Destroy \/ DestroyEnds \/ UNCHANGED vars
    BY <2>1, <2>10 DEF Crash, Die, LoadFails, Load, Destroy, DestroyEnds, vars
  <2>11. CASE New
    BY <2>1, <2>11
       DEF New, CreateWallet, ImportJSON, ImportMnemonic, ImportPrivateKey, Add
  <2>12. CASE OnWallet
    <3>1. PICK g \in Files, pw \in Passwords :
              \/ \E coins \in SUBSET Coins :
                    AddAccounts(g, pw, coins) \/ RemoveAccounts(g, pw, coins)
              \/ \E coin \in Coins : GetAccount(g, pw, coin)
              \/ \E new \in Passwords : Update(g, pw, new)
              \/ Delete(g, pw)
      BY <2>12 DEF OnWallet
    <3>2. ASSUME NEW coins \in SUBSET Coins, AddAccounts(g, pw, coins)
          PROVE  disk' = disk
      BY <3>2 DEF AddAccounts, Missing, Die, Rejected, vars, Save
    <3>3. ASSUME NEW coins \in SUBSET Coins, RemoveAccounts(g, pw, coins)
          PROVE  disk' = disk
      BY <3>3 DEF RemoveAccounts, Missing, Die, Rejected, vars, Save
    <3>4. ASSUME NEW coin \in Coins, GetAccount(g, pw, coin)
          PROVE  disk' = disk
      BY <3>4 DEF GetAccount
    <3>5. ASSUME NEW new \in Passwords, Update(g, pw, new)
          PROVE  disk' = disk
      BY <3>5 DEF Update, Missing, Die, Rejected, vars, Save
    <3>6. ASSUME Delete(g, pw)
          PROVE  disk' = disk
      BY <3>6 DEF Delete, Missing, Die, Rejected, vars
    <3> QED
      BY <2>1, <3>1, <3>2, <3>3, <3>4, <3>5, <3>6
  <2>13. CASE OnWatches
    BY <2>1, <2>13 DEF OnWatches, Watch, RemoveWatch, WriteWatches
  <2> QED
    BY <1>1, <2>4, <2>5, <2>8, <2>9, <2>10, <2>11, <2>12, <2>13 DEF Next, OnDisk
<1> DEFINE Step == \A f \in Files :
                       /\ key[f] # NoKey
                       /\ ~IsHD(key[f])
                       /\ f \notin wallets
                       /\ disk[f] = NoFile
                       => disk'[f] = NoFile
<1>2. IInv /\ [Next]_vars => [Step]_vars
  BY <1>1
<1>3. DeletedKeyStaysDeleted <=> [][Step]_vars
  BY DEF DeletedKeyStaysDeleted
<1> QED
  BY <1>2, <1>3, Inductive, PTL DEF Spec
================================================================================
