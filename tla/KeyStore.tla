------------------------------ MODULE KeyStore ------------------------------
(***************************************************************************)
(* type KeyStore of pkg/crypto/keystore.go, as WalletService of            *)
(* pkg/api/wallet_service.go drives it.                                    *)
(*                                                                         *)
(* A key lives in a file, <name>.key, and in a map in memory.  Creating    *)
(* one looks the name up under the read lock, lets go of the lock, writes  *)
(* the file and enters the key under the write lock; every call of the API *)
(* runs in a thread of its own, so all of this interleaves.  WriteFile     *)
(* truncates the file and then writes it, through a descriptor that        *)
(* outlives the removal of the file.  The process may end between any two  *)
(* steps; the next one loads the files that are complete.                  *)
(*                                                                         *)
(* A key stands for its key pair and for its encrypted form: salt, nonce,  *)
(* cipher and password are left out, callers give the right password.      *)
(***************************************************************************)
EXTENDS Naturals, FiniteSets

CONSTANTS
    Thread,     \* concurrent calls of the wallet service
    Name,       \* names of keys
    Key,        \* key pairs
    Imported,   \* those a client brings along; the others are generated
    NoKey,      \* no entry in the map, no call's key
    NoFile,     \* the file does not exist
    Empty,      \* it has been truncated
    Garbled,    \* it ends in the rest of a longer one: not JSON
    MaxRestarts \* bound on the restarts of the process

ASSUME KeyStoreAssumption ==
    /\ Imported \subseteq Key
    /\ {NoKey, NoFile, Empty, Garbled} \cap Key = {}
    /\ NoFile # Empty /\ NoFile # Garbled /\ Empty # Garbled
    /\ MaxRestarts \in Nat

VARIABLES
    files,      \* files[n]: what <n>.key contains
    keys,       \* the map ks.keys
    calls,      \* calls[t]: the step of thread t, the name and the key it is about
    linked,     \* threads whose open descriptor is the file the directory names
    used,       \* keys that have been generated
    owed,       \* owed[n]: the key whose creation was acknowledged last
    contested,  \* contested[n]: two calls about n have overlapped
    restarts

vars == <<files, keys, calls, linked, used, owed, contested, restarts>>

Idle == [step |-> "idle"]

Call == [step : {"checked", "writing", "written", "verified"}, name : Name, key : Key]

TypeOK ==
    /\ files \in [Name -> Key \cup {NoFile, Empty, Garbled}]
    /\ keys \in [Name -> Key \cup {NoKey}]
    /\ calls \in [Thread -> Call \cup {Idle}]
    /\ linked \subseteq {t \in Thread : calls[t].step = "writing"}
    /\ used \subseteq Key \ Imported
    /\ owed \in [Name -> Key \cup {NoKey}]
    /\ contested \in [Name -> BOOLEAN]
    /\ restarts \in 0 .. MaxRestarts

(* A directory without keys; restarts lead to every other one.             *)
Init ==
    /\ files = [n \in Name |-> NoFile]
    /\ keys = [n \in Name |-> NoKey]
    /\ calls = [t \in Thread |-> Idle]
    /\ linked = {}
    /\ used = {}
    /\ owed = keys
    /\ contested = [n \in Name |-> FALSE]
    /\ restarts = 0

----------------------------------------------------------------------------
(***************************************************************************)
(* An operator named ...Bug is a plausible mistake in the definition that  *)
(* follows it.                                                             *)
(***************************************************************************)
Working(n) == {t \in Thread : calls[t].step # "idle" /\ calls[t].name = n}

(* What loadKeyFile returns and validateKeyFile accepts.                   *)
Load(n) == IF files[n] \in Key THEN files[n] ELSE NoKey

At(t, step) == calls[t].step = step

Goto(t, step) == calls' = [calls EXCEPT ![t].step = step]

Return(t) == calls' = [calls EXCEPT ![t] = Idle]

Enter(t, step, n, k) ==
    /\ calls' = [calls EXCEPT ![t] = [step |-> step, name |-> n, key |-> k]]
    /\ contested' = [contested EXCEPT ![n] = @ \/ Working(n) # {}]

FreeBug(n) == TRUE

Free(n) == keys[n] = NoKey

(* The look-up under the read lock, and the key pair made after it.        *)
Create(t, n, k) ==
    /\ At(t, "idle")
    /\ Free(n)
    /\ Enter(t, "checked", n, k)
    /\ UNCHANGED <<files, keys, linked, owed, restarts>>

GenerateKey(t, n) ==
    \E k \in Key \ (Imported \cup used) : Create(t, n, k) /\ used' = used \cup {k}

ImportKey(t, n) ==
    \E k \in Imported : Create(t, n, k) /\ UNCHANGED used

(* saveKeyFile: WriteFile opens the file and truncates it, ...             *)
Truncate(t) ==
    /\ At(t, "checked")
    /\ Goto(t, "writing")
    /\ files' = [files EXCEPT ![calls[t].name] = Empty]
    /\ linked' = linked \cup {t}
    /\ UNCHANGED <<keys, used, owed, contested, restarts>>

(* ... and writes it from the start, over what another thread has written  *)
(* there; nothing is left of a file that was removed in between.           *)
Overwrite(t) ==
    LET old == files[calls[t].name]
    IN  CASE t \notin linked -> {old}
          [] t \in linked /\ old = Empty -> {calls[t].key}
          [] OTHER -> {calls[t].key, Garbled}

Write(t) ==
    /\ At(t, "writing")
    /\ Goto(t, "written")
    /\ \E c \in Overwrite(t) : files' = [files EXCEPT ![calls[t].name] = c]
    /\ linked' = linked \ {t}
    /\ UNCHANGED <<keys, used, owed, contested, restarts>>

(* The file cannot be opened, or the disk is full: the call fails.         *)
WriteFails(t) ==
    /\ At(t, "checked") \/ At(t, "writing")
    /\ Return(t)
    /\ linked' = linked \ {t}
    /\ UNCHANGED <<files, keys, used, owed, contested, restarts>>

(* The key is entered under the write lock and the caller told of it.      *)
Insert(t) ==
    LET n == calls[t].name
    IN  /\ At(t, "written")
        /\ Return(t)
        /\ keys' = [keys EXCEPT ![n] = calls[t].key]
        /\ owed' = [owed EXCEPT ![n] = calls[t].key]
        /\ UNCHANGED <<files, linked, used, contested, restarts>>

(* WalletService.DeleteKey reads the file with the caller's password ...   *)
Verify(t, n) ==
    /\ At(t, "idle")
    /\ files[n] \in Key
    /\ Enter(t, "verified", n, files[n])
    /\ UNCHANGED <<files, keys, linked, used, owed, restarts>>

ForgetOnlyBug(t) ==
    LET n == calls[t].name
    IN  /\ At(t, "verified")
        /\ keys[n] # NoKey
        /\ Return(t)
        /\ keys' = [keys EXCEPT ![n] = NoKey]
        /\ owed' = [owed EXCEPT ![n] = NoKey]
        /\ UNCHANGED <<files, linked, used, contested, restarts>>

(* ... and KeyStore.DeleteKey removes it and the entry under the write     *)
(* lock, whatever they are by now.                                         *)
Remove(t) ==
    LET n == calls[t].name
    IN  /\ At(t, "verified")
        /\ keys[n] # NoKey
        /\ Return(t)
        /\ files' = [files EXCEPT ![n] = NoFile]
        /\ keys' = [keys EXCEPT ![n] = NoKey]
        /\ owed' = [owed EXCEPT ![n] = NoKey]
        /\ linked' = linked \ Working(n)
        /\ UNCHANGED <<used, contested, restarts>>

(* The entry is not there, or the file cannot be removed.                  *)
RemoveFails(t) ==
    /\ At(t, "verified")
    /\ Return(t)
    /\ UNCHANGED <<files, keys, linked, used, owed, contested, restarts>>

(* The process ends, and NewKeyStore of the next one loads the directory.  *)
Restart ==
    /\ restarts < MaxRestarts
    /\ restarts' = restarts + 1
    /\ keys' = [n \in Name |-> Load(n)]
    /\ calls' = [t \in Thread |-> Idle]
    /\ linked' = {}
    /\ owed' = [n \in Name |-> IF contested[n] \/ owed[n] = NoKey THEN Load(n) ELSE owed[n]]
    /\ contested' = [n \in Name |-> FALSE]
    /\ UNCHANGED <<files, used>>

Next ==
    \/ \E t \in Thread :
        \/ \E n \in Name : GenerateKey(t, n) \/ ImportKey(t, n) \/ Verify(t, n)
        \/ Truncate(t) \/ Write(t) \/ WriteFails(t) \/ Insert(t)
        \/ Remove(t) \/ RemoveFails(t)
    \/ Restart

Spec == Init /\ [][Next]_vars

----------------------------------------------------------------------------
(***************************************************************************)
(* Properties.                                                             *)
(***************************************************************************)

(* When no call about a name is running, and none has overlapped another,  *)
(* the map has a key under the name exactly when the directory has its     *)
(* complete file: a call that fails half-way leaves nothing that the next  *)
(* start would load, and what was deleted does not come back.              *)
MapMatchesDirectory ==
    \A n \in Name : ~contested[n] /\ Working(n) = {} => keys[n] = Load(n)

(* A key whose creation was acknowledged is in its file, complete, until   *)
(* it is deleted: no later call and no crash in the middle of one          *)
(* truncates or replaces it, unless calls about the name have overlapped.  *)
AckedKeysSurvive ==
    \A n \in Name : ~contested[n] /\ owed[n] # NoKey => files[n] = owed[n]

(***************************************************************************)
(* What a comment says, and the code does not do.                          *)
(***************************************************************************)

(* "Check if key already exists": of the calls that create a key of one    *)
(* name at most one is past the check.                                     *)
CreatedOnce ==
    \A t, u \in Thread :
        /\ calls[t].step \in {"checked", "writing", "written"}
        /\ calls[u].step \in {"checked", "writing", "written"}
        /\ calls[t].name = calls[u].name
        => t = u

=============================================================================
