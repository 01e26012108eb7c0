--------------------------- MODULE KeyStoreProofs ---------------------------
(***************************************************************************)
(* Theorems about KeyStore for any number of threads, names, keys and      *)
(* restarts.                                                               *)
(***************************************************************************)
EXTENDS KeyStore, TLAPS

----------------------------------------------------------------------------
(***************************************************************************)
(* Calls in flight.                                                        *)
(***************************************************************************)

(* A call in flight is a record of the four steps.                         *)
LEMMA CallTyped ==
    ASSUME TypeOK, NEW t \in Thread, calls[t].step # "idle"
    PROVE  calls[t] \in Call
  BY DEF TypeOK, Idle

(* A thread that is at a step other than "idle" has a call in flight.      *)
LEMMA GotoTyped ==
    ASSUME TypeOK, NEW t \in Thread, calls[t].step # "idle",
           NEW step \in {"checked", "writing", "written", "verified"}, Goto(t, step)
    PROVE  /\ calls' \in [Thread -> Call \cup {Idle}]
           /\ calls'[t] = [step |-> step, name |-> calls[t].name, key |-> calls[t].key]
           /\ \A u \in Thread \ {t} : calls'[u] = calls[u]
           /\ \A n \in Name : Working(n)' = Working(n)
  <1>1. calls[t] \in Call
    BY CallTyped
  <1>2. calls'[t] = [step |-> step, name |-> calls[t].name, key |-> calls[t].key]
    BY <1>1 DEF TypeOK, Goto, Call
  <1>3. \A u \in Thread \ {t} : calls'[u] = calls[u]
    BY DEF TypeOK, Goto
  <1>4. calls' \in [Thread -> Call \cup {Idle}]
    <2>1. calls'[t] \in Call
      BY <1>1, <1>2 DEF Call
    <2>2. \A u \in Thread : calls'[u] \in Call \cup {Idle}
      BY <1>3, <2>1 DEF TypeOK
    <2>3. QED
      BY <2>2 DEF TypeOK, Goto
  <1>5. \A u \in Thread : /\ calls'[u].step # "idle" <=> calls[u].step # "idle"
                          /\ calls'[u].step # "idle" => calls'[u].name = calls[u].name
    BY <1>2, <1>3
  <1>6. \A n \in Name : Working(n)' = Working(n)
    BY <1>5 DEF Working
  <1>7. QED
    BY <1>2, <1>3, <1>4, <1>6

(* A thread that returns has no call in flight any more.                   *)
LEMMA ReturnTyped ==
    ASSUME TypeOK, NEW t \in Thread, Return(t)
    PROVE  /\ calls' \in [Thread -> Call \cup {Idle}]
           /\ \A u \in Thread \ {t} : calls'[u] = calls[u]
           /\ \A n \in Name : Working(n)' = Working(n) \ {t}
  <1>1. \A u \in Thread \ {t} : calls'[u] = calls[u]
    BY DEF TypeOK, Return
  <1>2. calls'[t].step = "idle"
    BY DEF TypeOK, Return, Idle
  <1>3. calls' \in [Thread -> Call \cup {Idle}]
    BY DEF TypeOK, Return
  <1>4. \A n \in Name : Working(n)' = Working(n) \ {t}
    BY <1>1, <1>2 DEF Working
  <1>5. QED
    BY <1>1, <1>3, <1>4

(* A new call; that it meets another one of its name is noted.             *)
LEMMA EnterTyped ==
    ASSUME TypeOK, NEW t \in Thread, calls[t].step = "idle", NEW n \in Name, NEW k \in Key,
           NEW step \in {"checked", "writing", "written", "verified"}, Enter(t, step, n, k)
    PROVE  /\ calls' \in [Thread -> Call \cup {Idle}]
           /\ calls'[t] = [step |-> step, name |-> n, key |-> k]
           /\ \A u \in Thread \ {t} : calls'[u] = calls[u]
           /\ Working(n)' = Working(n) \cup {t}
           /\ \A m \in Name \ {n} : Working(m)' = Working(m)
           /\ contested' \in [Name -> BOOLEAN]
           /\ ~contested'[n] => ~contested[n] /\ Working(n) = {}
           /\ \A m \in Name \ {n} : contested'[m] = contested[m]
  <1>1. calls'[t] = [step |-> step, name |-> n, key |-> k]
    BY DEF TypeOK, Enter
  <1>2. \A u \in Thread \ {t} : calls'[u] = calls[u]
    BY DEF TypeOK, Enter
  <1>3. calls' \in [Thread -> Call \cup {Idle}]
    <2>1. [step |-> step, name |-> n, key |-> k] \in Call
      BY DEF Call
    <2>2. QED
      BY <2>1 DEF TypeOK, Enter
  <1>4. Working(n)' = Working(n) \cup {t}
    BY <1>1, <1>2 DEF Working
  <1>5. \A m \in Name \ {n} : Working(m)' = Working(m)
    BY <1>1, <1>2 DEF Working
  <1>6. /\ contested' \in [Name -> BOOLEAN]
        /\ contested'[n] = (contested[n] \/ Working(n) # {})
        /\ \A m \in Name \ {n} : contested'[m] = contested[m]
    BY DEF TypeOK, Enter
  <1>7. QED
    BY <1>1, <1>2, <1>3, <1>4, <1>5, <1>6

----------------------------------------------------------------------------
(***************************************************************************)
(* Types.                                                                  *)
(***************************************************************************)

(* What may be written over a file is the key of the call, what was there  *)
(* or garbage.                                                             *)
LEMMA OverwriteTyped ==
    ASSUME TypeOK, NEW t \in Thread, calls[t].step # "idle", NEW c \in Overwrite(t)
    PROVE  c \in Key \cup {NoFile, Empty, Garbled}
  <1>1. calls[t] \in Call
    BY CallTyped
  <1>2. calls[t].name \in Name /\ calls[t].key \in Key
    BY <1>1 DEF Call
  <1>3. QED
    BY <1>2 DEF Overwrite, TypeOK

(* The empty directory is typed.                                           *)
LEMMA TypeInit == ASSUME Init PROVE TypeOK
  BY KeyStoreAssumption DEF Init, TypeOK, Idle

(* Every step keeps the types.                                             *)
LEMMA TypeStep == ASSUME TypeOK, [Next]_vars PROVE TypeOK'
  <1> USE DEF TypeOK
  <1>1. ASSUME NEW t \in Thread, NEW n \in Name, NEW k \in Key, Create(t, n, k)
        PROVE  /\ calls' \in [Thread -> Call \cup {Idle}]
               /\ linked' \subseteq {u \in Thread : calls'[u].step = "writing"}
               /\ files' = files /\ keys' = keys /\ owed' = owed /\ restarts' = restarts
               /\ contested' \in [Name -> BOOLEAN]
    <2>1. calls[t].step = "idle" /\ Enter(t, "checked", n, k) /\ linked' = linked
      BY <1>1 DEF Create, At
    <2>2. /\ calls' \in [Thread -> Call \cup {Idle}]
          /\ contested' \in [Name -> BOOLEAN]
          /\ \A u \in Thread \ {t} : calls'[u] = calls[u]
      BY <2>1, EnterTyped
    <2>3. linked' \subseteq {u \in Thread : calls'[u].step = "writing"}
      BY <2>1, <2>2
    <2>4. QED
      BY <1>1, <2>2, <2>3 DEF Create
  <1>2. ASSUME NEW t \in Thread, NEW n \in Name, GenerateKey(t, n) PROVE TypeOK'
    <2>1. PICK k \in Key \ (Imported \cup used) : Create(t, n, k) /\ used' = used \cup {k}
      BY <1>2 DEF GenerateKey
    <2>2. QED
      BY <1>1, <2>1
  <1>3. ASSUME NEW t \in Thread, NEW n \in Name, ImportKey(t, n) PROVE TypeOK'
    <2>1. PICK k \in Imported : Create(t, n, k) /\ used' = used
      BY <1>3 DEF ImportKey
    <2>2. QED
      BY <1>1, <2>1, KeyStoreAssumption
  <1>4. ASSUME NEW t \in Thread, NEW n \in Name, Verify(t, n) PROVE TypeOK'
    <2>1. files[n] \in Key /\ calls[t].step = "idle" /\ Enter(t, "verified", n, files[n])
      BY <1>4 DEF Verify, At
    <2>2. /\ calls' \in [Thread -> Call \cup {Idle}]
          /\ contested' \in [Name -> BOOLEAN]
          /\ \A u \in Thread \ {t} : calls'[u] = calls[u]
      BY <2>1, EnterTyped
    <2>3. QED
      BY <1>4, <2>1, <2>2 DEF Verify
  <1>5. ASSUME NEW t \in Thread, Truncate(t) PROVE TypeOK'
    <2>1. calls[t].step # "idle" /\ Goto(t, "writing")
      BY <1>5 DEF Truncate, At
    <2>2. calls[t] \in Call
      BY <2>1, CallTyped
    <2>3. /\ calls' \in [Thread -> Call \cup {Idle}]
          /\ calls'[t].step = "writing"
          /\ \A u \in Thread \ {t} : calls'[u] = calls[u]
      <3> HIDE DEF TypeOK
      <3>1. calls'[t] = [step |-> "writing", name |-> calls[t].name, key |-> calls[t].key]
        BY <2>1, GotoTyped
      <3>2. calls' \in [Thread -> Call \cup {Idle}] /\ \A u \in Thread \ {t} : calls'[u] = calls[u]
        BY <2>1, GotoTyped
      <3>3. QED
        BY <3>1, <3>2
    <2>4. linked' \subseteq {u \in Thread : calls'[u].step = "writing"}
      BY <1>5, <2>3 DEF Truncate
    <2>5. files' \in [Name -> Key \cup {NoFile, Empty, Garbled}]
      BY <1>5, <2>2 DEF Truncate, Call
    <2>6. QED
      BY <1>5, <2>3, <2>4, <2>5 DEF Truncate
  <1>6. ASSUME NEW t \in Thread, Write(t) PROVE TypeOK'
    <2>1. calls[t].step # "idle" /\ Goto(t, "written")
      BY <1>6 DEF Write, At
    <2>2. calls[t] \in Call
      BY <2>1, CallTyped
    <2>3. files' \in [Name -> Key \cup {NoFile, Empty, Garbled}]
      BY <1>6, <2>1, <2>2, OverwriteTyped DEF Write, Call
    <2>4. linked' \subseteq {u \in Thread : calls'[u].step = "writing"}
      <3>1. linked' = linked \ {t} /\ linked \subseteq {u \in Thread : calls[u].step = "writing"}
        BY <1>6 DEF Write, TypeOK
      <3>2. \A u \in Thread \ {t} : calls'[u] = calls[u]
        <4> HIDE DEF TypeOK
        <4>1. QED
          BY <2>1, GotoTyped
      <3> HIDE DEF TypeOK
      <3>3. QED
        BY <3>1, <3>2
    <2>5. QED
      BY <1>6, <2>1, <2>3, <2>4, GotoTyped DEF Write
  <1>7. ASSUME NEW t \in Thread, WriteFails(t) PROVE TypeOK'
    BY <1>7, ReturnTyped DEF WriteFails
  <1>8. ASSUME NEW t \in Thread, Insert(t) PROVE TypeOK'
    <2>1. calls[t] \in Call
      BY <1>8, CallTyped DEF Insert, At
    <2>2. calls[t].name \in Name /\ calls[t].key \in Key
      BY <2>1 DEF Call
    <2>3. linked' \subseteq {u \in Thread : calls'[u].step = "writing"}
      BY <1>8, ReturnTyped DEF Insert, At
    <2>4. QED
      BY <1>8, <2>2, <2>3, ReturnTyped DEF Insert
  <1>9. ASSUME NEW t \in Thread, Remove(t) PROVE TypeOK'
    <2>1. linked' \subseteq {u \in Thread : calls'[u].step = "writing"}
      BY <1>9, ReturnTyped DEF Remove, At
    <2>2. QED
      BY <1>9, <2>1, ReturnTyped DEF Remove
  <1>10. ASSUME NEW t \in Thread, RemoveFails(t) PROVE TypeOK'
    <2>1. linked' \subseteq {u \in Thread : calls'[u].step = "writing"}
      BY <1>10, ReturnTyped DEF RemoveFails, At
    <2>2. QED
      BY <1>10, <2>1, ReturnTyped DEF RemoveFails
  <1>11. CASE Restart
    <2>1. \A n \in Name : Load(n) \in Key \cup {NoKey}
      BY DEF Load
    <2>2. QED
      BY <1>11, <2>1, KeyStoreAssumption DEF Restart
  <1>12. CASE UNCHANGED vars
    BY <1>12 DEF vars
  <1>13. QED
    BY <1>2, <1>3, <1>4, <1>5, <1>6, <1>7, <1>8, <1>9, <1>10, <1>11, <1>12 DEF Next

(* Every variable keeps its type.                                          *)
THEOREM TypeCorrect == Spec => []TypeOK
  BY TypeInit, TypeStep, PTL DEF Spec

----------------------------------------------------------------------------
(***************************************************************************)
(* Names without overlapping calls.                                        *)
(***************************************************************************)

(* What the call of t, the only one about n, has made of the file and what *)
(* it has left of the entry.                                               *)
Stage(t, n) ==
    /\ calls[t].step = "checked" => keys[n] = NoKey /\ files[n] \notin Key
    /\ calls[t].step = "writing" => keys[n] = NoKey /\ files[n] = Empty /\ t \in linked
    /\ calls[t].step = "written" => keys[n] = NoKey /\ files[n] = calls[t].key
    /\ calls[t].step = "verified" => keys[n] = calls[t].key /\ files[n] = calls[t].key

Sound(n) ==
    ~contested[n] =>
        /\ \A t, u \in Working(n) : t = u
        /\ \A t \in Working(n) : Stage(t, n)
        /\ Working(n) = {} => keys[n] = Load(n)
        /\ owed[n] # NoKey => keys[n] = owed[n] /\ files[n] = owed[n]

(* The inductive invariant.                                                *)
IInv == TypeOK /\ \A n \in Name : Sound(n)

(* A step about one name does not disturb another.                         *)
LEMMA Elsewhere ==
    ASSUME NEW n \in Name, Sound(n), Working(n)' = Working(n),
           \A u \in Working(n) : calls'[u] = calls[u] /\ (u \in linked => u \in linked'),
           files'[n] = files[n], keys'[n] = keys[n], owed'[n] = owed[n],
           contested'[n] = contested[n]
    PROVE  Sound(n)'
  <1>1. Load(n)' = Load(n)
    BY DEF Load
  <1>2. \A u \in Working(n) : Stage(u, n) => Stage(u, n)'
    BY DEF Stage
  <1>3. QED
    BY <1>1, <1>2 DEF Sound

(* The empty directory agrees with the empty map.                          *)
LEMMA SoundInit == ASSUME Init PROVE IInv
  <1>1. \A n \in Name : Working(n) = {}
    BY DEF Init, Working, Idle
  <1>2. \A n \in Name : files[n] = NoFile /\ keys[n] = NoKey /\ owed[n] = NoKey
    BY DEF Init
  <1>3. \A n \in Name : Load(n) = NoKey
    BY <1>2, KeyStoreAssumption DEF Load
  <1>4. QED
    BY <1>1, <1>2, <1>3, TypeInit DEF IInv, Sound

(* The check finds no entry, and hence no complete file.                   *)
LEMMA CreateKeepsSound ==
    ASSUME IInv, NEW t \in Thread, NEW m \in Name, NEW k \in Key, Create(t, m, k)
    PROVE  \A n \in Name : Sound(n)'
  <1>1. /\ TypeOK /\ calls[t].step = "idle" /\ Enter(t, "checked", m, k)
        /\ files' = files /\ keys' = keys /\ owed' = owed /\ linked' = linked
        /\ keys[m] = NoKey
    BY DEF IInv, Create, At, Free
  <1>2. /\ calls'[t] = [step |-> "checked", name |-> m, key |-> k]
        /\ \A u \in Thread \ {t} : calls'[u] = calls[u]
        /\ Working(m)' = Working(m) \cup {t}
        /\ \A n \in Name \ {m} : Working(n)' = Working(n) /\ contested'[n] = contested[n]
        /\ ~contested'[m] => ~contested[m] /\ Working(m) = {}
    BY <1>1, EnterTyped
  <1>3. ASSUME NEW n \in Name \ {m} PROVE Sound(n)'
    <2>1. \A u \in Working(n) : calls'[u] = calls[u]
      BY <1>1, <1>2 DEF Working
    <2>2. Sound(n)
      BY DEF IInv
    <2>3. QED
      BY <1>1, <1>2, <2>1, <2>2, Elsewhere
  <1>4. ASSUME ~contested'[m] PROVE Sound(m)'
    <2>1. Working(m)' = {t} /\ keys[m] = Load(m)
      BY <1>2, <1>4 DEF IInv, Sound
    <2>2. files[m] \notin Key
      BY <1>1, <2>1, KeyStoreAssumption DEF Load
    <2>3. Stage(t, m)'
      BY <1>1, <1>2, <2>2 DEF Stage
    <2>4. owed[m] = NoKey
      BY <1>1, <1>2, <1>4 DEF IInv, Sound
    <2>5. QED
      BY <1>1, <2>1, <2>3, <2>4 DEF Sound
  <1>5. QED
    BY <1>3, <1>4 DEF Sound

(* The file is complete, and hence the entry is the same key.              *)
LEMMA VerifyKeepsSound ==
    ASSUME IInv, NEW t \in Thread, NEW m \in Name, Verify(t, m)
    PROVE  \A n \in Name : Sound(n)'
  <1> DEFINE k == files[m]
  <1>1. /\ TypeOK /\ calls[t].step = "idle" /\ k \in Key /\ Enter(t, "verified", m, k)
        /\ files' = files /\ keys' = keys /\ owed' = owed /\ linked' = linked
    BY DEF IInv, Verify, At
  <1>2. /\ calls'[t] = [step |-> "verified", name |-> m, key |-> k]
        /\ \A u \in Thread \ {t} : calls'[u] = calls[u]
        /\ Working(m)' = Working(m) \cup {t}
        /\ \A n \in Name \ {m} : Working(n)' = Working(n) /\ contested'[n] = contested[n]
        /\ ~contested'[m] => ~contested[m] /\ Working(m) = {}
    <2> HIDE DEF k
    <2>1. QED
      BY <1>1, EnterTyped
  <1>3. ASSUME NEW n \in Name \ {m} PROVE Sound(n)'
    <2>1. \A u \in Working(n) : calls'[u] = calls[u]
      BY <1>1, <1>2 DEF Working
    <2>2. Sound(n)
      BY DEF IInv
    <2>3. QED
      BY <1>1, <1>2, <2>1, <2>2, Elsewhere
  <1>4. ASSUME ~contested'[m] PROVE Sound(m)'
    <2>1. Working(m)' = {t} /\ keys[m] = Load(m)
      BY <1>2, <1>4 DEF IInv, Sound
    <2>2. keys[m] = k
      BY <1>1, <2>1 DEF Load
    <2>3. Stage(t, m)'
      BY <1>1, <1>2, <2>2 DEF Stage
    <2>4. owed[m] # NoKey => keys[m] = owed[m] /\ files[m] = owed[m]
      BY <1>2, <1>4 DEF IInv, Sound
    <2>5. QED
      BY <1>1, <2>1, <2>3, <2>4 DEF Sound
  <1>5. QED
    BY <1>3, <1>4 DEF Sound

(* For a step in the middle of a call: what is to be shown of its name     *)
(* alone, if no other call is about it.                                    *)
LEMMA OnlyItsName ==
    ASSUME IInv, NEW t \in Thread, calls[t].step # "idle",
           NEW m \in Name, calls[t].name = m,
           Return(t) \/ \E step \in {"writing", "written"} : Goto(t, step),
           contested' = contested,
           \A n \in Name \ {m} :
               files'[n] = files[n] /\ keys'[n] = keys[n] /\ owed'[n] = owed[n],
           linked \ Working(m) \subseteq linked',
           ~contested[m] /\ Stage(t, m) /\ Working(m) = {t} => Sound(m)'
    PROVE  \A n \in Name : Sound(n)'
  <1>1. TypeOK
    BY DEF IInv
  <1>2. t \in Working(m)
    BY DEF Working
  <1>3. /\ \A u \in Thread \ {t} : calls'[u] = calls[u]
        /\ \A n \in Name : Working(n)' \in {Working(n), Working(n) \ {t}}
    <2>1. CASE Return(t)
      BY <1>1, <2>1, ReturnTyped
    <2>2. ASSUME NEW step \in {"writing", "written"}, Goto(t, step)
          PROVE  /\ \A u \in Thread \ {t} : calls'[u] = calls[u]
                 /\ \A n \in Name : Working(n)' = Working(n)
      <3>1. step \in {"checked", "writing", "written", "verified"}
        OBVIOUS
      <3>2. QED
        BY <1>1, <2>2, <3>1, GotoTyped
    <2>3. QED
      BY <2>1, <2>2
  <1>4. ASSUME NEW n \in Name \ {m} PROVE Sound(n)'
    <2>1. t \notin Working(n) /\ Working(n) \cap Working(m) = {} /\ Working(n) \subseteq Thread
      BY <1>4 DEF Working
    <2>2. Working(n)' = Working(n)
      BY <1>3, <2>1
    <2>3. \A u \in Working(n) : calls'[u] = calls[u] /\ (u \in linked => u \in linked')
      BY <1>3, <2>1
    <2>4. Sound(n)
      BY DEF IInv
    <2>5. QED
      BY <2>2, <2>3, <2>4, Elsewhere
  <1>5. ASSUME ~contested'[m] PROVE Sound(m)'
    <2>1. Sound(m) /\ ~contested[m]
      BY <1>2, <1>5 DEF IInv
    <2>2. Working(m) = {t} /\ Stage(t, m)
      BY <1>2, <2>1 DEF Sound
    <2>3. QED
      BY <2>1, <2>2
  <1>6. QED
    BY <1>4, <1>5 DEF Sound

(* The steps in the middle of a call.                                      *)
LEMMA StepKeepsSound ==
    ASSUME IInv, NEW t \in Thread,
           Truncate(t) \/ Write(t) \/ WriteFails(t) \/ Insert(t) \/ Remove(t) \/ RemoveFails(t)
    PROVE  \A n \in Name : Sound(n)'
  <1>1. TypeOK /\ calls[t].step # "idle" /\ calls[t] \in Call
    BY CallTyped DEF IInv, Truncate, Write, WriteFails, Insert, Remove, RemoveFails, At
  <1>2. PICK m \in Name, k \in Key : calls[t].name = m /\ calls[t].key = k
    BY <1>1 DEF Call
  <1> SUFFICES /\ Return(t) \/ \E step \in {"writing", "written"} : Goto(t, step)
               /\ contested' = contested
               /\ \A n \in Name \ {m} :
                      files'[n] = files[n] /\ keys'[n] = keys[n] /\ owed'[n] = owed[n]
               /\ linked \ Working(m) \subseteq linked'
               /\ ~contested[m] /\ Stage(t, m) /\ Working(m) = {t} => Sound(m)'
    BY <1>1, <1>2, OnlyItsName
  <1>3. t \in Working(m)
    BY <1>1, <1>2 DEF Working
  <1>4. Sound(m)
    BY <1>2 DEF IInv
  <1>5. /\ Return(t) => Working(m)' = Working(m) \ {t}
        /\ Goto(t, "writing") \/ Goto(t, "written") => Working(m)' = Working(m)
    BY <1>1, <1>2, ReturnTyped, GotoTyped
  <1>6. /\ Goto(t, "writing") => calls'[t] = [step |-> "writing", name |-> m, key |-> k]
        /\ Goto(t, "written") => calls'[t] = [step |-> "written", name |-> m, key |-> k]
    BY <1>1, <1>2, GotoTyped
  <1>7. CASE Truncate(t)
    <2>1. /\ calls[t].step = "checked" /\ Goto(t, "writing") /\ contested' = contested
          /\ files' = [files EXCEPT ![m] = Empty] /\ linked' = linked \cup {t}
          /\ keys' = keys /\ owed' = owed
      BY <1>2, <1>7 DEF Truncate, At
    <2>2. files'[m] = Empty /\ \A n \in Name \ {m} : files'[n] = files[n]
      BY <1>1, <1>2, <2>1 DEF TypeOK
    <2>3. ASSUME ~contested[m], Stage(t, m), Working(m) = {t} PROVE Sound(m)'
      <3>1. keys[m] = NoKey /\ owed[m] = NoKey
        BY <1>4, <2>1, <2>3 DEF Stage, Sound
      <3>2. Stage(t, m)'
        BY <1>6, <2>1, <2>2, <3>1 DEF Stage
      <3>3. Working(m)' = {t}
        BY <1>5, <2>1, <2>3
      <3>4. QED
        BY <2>1, <3>1, <3>2, <3>3 DEF Sound
    <2>4. QED
      BY <2>1, <2>2, <2>3
  <1>8. CASE Write(t)
    <2>1. /\ calls[t].step = "writing" /\ Goto(t, "written") /\ contested' = contested
          /\ linked' = linked \ {t} /\ keys' = keys /\ owed' = owed
      BY <1>8 DEF Write, At
    <2>2. PICK c \in Overwrite(t) : files' = [files EXCEPT ![m] = c]
      BY <1>2, <1>8 DEF Write
    <2>3. files'[m] = c /\ \A n \in Name \ {m} : files'[n] = files[n]
      BY <1>1, <1>2, <2>2 DEF TypeOK
    <2>4. ASSUME ~contested[m], Stage(t, m), Working(m) = {t} PROVE Sound(m)'
      <3>1. keys[m] = NoKey /\ owed[m] = NoKey /\ files[m] = Empty /\ t \in linked
        BY <1>4, <2>1, <2>4 DEF Stage, Sound
      <3>2. c = k
        BY <1>2, <2>2, <3>1 DEF Overwrite
      <3>3. Stage(t, m)'
        BY <1>6, <2>1, <2>3, <3>1, <3>2 DEF Stage
      <3>4. Working(m)' = {t}
        BY <1>5, <2>1, <2>4
      <3>5. QED
        BY <2>1, <3>1, <3>3, <3>4 DEF Sound
    <2>5. QED
      BY <1>3, <2>1, <2>3, <2>4
  <1>9. CASE WriteFails(t)
    <2>1. /\ calls[t].step \in {"checked", "writing"} /\ Return(t) /\ contested' = contested
          /\ linked' = linked \ {t} /\ keys' = keys /\ owed' = owed /\ files' = files
      BY <1>9 DEF WriteFails, At
    <2>2. ASSUME ~contested[m], Stage(t, m), Working(m) = {t} PROVE Sound(m)'
      <3>1. keys[m] = NoKey /\ owed[m] = NoKey /\ files[m] \notin Key
        BY <1>4, <2>1, <2>2, KeyStoreAssumption DEF Stage, Sound
      <3>2. Load(m)' = NoKey
        BY <2>1, <3>1 DEF Load
      <3>3. Working(m)' = {}
        BY <1>5, <2>1, <2>2
      <3>4. QED
        BY <2>1, <3>1, <3>2, <3>3 DEF Sound
    <2>3. QED
      BY <1>3, <2>1, <2>2
  <1>10. CASE Insert(t)
    <2>1. /\ calls[t].step = "written" /\ Return(t) /\ contested' = contested
          /\ linked' = linked /\ files' = files
          /\ keys' = [keys EXCEPT ![m] = k] /\ owed' = [owed EXCEPT ![m] = k]
      BY <1>2, <1>10 DEF Insert, At
    <2>2. /\ keys'[m] = k /\ owed'[m] = k
          /\ \A n \in Name \ {m} : keys'[n] = keys[n] /\ owed'[n] = owed[n]
      BY <1>1, <1>2, <2>1 DEF TypeOK
    <2>3. ASSUME ~contested[m], Stage(t, m), Working(m) = {t} PROVE Sound(m)'
      <3>1. files'[m] = k
        BY <1>2, <2>1, <2>3 DEF Stage
      <3>2. Load(m)' = k
        BY <1>2, <3>1 DEF Load
      <3>3. Working(m)' = {}
        BY <1>5, <2>1, <2>3
      <3>4. QED
        BY <2>2, <3>1, <3>2, <3>3 DEF Sound
    <2>4. QED
      BY <2>1, <2>2, <2>3
  <1>11. CASE Remove(t)
    <2>1. /\ Return(t) /\ contested' = contested /\ linked' = linked \ Working(m)
          /\ files' = [files EXCEPT ![m] = NoFile]
          /\ keys' = [keys EXCEPT ![m] = NoKey] /\ owed' = [owed EXCEPT ![m] = NoKey]
      BY <1>2, <1>11 DEF Remove
    <2>2. /\ files'[m] = NoFile /\ keys'[m] = NoKey /\ owed'[m] = NoKey
          /\ \A n \in Name \ {m} :
                 files'[n] = files[n] /\ keys'[n] = keys[n] /\ owed'[n] = owed[n]
      BY <1>1, <1>2, <2>1 DEF TypeOK
    <2>3. ASSUME Working(m) = {t} PROVE Sound(m)'
      <3>1. Load(m)' = NoKey
        BY <2>2, KeyStoreAssumption DEF Load
      <3>2. Working(m)' = {}
        BY <1>5, <2>1, <2>3
      <3>3. QED
        BY <2>2, <3>1, <3>2 DEF Sound
    <2>4. QED
      BY <2>1, <2>2, <2>3
  <1>12. CASE RemoveFails(t)
    <2>1. /\ calls[t].step = "verified" /\ Return(t) /\ contested' = contested
          /\ linked' = linked /\ keys' = keys /\ owed' = owed /\ files' = files
      BY <1>12 DEF RemoveFails, At
    <2>2. ASSUME ~contested[m], Stage(t, m), Working(m) = {t} PROVE Sound(m)'
      <3>1. keys[m] = k /\ files[m] = k
        BY <1>2, <2>1, <2>2 DEF Stage
      <3>2. Load(m)' = keys[m]
        BY <1>2, <2>1, <3>1 DEF Load
      <3>3. owed[m] # NoKey => keys[m] = owed[m] /\ files[m] = owed[m]
        BY <1>4, <2>2 DEF Sound
      <3>4. Working(m)' = {}
        BY <1>5, <2>1, <2>2
      <3>5. QED
        BY <2>1, <3>2, <3>3, <3>4 DEF Sound
    <2>3. QED
      BY <2>1, <2>2
  <1>13. QED
    BY <1>7, <1>8, <1>9, <1>10, <1>11, <1>12

(* A new process has in its map what it finds, and nobody works yet.       *)
LEMMA RestartKeepsSound == ASSUME IInv, Restart PROVE \A n \in Name : Sound(n)'
  <1> SUFFICES ASSUME NEW n \in Name PROVE Sound(n)'
    OBVIOUS
  <1>1. Working(n)' = {}
    BY DEF Restart, Working, Idle
  <1>2. keys'[n] = Load(n) /\ files' = files
    BY DEF Restart
  <1>3. Load(n)' = Load(n)
    BY <1>2 DEF Load
  <1>4. owed'[n] # NoKey => keys'[n] = owed'[n] /\ files[n] = owed'[n]
    <2>1. CASE contested[n] \/ owed[n] = NoKey
      <3>1. owed'[n] = Load(n)
        BY <2>1 DEF Restart
      <3>2. QED
        BY <1>2, <3>1 DEF Load
    <2>2. CASE ~contested[n] /\ owed[n] # NoKey
      <3>1. owed'[n] = owed[n] /\ files[n] = owed[n] /\ owed[n] \in Key
        BY <2>2 DEF Restart, IInv, Sound, TypeOK
      <3>2. QED
        BY <1>2, <3>1 DEF Load
    <2>3. QED
      BY <2>1, <2>2
  <1>5. QED
    BY <1>1, <1>2, <1>3, <1>4 DEF Sound

(* Every step keeps the invariant.                                         *)
LEMMA SoundStep == ASSUME IInv, [Next]_vars PROVE IInv'
  <1>1. TypeOK'
    BY TypeStep DEF IInv
  <1>2. \A n \in Name : Sound(n)'
    <2>1. ASSUME NEW t \in Thread, NEW n \in Name, GenerateKey(t, n) \/ ImportKey(t, n)
          PROVE  \A m \in Name : Sound(m)'
      <3>1. PICK k \in Key : Create(t, n, k)
        BY <2>1, KeyStoreAssumption DEF GenerateKey, ImportKey
      <3>2. QED
        BY <3>1, CreateKeepsSound
    <2>2. ASSUME NEW t \in Thread, NEW n \in Name, Verify(t, n)
          PROVE  \A m \in Name : Sound(m)'
      BY <2>2, VerifyKeepsSound
    <2>3. ASSUME NEW t \in Thread,
                 \/ Truncate(t) \/ Write(t) \/ WriteFails(t) \/ Insert(t)
                 \/ Remove(t) \/ RemoveFails(t)
          PROVE  \A m \in Name : Sound(m)'
      BY <2>3, StepKeepsSound
    <2>4. CASE Restart
      BY <2>4, RestartKeepsSound
    <2>5. CASE UNCHANGED vars
      <3>1. \A n \in Name : Sound(n) => Sound(n)'
        BY <2>5 DEF vars, Sound, Stage, Working, Load
      <3>2. QED
        BY <3>1 DEF IInv
    <2>6. QED
      BY <2>1, <2>2, <2>3, <2>4, <2>5 DEF Next
  <1>3. QED
    BY <1>1, <1>2 DEF IInv

----------------------------------------------------------------------------
(***************************************************************************)
(* The theorems.                                                           *)
(***************************************************************************)

(* It always holds.                                                        *)
LEMMA IsInvariant == Spec => []IInv
  BY SoundInit, SoundStep, PTL DEF Spec

(* Map and directory agree about every name that no call is about and no   *)
(* two calls have been about at once.                                      *)
THEOREM MapIsDirectory == Spec => []MapMatchesDirectory
  <1>1. IInv => MapMatchesDirectory
    BY DEF IInv, Sound, MapMatchesDirectory
  <1>2. QED
    BY <1>1, IsInvariant, PTL

(* An acknowledged key is in its file, whatever fails and whenever the     *)
(* process ends, unless calls about its name overlap.                      *)
THEOREM AcknowledgedKeysStay == Spec => []AckedKeysSurvive
  <1>1. IInv => AckedKeysSurvive
    BY DEF IInv, Sound, AckedKeysSurvive
  <1>2. QED
    BY <1>1, IsInvariant, PTL

=============================================================================
