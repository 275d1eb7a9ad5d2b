-------------------------- MODULE JsonlStoreProofs --------------------------
(***************************************************************************)
(* Proofs about JsonlStore: type correctness, and the safety of the lock   *)
(* protocol and of the cached index for any number of processes, events,   *)
(* keys and retries.                                                       *)
(***************************************************************************)
EXTENDS JsonlStore, SequenceTheorems, TLAPS

(***************************************************************************)
(* Facts about the operators of the model.                                 *)
(***************************************************************************)
\* The parsed index of a well-typed log is well-typed.
LEMMA IndexType ==
  ASSUME log \in Seq(Line), clock \in Nat, torn \in BOOLEAN, NEW s \in Store
  PROVE  EnsureIndex(s) \in Store
<1>1. LogKeys \in SUBSET Keys
  <2>1. \A i \in DOMAIN log : log[i] \in Line
    OBVIOUS
  <2>2. \A i \in DOMAIN log : log[i].key \in Keys \cup {NoKey}
    BY <2>1 DEF Line
  <2> QED BY <2>2 DEF LogKeys
<1>2. Tip \in Nat
  <2>1. log # <<>> => log[Len(log)] \in Line
    OBVIOUS
  <2> QED BY <2>1 DEF Tip, Line
<1>3. FileMtime \in Nat
  BY DEF FileMtime
<1> QED
  BY <1>1, <1>2, <1>3 DEF EnsureIndex, Store

\* Updating the attempt counter or the previous hash keeps a call a call.
LEMMA CallType ==
  ASSUME call \in [Procs -> Call], NEW p \in Procs, NEW n \in Nat
  PROVE  /\ [call EXCEPT ![p].tries = n] \in [Procs -> Call]
         /\ [call EXCEPT ![p].prev = n] \in [Procs -> Call]
         /\ [call EXCEPT ![p].tries = @ + 1] \in [Procs -> Call]
         /\ call[p].tries \in Nat /\ call[p].id \in Nat /\ call[p].prev \in Nat
         /\ call[p].key \in Keys \cup {NoKey}
<1>1. call[p] \in Call
  OBVIOUS
<1>2. /\ [call[p] EXCEPT !.tries = n] \in Call
      /\ [call[p] EXCEPT !.prev = n] \in Call
      /\ [call[p] EXCEPT !.tries = @ + 1] \in Call
  BY <1>1 DEF Call
<1> QED BY <1>1, <1>2 DEF Call

\* Rotation keeps a sequence of files a sequence of files.
LEMMA RotatedType ==
  ASSUME log \in Seq(Line), archive \in Seq(Seq(Line)), MaxFiles \in Nat \ {0},
         NEW n \in Nat, n <= Len(archive) + 1
  PROVE  SubSeq(<<log>> \o archive, 1, n) \in Seq(Seq(Line))
<1>1. <<log>> \o archive \in Seq(Seq(Line))
  OBVIOUS
<1>2. Len(<<log>> \o archive) = Len(archive) + 1
  OBVIOUS
<1> DEFINE all == <<log>> \o archive
<1>3. \A i \in 1..n : all[i] \in Seq(Line)
  BY <1>1, <1>2
<1>4. SubSeq(all, 1, n) = [i \in 1..n |-> all[i]]
  BY <1>1, <1>2
<1> QED
  BY <1>3, <1>4

-----------------------------------------------------------------------------
(***************************************************************************)
(* Type correctness.                                                       *)
(***************************************************************************)
LEMMA TypeInit == Init => TypeOK
<1> SUFFICES ASSUME Init PROVE TypeOK
  OBVIOUS
<1>1. call \in [Procs -> Call]
  BY DEF Init, Call
<1>4. log \in Seq(Line) /\ archive \in Seq(Seq(Line))
  BY DEF Init
<1>2. store \in [Procs -> Store]
  BY DEF Init, Store, NewStore
<1>3. result \in [1..MaxEvents -> Outcome]
  BY DEF Init, Outcome
<1> QED
  BY <1>1, <1>2, <1>3, <1>4 DEF Init, TypeOK

\* Every step of every process keeps the types.
LEMMA TypeNext == TypeOK /\ [Next]_vars => TypeOK'
<1> SUFFICES ASSUME TypeOK, [Next]_vars PROVE TypeOK'
  OBVIOUS
<1> USE BoundsAssumption
<1> USE DEF TypeOK, Goto, disk, counters
<1>1. ASSUME NEW p \in Procs, NEW key \in Keys \cup {NoKey}, Append_(p, key)
      PROVE  TypeOK'
  BY <1>1 DEF Append_, Call, Outcome
<1>2. ASSUME NEW p \in Procs, Acquire(p) PROVE TypeOK'
  <2>1. lockFile' \in Lock
    BY <1>2 DEF Acquire, Lock, Call
  <2> QED BY <1>2, <2>1 DEF Acquire, Holding
<1>3. ASSUME NEW p \in Procs, LockExists(p) PROVE TypeOK'
  BY <1>3 DEF LockExists
<1>4. ASSUME NEW p \in Procs, CheckStale(p) PROVE TypeOK'
  <2>1. call' \in [Procs -> Call]
    BY <1>4, CallType DEF CheckStale, NextAttempt
  <2> QED BY <1>4, <2>1 DEF CheckStale, NextAttempt
<1>5. ASSUME NEW p \in Procs, UnlinkStale(p) PROVE TypeOK'
  <2>1. call' \in [Procs -> Call]
    BY <1>5, CallType DEF UnlinkStale, NextAttempt
  <2>2. stolen' \in BOOLEAN
    BY <1>5 DEF UnlinkStale, RemoveLock, Held, Mine
  <2> QED BY <1>5, <2>1, <2>2 DEF UnlinkStale, RemoveLock, NextAttempt
<1>6. ASSUME NEW p \in Procs, FinalCheck(p) PROVE TypeOK'
  <2>1. call' \in [Procs -> Call]
    <3>1. call' = call \/ call' = [call EXCEPT ![p].tries = 0]
      BY <1>6 DEF FinalCheck
    <3>2. [call EXCEPT ![p].tries = 0] \in [Procs -> Call]
      BY CallType
    <3> QED BY <3>1, <3>2
  <2>2. result' \in [1..MaxEvents -> Outcome]
    BY <1>6 DEF FinalCheck, Return, Outcome
  <2> QED BY <1>6, <2>1, <2>2 DEF FinalCheck, Return
<1>7. ASSUME NEW p \in Procs, FinalUnlink(p) PROVE TypeOK'
  BY <1>7 DEF FinalUnlink, RemoveLock, Held, Mine
<1>8. ASSUME NEW p \in Procs, FinalExists(p) PROVE TypeOK'
  <2>1. call' \in [Procs -> Call]
    BY <1>8, CallType DEF FinalExists
  <2>2. result' \in [1..MaxEvents -> Outcome]
    BY <1>8 DEF FinalExists, Return, Outcome
  <2> QED BY <1>8, <2>1, <2>2 DEF FinalExists, Return
<1>9. ASSUME NEW p \in Procs, WriteMeta(p) PROVE TypeOK'
  <2>1. lockFile' \in Lock \cup {NoLock}
    BY <1>9 DEF WriteMeta, Mine, Lock
  <2>2. metaFaults' \in Nat
    BY <1>9 DEF WriteMeta
  <2> QED BY <1>9, <2>1, <2>2 DEF WriteMeta, Holding
<1>10. ASSUME NEW p \in Procs, Index(p) PROVE TypeOK'
  <2>1. EnsureIndex(store[p]) \in Store
    BY IndexType
  <2>2. store' \in [Procs -> Store]
    BY <1>10, <2>1 DEF Index
  <2>3. call' \in [Procs -> Call]
    <3>1. EnsureIndex(store[p]).tip \in Nat
      BY <2>1 DEF Store
    <3>2. \/ call' = call
          \/ call' = [call EXCEPT ![p].prev = EnsureIndex(store[p]).tip]
      BY <1>10 DEF Index
    <3>3. [call EXCEPT ![p].prev = EnsureIndex(store[p]).tip] \in [Procs -> Call]
      BY <3>1, CallType
    <3> QED BY <3>2, <3>3
  <2> QED
    BY <1>10, <2>2, <2>3 DEF Index, Finish, Outcome, Holding
<1>11. ASSUME NEW p \in Procs, RotateFiles(p) PROVE TypeOK'
  <2> DEFINE n == IF Len(archive) < MaxFiles THEN Len(archive) + 1 ELSE MaxFiles
  <2>1. n \in Nat /\ n <= Len(archive) + 1
    OBVIOUS
  <2>2. archive' \in Seq(Seq(Line))
    BY <1>11, <2>1, RotatedType DEF RotateFiles
  <2>3. store' \in [Procs -> Store]
    BY <1>11 DEF RotateFiles, NewStore, Store
  <2> QED
    <3>1. <<>> \in Seq(Line)
      OBVIOUS
    <3>2. log' \in Seq(Line)
      BY <1>11, <3>1 DEF RotateFiles
    <3> QED BY <1>11, <2>2, <2>3, <3>2 DEF RotateFiles, Holding
<1>12. ASSUME NEW p \in Procs, WriteLine(p) PROVE TypeOK'
  <2>1. clock' \in Nat
    BY <1>12 DEF WriteLine, Tick
  <2>2. log' \in Seq(Line)
    <3>1. [id |-> call[p].id, key |-> call[p].key, prev |-> call[p].prev] \in Line
      BY CallType DEF Line
    <3> QED BY <1>12, <3>1 DEF WriteLine, NewLine
  <2>3. store' \in [Procs -> Store]
    <3> DEFINE k == {call[p].key} \ {NoKey}
               new == [store[p] EXCEPT !.keys = @ \cup k, !.tip = call[p].id,
                                       !.mtime = clock']
    <3>1. call[p].id \in Nat /\ k \in SUBSET Keys
      BY CallType
    <3>2. new \in Store
      BY <2>1, <3>1 DEF Store
    <3>3. store' \in {store, [store EXCEPT ![p] = new]}
      BY <1>12 DEF WriteLine
    <3> QED BY <3>2, <3>3
  <2>4. torns' \in Nat /\ pc' = [pc EXCEPT ![p] = "release"]
    BY <1>12 DEF WriteLine, Finish
  <2>5. result' \in [1..MaxEvents -> Outcome]
    BY <1>12 DEF WriteLine, Finish, Outcome
  <2> QED BY <1>12, <2>1, <2>2, <2>3, <2>4, <2>5 DEF WriteLine, Holding
<1>13. ASSUME NEW p \in Procs, TornWrite(p) PROVE TypeOK'
  <2>1. clock' \in Nat /\ torns' \in Nat
    BY <1>13 DEF TornWrite, Tick
  <2>2. result' \in [1..MaxEvents -> Outcome]
    BY <1>13 DEF TornWrite, Finish, Outcome
  <2> QED BY <1>13, <2>1, <2>2 DEF TornWrite, Finish, Holding
<1>14. ASSUME NEW p \in Procs, ReadOwnMeta(p) PROVE TypeOK'
  BY <1>14 DEF ReadOwnMeta, Holding
<1>15. ASSUME NEW p \in Procs, Unlock(p) PROVE TypeOK'
  BY <1>15 DEF Unlock, Held, Mine
<1>16. ASSUME NEW p \in Procs, Crash(p) PROVE TypeOK'
  BY <1>16 DEF Crash
<1>17. CASE Age
  BY <1>17 DEF Age, Lock
<1>18. CASE UNCHANGED vars
  BY <1>18 DEF vars
<1> QED
  BY <1>1, <1>2, <1>3, <1>4, <1>5, <1>6, <1>7, <1>8, <1>9, <1>10, <1>11, <1>12,
     <1>13, <1>14, <1>15, <1>16, <1>17, <1>18 DEF Next, Step

\* Every reachable state is well-typed.
THEOREM TypeCorrect == Spec => []TypeOK
<1> QED
  BY TypeInit, TypeNext, PTL DEF Spec

-----------------------------------------------------------------------------
(***************************************************************************)
(* The lock: while no live holder's lock file has been unlinked, the file  *)
(* at the lock path is the holder's own.                                   *)
(***************************************************************************)
LockInv == ~stolen => \A p \in Procs : pc[p] \in Holding => Mine(p, lockFile)

LEMMA LockInvInit == Init => LockInv
  BY DEF Init, LockInv, Holding

\* No step separates a holder from its lock file without setting stolen.
LEMMA LockInvNext == TypeOK /\ LockInv /\ [Next]_vars => LockInv'
<1> SUFFICES ASSUME TypeOK, LockInv, [Next]_vars PROVE LockInv'
  OBVIOUS
<1> SUFFICES ASSUME ~stolen', NEW q \in Procs, pc'[q] \in Holding
             PROVE  Mine(q, lockFile)'
  BY DEF LockInv
<1> USE ValuesAssumption
<1> USE DEF Goto, disk, counters
<1>t. pc \in [Procs -> Holding \cup {"idle", "open", "check", "unlink", "final",
                                    "reclaim", "reopen", "dead"}]
  BY DEF TypeOK
<1>c. call \in [Procs -> Call]
  BY DEF TypeOK
<1>1. ASSUME NEW p \in Procs, NEW key \in Keys \cup {NoKey}, Append_(p, key)
      PROVE  Mine(q, lockFile)'
  BY <1>1, <1>t, <1>c DEF Append_, LockInv, Mine, Holding
<1>2. ASSUME NEW p \in Procs, Acquire(p) PROVE Mine(q, lockFile)'
  <2>1. \A r \in Procs : pc[r] \notin Holding
    BY <1>2 DEF Acquire, LockInv, Mine
  <2>2. q = p
    BY <1>2, <2>1, <1>t DEF Acquire
  <2>3. lockFile' \in Lock
    BY <1>2, CallType DEF Acquire, Lock, TypeOK
  <2> QED BY <1>2, <2>2, <2>3 DEF Acquire, Mine, Lock
<1>3. ASSUME NEW p \in Procs, LockExists(p) PROVE Mine(q, lockFile)'
  BY <1>3, <1>t DEF LockExists, LockInv, Mine, Holding
<1>4. ASSUME NEW p \in Procs, CheckStale(p) PROVE Mine(q, lockFile)'
  <2>1. call'[q].id = call[q].id
    BY <1>4, <1>c DEF CheckStale, NextAttempt, Call
  <2>2. q # p /\ pc'[q] = pc[q]
    BY <1>4, <1>t DEF CheckStale, NextAttempt, Holding
  <2> QED BY <1>4, <2>1, <2>2 DEF CheckStale, LockInv, Mine
<1>5. ASSUME NEW p \in Procs, RemoveLock, pc[p] \notin Holding,
             pc'[p] \notin Holding,
             \A r \in Procs \ {p} : pc'[r] = pc[r]
      PROVE  FALSE
  <2>1. q # p /\ pc[q] \in Holding
    BY <1>5
  <2>2. Mine(q, lockFile)
    BY <2>1, <1>5 DEF LockInv, RemoveLock
  <2>3. Held(lockFile)
    BY <2>1, <2>2 DEF Held, Mine
  <2> QED BY <1>5, <2>3 DEF RemoveLock
<1>6. ASSUME NEW p \in Procs, UnlinkStale(p) PROVE Mine(q, lockFile)'
  <2>1. pc[p] \notin Holding /\ pc'[p] \notin Holding
    BY <1>6, <1>t DEF UnlinkStale, NextAttempt, Holding
  <2>2. \A r \in Procs \ {p} : pc'[r] = pc[r]
    BY <1>6, <1>t DEF UnlinkStale, NextAttempt
  <2>3. RemoveLock
    BY <1>6 DEF UnlinkStale
  <2> QED BY <1>5, <2>1, <2>2, <2>3
<1>7. ASSUME NEW p \in Procs, FinalUnlink(p) PROVE Mine(q, lockFile)'
  <2>1. pc[p] \notin Holding /\ pc'[p] \notin Holding
    BY <1>7, <1>t DEF FinalUnlink, Holding
  <2>2. \A r \in Procs \ {p} : pc'[r] = pc[r]
    BY <1>7, <1>t DEF FinalUnlink
  <2>3. RemoveLock
    BY <1>7 DEF FinalUnlink
  <2> QED BY <1>5, <2>1, <2>2, <2>3
<1>8. ASSUME NEW p \in Procs, FinalCheck(p) \/ FinalExists(p)
      PROVE  Mine(q, lockFile)'
  <2>1. call'[q].id = call[q].id
    BY <1>8, <1>c DEF FinalCheck, FinalExists, Call
  <2>2. q # p /\ pc'[q] = pc[q]
    BY <1>8, <1>t DEF FinalCheck, FinalExists, Return, Holding
  <2> QED BY <1>8, <2>1, <2>2 DEF FinalCheck, FinalExists, LockInv, Mine
<1>9. ASSUME NEW p \in Procs, WriteMeta(p) PROVE Mine(q, lockFile)'
  <2>1. pc[q] \in Holding
    BY <1>9, <1>t DEF WriteMeta, Holding
  <2>2. Mine(q, lockFile)
    BY <1>9, <2>1 DEF WriteMeta, LockInv
  <2>3. lockFile \in Lock /\ lockFile' \in Lock
    BY <1>9, <2>2 DEF TypeOK, Mine, WriteMeta, Lock
  <2>4. lockFile'.owner = lockFile.owner /\ lockFile'.token = lockFile.token
    BY <1>9, <2>3 DEF WriteMeta, Lock
  <2> QED BY <1>9, <2>2, <2>3, <2>4 DEF WriteMeta, Mine, Lock
<1>10. ASSUME NEW p \in Procs, Index(p) PROVE Mine(q, lockFile)'
  <2>1. call'[q].id = call[q].id
    BY <1>10, <1>c DEF Index, Call
  <2>2. pc[q] \in Holding
    BY <1>10, <1>t DEF Index, Finish, Holding
  <2> QED BY <1>10, <2>1, <2>2 DEF Index, LockInv, Mine
<1>11. ASSUME NEW p \in Procs, RotateFiles(p) \/ WriteLine(p) \/ TornWrite(p)
       PROVE  Mine(q, lockFile)'
  <2>1. pc[q] \in Holding
    BY <1>11, <1>t DEF RotateFiles, WriteLine, TornWrite, Finish, Holding
  <2> QED BY <1>11, <2>1 DEF RotateFiles, WriteLine, TornWrite, LockInv, Mine
<1>12. ASSUME NEW p \in Procs, ReadOwnMeta(p) PROVE Mine(q, lockFile)'
  BY <1>12, <1>t DEF ReadOwnMeta, LockInv, Mine, Holding
<1>13. ASSUME NEW p \in Procs, Unlock(p) PROVE Mine(q, lockFile)'
  <2>1. q # p /\ pc[q] \in Holding /\ pc[p] \in Holding
    BY <1>13, <1>t DEF Unlock, Holding
  <2>2. Mine(q, lockFile) /\ Mine(p, lockFile)
    BY <1>13, <2>1 DEF Unlock, LockInv
  <2> QED BY <2>1, <2>2 DEF Mine
<1>14. ASSUME NEW p \in Procs, Crash(p) PROVE Mine(q, lockFile)'
  BY <1>14, <1>t DEF Crash, LockInv, Mine, Holding
<1>15. CASE Age
  <2>1. Mine(q, lockFile)
    BY <1>15 DEF Age, LockInv
  <2>2. lockFile \in Lock /\ lockFile' \in Lock
    BY <1>15 DEF TypeOK, Age, Lock
  <2>3. lockFile'.owner = lockFile.owner /\ lockFile'.token = lockFile.token
    BY <1>15, <2>2 DEF Age, Lock
  <2> QED BY <1>15, <2>1, <2>2, <2>3 DEF Age, Mine, Lock
<1>16. CASE UNCHANGED vars
  BY <1>16 DEF vars, LockInv, Mine
<1> QED
  BY <1>1, <1>2, <1>3, <1>4, <1>6, <1>7, <1>8, <1>9, <1>10, <1>11, <1>12, <1>13,
     <1>14, <1>15, <1>16 DEF Next, Step

LEMMA ExclusionFromLock == LockInv /\ ~stolen => MutualExclusion
  BY DEF LockInv, MutualExclusion, Mine

-----------------------------------------------------------------------------
(***************************************************************************)
(* The cached index: a store whose mtime is the file's describes the file, *)
(* and a process about to write holds such a store.  This is what makes a  *)
(* check of the mtime enough, and it needs a clock that tells two writes   *)
(* apart.                                                                  *)
(***************************************************************************)
Current(s) == s.built /\ s.mtime = FileMtime
Describes(s) == s.keys = LogKeys /\ s.tip = Tip /\ s.errors = torn

Ready(p) ==
  /\ Current(store[p]) /\ ~torn
  /\ call[p].prev = Tip /\ call[p].key \notin LogKeys

ClockInv == (FileExists => clock > 0) /\ \A p \in Procs : store[p].mtime <= clock
CacheInv == \A p \in Procs :
  /\ Current(store[p]) => Describes(store[p])
  /\ store[p].built /\ store[p].mtime = 0 =>
       store[p].keys = {} /\ store[p].tip = 0 /\ store[p].errors = FALSE
WriterInv == \A p \in Procs :
  /\ pc[p] \in {"write", "rotate"} => Ready(p)
  /\ pc[p] = "rotated" => log = <<>> /\ ~torn /\ ~store[p].built

DataInv == ~stolen => ClockInv /\ CacheInv /\ WriterInv /\ ChainLinked /\ NoDuplicateKeys

\* What a line appended to the log does to its tip and its keys.
LEMMA AppendFacts ==
  ASSUME log \in Seq(Line), NEW l \in Line, log' = Append(log, l), torn' = torn
  PROVE  /\ Tip' = l.id /\ FileExists'
         /\ LogKeys' = LogKeys \cup ({l.key} \ {NoKey})
         /\ ChainLinked /\ (log # <<>> => l.prev = Tip) => ChainLinked'
         /\ NoDuplicateKeys /\ l.key \notin LogKeys => NoDuplicateKeys'
<1>1. /\ Len(log') = Len(log) + 1 /\ log'[Len(log) + 1] = l
      /\ \A i \in 1..Len(log) : log'[i] = log[i]
      /\ DOMAIN log' = 1..(Len(log) + 1) /\ DOMAIN log = 1..Len(log)
      /\ Len(log) \in Nat /\ log' # <<>>
  OBVIOUS
<1>2. Tip' = l.id /\ FileExists'
  BY <1>1 DEF Tip, FileExists
<1>3. {log'[i].key : i \in DOMAIN log'} = {log[i].key : i \in DOMAIN log} \cup {l.key}
  BY <1>1
<1>4. LogKeys' = LogKeys \cup ({l.key} \ {NoKey})
  BY <1>3 DEF LogKeys
<1>5. ASSUME ChainLinked, log # <<>> => l.prev = Tip PROVE ChainLinked'
  <2> SUFFICES ASSUME NEW i \in 2..Len(log') PROVE log'[i].prev = log'[i - 1].id
    BY DEF ChainLinked
  <2>1. CASE i <= Len(log)
    BY <1>1, <1>5, <2>1 DEF ChainLinked
  <2>2. CASE i = Len(log) + 1
    <3>1. i - 1 = Len(log) /\ Len(log) \in 1..Len(log) /\ log # <<>>
      BY <1>1, <2>2
    <3>2. log'[i - 1] = log[Len(log)] /\ log'[i] = l
      BY <1>1, <2>2, <3>1
    <3> QED BY <1>5, <3>1, <3>2 DEF Tip
  <2> QED BY <1>1, <2>1, <2>2
<1>6. ASSUME NoDuplicateKeys, l.key \notin LogKeys PROVE NoDuplicateKeys'
  <2> SUFFICES ASSUME NEW i \in DOMAIN log', NEW j \in DOMAIN log',
                      log'[i].key = log'[j].key, log'[i].key # NoKey
               PROVE  i = j
    BY DEF NoDuplicateKeys
  <2>1. \A n \in DOMAIN log : log[n].key # NoKey => log[n].key # l.key
    BY <1>6 DEF LogKeys
  <2>2. CASE i \in 1..Len(log) /\ j \in 1..Len(log)
    BY <1>1, <1>6, <2>2 DEF NoDuplicateKeys
  <2>3. CASE i = Len(log) + 1 \/ j = Len(log) + 1
    BY <1>1, <2>1, <2>3
  <2> QED BY <1>1, <2>2, <2>3
<1> QED BY <1>2, <1>4, <1>5, <1>6

LEMMA DataInvInit == Init => DataInv
<1> SUFFICES ASSUME Init PROVE ClockInv /\ CacheInv /\ WriterInv /\ ChainLinked /\ NoDuplicateKeys
  BY DEF DataInv
<1> USE DEF Init
<1>1. ClockInv
  BY DEF ClockInv, FileExists, NewStore
<1>2. CacheInv
  BY DEF CacheInv, Current, NewStore
<1>3. WriterInv
  BY DEF WriterInv
<1>4. ChainLinked /\ NoDuplicateKeys
  BY DEF ChainLinked, NoDuplicateKeys
<1> QED BY <1>1, <1>2, <1>3, <1>4

\* With a clock that tells writes apart, every step keeps the index honest.
LEMMA DataInvNext ==
  ASSUME ~CoarseClock, TypeOK, LockInv, DataInv, [Next]_vars
  PROVE  DataInv'
<1> DEFINE Goal == ClockInv /\ CacheInv /\ WriterInv /\ ChainLinked /\ NoDuplicateKeys
<1> SUFFICES ASSUME ~stolen' PROVE Goal'
  BY DEF DataInv
<1> USE DEF Goto, disk, counters
<1>s. ~stolen
  BY DEF Next, Step, Append_, Acquire, LockExists, CheckStale, UnlinkStale, RemoveLock,
         FinalCheck, FinalUnlink, FinalExists, WriteMeta, Index, RotateFiles, WriteLine,
         TornWrite, ReadOwnMeta, Unlock, Crash, Age, vars, TypeOK
<1>g. Goal
  BY <1>s DEF DataInv
<1>m. MutualExclusion
  BY <1>s, ExclusionFromLock
<1>t. /\ pc \in [Procs -> Holding \cup {"idle", "open", "check", "unlink", "final",
                                       "reclaim", "reopen", "dead"}]
      /\ call \in [Procs -> Call] /\ store \in [Procs -> Store]
      /\ log \in Seq(Line) /\ clock \in Nat /\ torn \in BOOLEAN
  BY DEF TypeOK
<1> DEFINE W == {"write", "rotate", "rotated"}
<1>q. ASSUME UNCHANGED <<disk, store>>,
             \A r \in Procs : pc'[r] \in W =>
               /\ pc'[r] = pc[r] /\ call'[r].prev = call[r].prev
               /\ call'[r].key = call[r].key
      PROVE  Goal'
  <2>1. ClockInv' /\ CacheInv' /\ ChainLinked' /\ NoDuplicateKeys'
    BY <1>q, <1>g DEF ClockInv, CacheInv, ChainLinked, NoDuplicateKeys, Current, Describes,
                      FileMtime, FileExists, LogKeys, Tip
  <2>2. WriterInv'
    BY <1>q, <1>g DEF WriterInv, Ready, Current, FileMtime, FileExists, LogKeys, Tip
  <2> QED BY <2>1, <2>2
<1>1. ASSUME NEW p \in Procs, NEW key \in Keys \cup {NoKey}, Append_(p, key) PROVE Goal'
  <2>1. \A r \in Procs : pc'[r] \in W => r # p
    BY <1>1, <1>t DEF Append_
  <2>2. \A r \in Procs \ {p} : pc'[r] = pc[r] /\ call'[r] = call[r]
    BY <1>1, <1>t DEF Append_
  <2>3. UNCHANGED <<disk, store>>
    BY <1>1 DEF Append_
  <2> QED BY <2>1, <2>2, <2>3, <1>q
<1>2. ASSUME NEW p \in Procs,
             \/ Acquire(p) \/ LockExists(p) \/ WriteMeta(p) \/ ReadOwnMeta(p)
             \/ Unlock(p) \/ Crash(p)
      PROVE  Goal'
  <2>1. UNCHANGED <<disk, store, call>>
    BY <1>2 DEF Acquire, LockExists, WriteMeta, ReadOwnMeta, Unlock, Crash
  <2>2. \A r \in Procs : pc'[r] \in W => pc'[r] = pc[r]
    BY <1>2, <1>t DEF Acquire, LockExists, WriteMeta, ReadOwnMeta, Unlock, Crash
  <2> QED BY <2>1, <2>2, <1>q
<1>3. ASSUME NEW p \in Procs,
             \/ CheckStale(p) \/ UnlinkStale(p) \/ FinalCheck(p) \/ FinalUnlink(p)
             \/ FinalExists(p)
      PROVE  Goal'
  <2>1. UNCHANGED <<disk, store>>
    BY <1>3 DEF CheckStale, UnlinkStale, FinalCheck, FinalUnlink, FinalExists
  <2>2. \A r \in Procs : pc'[r] \in W => pc'[r] = pc[r]
    BY <1>3, <1>t DEF CheckStale, UnlinkStale, FinalCheck, FinalUnlink, FinalExists,
                      NextAttempt, Return
  <2>3. \A r \in Procs : call'[r].prev = call[r].prev /\ call'[r].key = call[r].key
    <3>1. call' = call \/ \E n : call' = [call EXCEPT ![p].tries = n]
      <4>1. CASE FinalCheck(p)
        BY <4>1 DEF FinalCheck
      <4>2. CASE FinalUnlink(p)
        BY <4>2 DEF FinalUnlink
      <4>3. CASE CheckStale(p) \/ UnlinkStale(p) \/ FinalExists(p)
        <5>1. call' = call \/ call' = [call EXCEPT ![p].tries = call[p].tries + 1]
          BY <4>3 DEF CheckStale, UnlinkStale, FinalExists, NextAttempt
        <5> QED BY <5>1
      <4> QED BY <1>3, <4>1, <4>2, <4>3
    <3>2. ASSUME NEW n, call' = [call EXCEPT ![p].tries = n], NEW r \in Procs
          PROVE  call'[r].prev = call[r].prev /\ call'[r].key = call[r].key
      <4>1. call[r] \in Call
        BY <1>t
      <4>2. call'[r] = call[r] \/ call'[r] = [call[r] EXCEPT !.tries = n]
        BY <3>2, <1>t
      <4> QED BY <4>1, <4>2 DEF Call
    <3> QED BY <3>1, <3>2
  <2> QED BY <2>1, <2>2, <2>3, <1>q
<1>4. CASE Age \/ UNCHANGED vars
  <2>1. UNCHANGED <<disk, store, call, pc>>
    BY <1>4 DEF Age, vars
  <2> QED BY <2>1, <1>q
<1>5. ASSUME NEW p \in Procs, Index(p) PROVE Goal'
  <2> DEFINE s == EnsureIndex(store[p])
  <2>1. UNCHANGED <<log, torn, archive, clock>> /\ store' = [store EXCEPT ![p] = s]
    BY <1>5 DEF Index
  <2>2. Current(s) /\ Describes(s) /\ s \in Store
    <3>1. CASE Current(store[p])
      BY <3>1, <1>g, <1>t DEF Current, EnsureIndex, CacheInv
    <3>2. CASE ~Current(store[p])
      <4>1. s = [built |-> TRUE, keys |-> LogKeys, tip |-> Tip, mtime |-> FileMtime,
                 errors |-> torn]
        BY <3>2 DEF Current, EnsureIndex
      <4>2. s \in Store
        BY <1>t, IndexType
      <4>3. /\ s.built /\ s.mtime = FileMtime
            /\ s.keys = LogKeys /\ s.tip = Tip /\ s.errors = torn
        BY <4>1
      <4> QED BY <4>2, <4>3 DEF Current, Describes
    <3> QED BY <3>1, <3>2
  <2>3. FileMtime' = FileMtime /\ LogKeys' = LogKeys /\ Tip' = Tip /\ FileExists' = FileExists
    BY <2>1 DEF FileMtime, FileExists, LogKeys, Tip
  <2>4. ClockInv'
    <3>1. s.mtime <= clock
      BY <2>2, <1>g, <1>t DEF Current, FileMtime, ClockInv
    <3> QED BY <2>1, <2>3, <3>1, <1>g, <1>t DEF ClockInv
  <2>5. CacheInv'
    <3>1. s.mtime = 0 => s.keys = {} /\ s.tip = 0 /\ s.errors = FALSE
      <4>1. s.mtime = 0 => ~FileExists
        BY <2>2, <1>g, <1>t DEF Current, FileMtime, ClockInv
      <4>2. ~FileExists => LogKeys = {} /\ Tip = 0 /\ torn = FALSE
        BY <1>t DEF FileExists, LogKeys, Tip
      <4> QED BY <4>1, <4>2, <2>2 DEF Describes
    <3>2. \A r \in Procs : Current(store[r])' => Describes(store[r])'
      BY <2>1, <2>2, <2>3, <1>g, <1>t DEF CacheInv, Current, Describes
    <3> QED BY <2>1, <3>1, <3>2, <1>g, <1>t DEF CacheInv
  <2>6. WriterInv'
    <3>1. \A r \in Procs : pc[r] \in W => r # p
      BY <1>5 DEF Index
    <3>2. \A r \in Procs \ {p} : pc'[r] = pc[r] /\ call'[r] = call[r] /\ store'[r] = store[r]
      BY <1>5, <1>t DEF Index, Finish
    <3>3. pc'[p] # "rotated"
      BY <1>5, <1>t DEF Index, Finish
    <3>4. ASSUME pc'[p] \in {"write", "rotate"} PROVE Ready(p)'
      <4>1. /\ ~s.errors /\ call[p].key \notin s.keys
            /\ call' = [call EXCEPT ![p].prev = s.tip]
        BY <1>5, <3>4, <1>t DEF Index, Finish
      <4>2. call'[p].prev = s.tip /\ call'[p].key = call[p].key
        BY <4>1, <1>t DEF Call
      <4>3. store'[p] = s
        BY <2>1, <1>t
      <4> QED BY <2>1, <2>2, <2>3, <4>1, <4>2, <4>3 DEF Ready, Current, Describes
    <3> QED BY <2>1, <2>3, <3>2, <3>3, <3>4, <1>g DEF WriterInv, Ready, Current
  <2>7. ChainLinked' /\ NoDuplicateKeys'
    BY <2>1, <1>g DEF ChainLinked, NoDuplicateKeys
  <2> QED BY <2>4, <2>5, <2>6, <2>7
<1>6. ASSUME NEW p \in Procs, pc[p] \in W
      PROVE  \A r \in Procs \ {p} : pc[r] \notin W
  BY <1>6, <1>m DEF MutualExclusion, Holding
<1>7. ASSUME NEW p \in Procs, RotateFiles(p) PROVE Goal'
  <2>1. /\ log' = <<>> /\ torn' = FALSE /\ clock' = clock /\ call' = call
        /\ store' = [store EXCEPT ![p] = NewStore]
        /\ pc' = [pc EXCEPT ![p] = "rotated"] /\ pc[p] = "rotate"
    BY <1>7 DEF RotateFiles
  <2>2. FileMtime' = 0 /\ LogKeys' = {} /\ Tip' = 0 /\ ~FileExists'
    BY <2>1 DEF FileMtime, FileExists, LogKeys, Tip
  <2>3. store'[p] = NewStore /\ \A r \in Procs \ {p} : store'[r] = store[r]
    BY <2>1, <1>t
  <2>4. ClockInv'
    BY <2>1, <2>2, <2>3, <1>g, <1>t DEF ClockInv, NewStore
  <2>5. CacheInv'
    <3>1. ~store'[p].built
      BY <2>3 DEF NewStore
    <3>2. ASSUME NEW r \in Procs \ {p}, Current(store[r])' PROVE Describes(store[r])'
      <4>1. store[r].built /\ store[r].mtime = 0
        BY <3>2, <2>2, <2>3 DEF Current
      <4> QED BY <4>1, <1>g, <2>1, <2>2, <2>3 DEF CacheInv, Describes
    <3>3. \A r \in Procs \ {p} : store'[r] = store[r]
      BY <2>3
    <3> QED BY <3>1, <3>2, <3>3, <1>g DEF CacheInv, Current
  <2>6. WriterInv'
    <3>1. \A r \in Procs \ {p} : pc'[r] \notin W
      BY <1>6, <2>1, <1>t
    <3> QED BY <2>1, <2>3, <3>1, <1>t DEF WriterInv, NewStore
  <2>7. ChainLinked' /\ NoDuplicateKeys'
    BY <2>1 DEF ChainLinked, NoDuplicateKeys
  <2> QED BY <2>4, <2>5, <2>6, <2>7
<1>8. ASSUME NEW p \in Procs, WriteLine(p) PROVE Goal'
  <2> DEFINE l == [id |-> call[p].id, key |-> call[p].key, prev |-> call[p].prev]
  <2>1. pc[p] \in {"write", "rotated"} /\ ~torn /\ torn' = torn
    BY <1>8, <1>g DEF WriteLine, WriterInv, Ready
  <2>2. l \in Line /\ log' = Append(log, l) /\ clock' = clock + 1
    BY <1>8, <1>t, <2>1, CallType DEF WriteLine, NewLine, Line, Tick
  <2>3. /\ Tip' = l.id /\ FileExists' /\ FileMtime' = clock'
        /\ LogKeys' = LogKeys \cup ({l.key} \ {NoKey})
    BY <1>t, <2>1, <2>2, AppendFacts DEF FileMtime
  <2>4. (log # <<>> => l.prev = Tip) /\ l.key \notin LogKeys
    BY <2>1, <1>g DEF WriterInv, Ready, LogKeys
  <2>5. ChainLinked' /\ NoDuplicateKeys'
    BY <1>t, <1>g, <2>1, <2>2, <2>4, AppendFacts
  <2>6. \A r \in Procs \ {p} : store'[r] = store[r] /\ pc'[r] = pc[r]
    BY <1>8, <1>t DEF WriteLine, Finish
  <2>7. pc'[p] = "release"
    BY <1>8, <1>t DEF WriteLine, Finish
  <2> DEFINE k == {call[p].key} \ {NoKey}
             new == [store[p] EXCEPT !.keys = @ \cup k, !.tip = call[p].id,
                                     !.mtime = clock']
  <2>8. store'[p] = store[p] \/ store'[p] = new
    BY <1>8, <1>t DEF WriteLine
  <2>9. /\ new.built = store[p].built /\ new.mtime = clock'
        /\ new.keys = store[p].keys \cup k /\ new.tip = call[p].id
        /\ new.errors = store[p].errors
    BY <1>t DEF Store
  <2> HIDE DEF new
  <2>10. \A r \in Procs : store[r].mtime \in Nat /\ store[r].mtime <= clock
    BY <1>t, <1>g DEF Store, ClockInv
  <2>11. ClockInv'
    <3>1. store'[p].mtime <= clock'
      BY <1>t, <2>2, <2>8, <2>9, <2>10
    <3> QED BY <1>t, <2>2, <2>6, <2>10, <3>1 DEF ClockInv
  <2>12. CacheInv'
    <3>1. \A r \in Procs \ {p} : ~Current(store[r])'
      BY <1>t, <2>2, <2>3, <2>6, <2>10 DEF Current
    <3>2. CASE pc[p] = "rotated"
      <4>1. ~store'[p].built
        BY <3>2, <1>g, <2>8, <2>9 DEF WriterInv
      <4> QED BY <3>1, <4>1, <2>6, <1>g DEF CacheInv, Current
    <3>3. CASE store'[p] = store[p]
      <4>1. ~Current(store[p])'
        BY <3>3, <1>t, <2>2, <2>3, <2>10 DEF Current
      <4> QED BY <3>1, <3>3, <4>1, <2>6, <1>g DEF CacheInv
    <3>4. CASE pc[p] = "write" /\ store'[p] = new
      <4>1. store'[p] = new
        BY <3>4
      <4>2. Describes(store[p])
        BY <3>4, <1>g DEF WriterInv, Ready, CacheInv
      <4>3. Describes(store[p])'
        BY <4>1, <4>2, <2>1, <2>3, <2>9 DEF Describes
      <4>4. store'[p].mtime # 0
        BY <4>1, <2>9, <2>2, <1>t
      <4> QED BY <3>1, <4>3, <4>4, <2>6, <1>g DEF CacheInv
    <3> QED BY <2>1, <2>8, <3>2, <3>3, <3>4
  <2>13. WriterInv'
    BY <1>6, <2>1, <2>6, <2>7 DEF WriterInv
  <2> QED BY <2>5, <2>11, <2>12, <2>13
<1>9. ASSUME NEW p \in Procs, TornWrite(p) PROVE Goal'
  <2>1. /\ pc[p] \in W /\ torn' /\ log' = log /\ clock' = clock + 1 /\ store' = store
        /\ pc' = [pc EXCEPT ![p] = "release"]
    BY <1>9 DEF TornWrite, Tick, Finish
  <2>2. FileMtime' = clock' /\ FileExists'
    BY <2>1 DEF FileMtime, FileExists
  <2>3. \A r \in Procs : store[r].mtime \in Nat /\ store[r].mtime <= clock
    BY <1>t, <1>g DEF Store, ClockInv
  <2>4. ClockInv'
    BY <1>t, <2>1, <2>3 DEF ClockInv
  <2>5. \A r \in Procs : ~Current(store[r])'
    BY <1>t, <2>1, <2>2, <2>3 DEF Current
  <2>6. CacheInv'
    BY <1>g, <2>1, <2>5 DEF CacheInv
  <2>7. WriterInv'
    BY <1>6, <1>t, <2>1 DEF WriterInv
  <2>8. ChainLinked' /\ NoDuplicateKeys'
    BY <1>g, <2>1 DEF ChainLinked, NoDuplicateKeys
  <2> QED BY <2>4, <2>6, <2>7, <2>8
<1> QED
  BY <1>1, <1>2, <1>3, <1>4, <1>5, <1>7, <1>8, <1>9 DEF Next, Step

(***************************************************************************)
(* For every set of processes, whatever crashes, stalls and failed         *)
(* metadata writes happen: as long as no unlink removes a live holder's    *)
(* lock file, two processes are never in the critical section, the log is  *)
(* one chain and no idempotency key is recorded twice.                     *)
(***************************************************************************)
THEOREM StoreSafeUnlessStolen == ~CoarseClock => (Spec => []SafeUnlessStolen)
<1> SUFFICES ASSUME ~CoarseClock PROVE Spec => []SafeUnlessStolen
  OBVIOUS
<1>1. Init => TypeOK /\ LockInv /\ DataInv
  BY TypeInit, LockInvInit, DataInvInit
<1>2. TypeOK /\ LockInv /\ DataInv /\ [Next]_vars => (TypeOK /\ LockInv /\ DataInv)'
  BY TypeNext, LockInvNext, DataInvNext
<1>3. TypeOK /\ LockInv /\ DataInv => SafeUnlessStolen
  BY ExclusionFromLock DEF SafeUnlessStolen, DataInv
<1> QED
  BY <1>1, <1>2, <1>3, PTL DEF Spec

-----------------------------------------------------------------------------
(***************************************************************************)
(* Rotation: the active file is empty after a rotation only while the      *)
(* rotating process is about to write into it (or its write was torn, and  *)
(* then no later append gets past the index), and what that process writes *)
(* links to the last line of the newest archive.                           *)
(***************************************************************************)
ArchiveTip == archive[1][Len(archive[1])].id

RotationInv == ~stolen /\ crashes = 0 =>
  /\ archive # <<>> /\ log = <<>> => torn \/ \E p \in Procs : pc[p] = "rotated"
  /\ archive # <<>> /\ log # <<>> => log[1].prev = ArchiveTip
  /\ \A p \in Procs :
       /\ pc[p] = "rotate" => log # <<>>
       /\ pc[p] = "rotated" => archive # <<>> /\ call[p].prev = ArchiveTip

LEMMA RotationInvInit == Init => RotationInv
  BY DEF Init, RotationInv

\* The rotated log is the first of the archives.
LEMMA NewestArchive ==
  ASSUME TypeOK, log # <<>>, NEW p \in Procs, RotateFiles(p)
  PROVE  archive' # <<>> /\ archive'[1] = log
<1> USE BoundsAssumption
<1> DEFINE all == <<log>> \o archive
           m == IF Len(archive) < MaxFiles THEN Len(archive) + 1 ELSE MaxFiles
<1>1. all \in Seq(Seq(Line)) /\ Len(all) = Len(archive) + 1 /\ all[1] = log
  BY DEF TypeOK
<1>2. m \in 1..Len(all)
  BY <1>1 DEF TypeOK
<1>3. archive' = SubSeq(all, 1, m)
  BY DEF RotateFiles
<1> HIDE DEF all, m
<1>4. \A i \in 1..m : archive'[i] = all[i]
  BY <1>1, <1>2, <1>3
<1>5. Len(archive') = m
  BY <1>1, <1>2, <1>3
<1> QED BY <1>1, <1>2, <1>4, <1>5

\* Every step keeps the chain across the archive.
LEMMA RotationInvNext ==
  ASSUME TypeOK, LockInv, DataInv, DataInv', RotationInv, [Next]_vars
  PROVE  RotationInv'
<1> DEFINE Goal ==
      /\ archive # <<>> /\ log = <<>> => torn \/ \E p \in Procs : pc[p] = "rotated"
      /\ archive # <<>> /\ log # <<>> => log[1].prev = ArchiveTip
      /\ \A p \in Procs :
           /\ pc[p] = "rotate" => log # <<>>
           /\ pc[p] = "rotated" => archive # <<>> /\ call[p].prev = ArchiveTip
<1> SUFFICES ASSUME ~stolen', crashes' = 0 PROVE Goal'
  BY DEF RotationInv
<1> USE DEF Goto, disk, counters
<1>s. ~stolen /\ crashes = 0
  <2>1. ~stolen
    BY DEF Next, Step, Append_, Acquire, LockExists, CheckStale, UnlinkStale, RemoveLock,
           FinalCheck, FinalUnlink, FinalExists, WriteMeta, Index, RotateFiles, WriteLine,
           TornWrite, ReadOwnMeta, Unlock, Crash, Age, vars, TypeOK
  <2>2. crashes' = crashes \/ crashes' = crashes + 1
    BY DEF Next, Step, Append_, Acquire, LockExists, CheckStale, UnlinkStale,
           FinalCheck, FinalUnlink, FinalExists, WriteMeta, Index, RotateFiles, WriteLine,
           TornWrite, ReadOwnMeta, Unlock, Crash, Age, vars
  <2> QED BY <2>1, <2>2 DEF TypeOK
<1>g. Goal
  BY <1>s DEF RotationInv
<1>d. WriterInv /\ WriterInv'
  BY <1>s DEF DataInv
<1>m. MutualExclusion
  BY <1>s, ExclusionFromLock
<1>t. /\ pc \in [Procs -> Holding \cup {"idle", "open", "check", "unlink", "final",
                                       "reclaim", "reopen", "dead"}]
      /\ call \in [Procs -> Call] /\ log \in Seq(Line) /\ archive \in Seq(Seq(Line))
      /\ torn \in BOOLEAN /\ crashes \in Nat
  BY DEF TypeOK
<1> DEFINE W == {"rotate", "rotated"}
\* A step that touches neither the files nor a process in rotation.
<1>q. ASSUME UNCHANGED disk,
             \A r \in Procs : pc[r] \in W \/ pc'[r] \in W =>
               pc'[r] = pc[r] /\ call'[r].prev = call[r].prev
      PROVE  Goal'
  <2>1. ArchiveTip' = ArchiveTip
    BY <1>q DEF ArchiveTip
  <2> QED BY <1>q, <1>g, <2>1
<1>1. ASSUME NEW p \in Procs, NEW key \in Keys \cup {NoKey}, Append_(p, key) PROVE Goal'
  <2>1. pc[p] = "idle" /\ pc'[p] = "open" /\ UNCHANGED disk
    BY <1>1, <1>t DEF Append_
  <2>2. \A r \in Procs \ {p} : pc'[r] = pc[r] /\ call'[r] = call[r]
    BY <1>1, <1>t DEF Append_
  <2> QED BY <2>1, <2>2, <1>q
<1>2. ASSUME NEW p \in Procs,
             \/ Acquire(p) \/ LockExists(p) \/ WriteMeta(p) \/ ReadOwnMeta(p) \/ Unlock(p)
      PROVE  Goal'
  <2>1. UNCHANGED <<disk, call>> /\ pc[p] \notin W /\ pc'[p] \notin W
    BY <1>2, <1>t DEF Acquire, LockExists, WriteMeta, ReadOwnMeta, Unlock
  <2>2. \A r \in Procs \ {p} : pc'[r] = pc[r]
    BY <1>2, <1>t DEF Acquire, LockExists, WriteMeta, ReadOwnMeta, Unlock
  <2> QED BY <2>1, <2>2, <1>q
<1>3. ASSUME NEW p \in Procs,
             \/ CheckStale(p) \/ UnlinkStale(p) \/ FinalCheck(p) \/ FinalUnlink(p)
             \/ FinalExists(p)
      PROVE  Goal'
  <2>1. UNCHANGED disk /\ pc[p] \notin W /\ pc'[p] \notin W
    BY <1>3, <1>t DEF CheckStale, UnlinkStale, FinalCheck, FinalUnlink, FinalExists,
                      NextAttempt, Return
  <2>2. \A r \in Procs \ {p} : pc'[r] = pc[r]
    BY <1>3, <1>t DEF CheckStale, UnlinkStale, FinalCheck, FinalUnlink, FinalExists,
                      NextAttempt, Return
  <2>3. \A r \in Procs \ {p} : call'[r] = call[r]
    BY <1>3, <1>t DEF CheckStale, UnlinkStale, FinalCheck, FinalUnlink, FinalExists,
                      NextAttempt
  <2> QED BY <2>1, <2>2, <2>3, <1>q
<1>4. ASSUME NEW p \in Procs, Crash(p) PROVE FALSE
  BY <1>4, <1>t DEF Crash
<1>5. CASE Age \/ UNCHANGED vars
  <2>1. UNCHANGED <<disk, call, pc>>
    BY <1>5 DEF Age, vars
  <2> QED BY <2>1, <1>q
<1>6. ASSUME NEW p \in Procs, Index(p) PROVE Goal'
  <2>1. /\ pc[p] = "index" /\ UNCHANGED disk
        /\ \A r \in Procs \ {p} : pc'[r] = pc[r] /\ call'[r] = call[r]
    BY <1>6, <1>t DEF Index, Finish
  <2>2. pc'[p] \in {"release", "write", "rotate"}
    BY <1>6, <1>t DEF Index, Finish
  <2>3. ASSUME pc'[p] = "rotate" PROVE log # <<>>
    <3>1. FileExists
      BY <1>6, <2>3, <1>t DEF Index, Finish
    <3>2. ~torn
      BY <2>1, <2>3, <1>d DEF WriterInv, Ready
    <3> QED BY <3>1, <3>2 DEF FileExists
  <2>4. ArchiveTip' = ArchiveTip
    BY <2>1 DEF ArchiveTip
  <2> QED BY <1>g, <2>1, <2>2, <2>3, <2>4
<1>7. ASSUME NEW p \in Procs, pc[p] \in Holding
      PROVE  \A r \in Procs \ {p} : pc[r] \notin W
  BY <1>7, <1>m DEF MutualExclusion, Holding
<1>8. ASSUME NEW p \in Procs, RotateFiles(p) PROVE Goal'
  <2>1. /\ pc[p] = "rotate" /\ log' = <<>> /\ call' = call
        /\ pc' = [pc EXCEPT ![p] = "rotated"]
    BY <1>8 DEF RotateFiles
  <2>2. log # <<>> /\ call[p].prev = Tip
    BY <2>1, <1>g, <1>d DEF WriterInv, Ready
  <2>3. archive' # <<>> /\ ArchiveTip' = Tip
    BY <1>8, <2>2, NewestArchive DEF ArchiveTip, Tip
  <2>4. pc'[p] = "rotated" /\ \A r \in Procs \ {p} : pc'[r] \notin W
    BY <1>7, <2>1, <1>t DEF Holding
  <2> QED BY <2>1, <2>2, <2>3, <2>4
<1>9. ASSUME NEW p \in Procs, WriteLine(p) PROVE Goal'
  <2> DEFINE l == [id |-> call[p].id, key |-> call[p].key, prev |-> call[p].prev]
  <2>1. /\ pc[p] \in {"write", "rotated"} /\ archive' = archive
        /\ pc' = [pc EXCEPT ![p] = "release"]
    BY <1>9 DEF WriteLine, Finish
  <2>2. ~torn /\ log' = Append(log, l)
    BY <1>9, <2>1, <1>d DEF WriteLine, NewLine, WriterInv, Ready
  <2>3. l.prev = call[p].prev
    OBVIOUS
  <2> HIDE DEF l
  <2>4. /\ log' # <<>> /\ (log # <<>> => log'[1] = log[1])
        /\ (log = <<>> => log'[1] = l)
    BY <2>2, <1>t
  <2>5. \A r \in Procs \ {p} : pc[r] \notin W
    BY <2>1, <1>7 DEF Holding
  <2>6. archive # <<>> /\ log = <<>> => l.prev = ArchiveTip
    BY <2>1, <2>2, <2>3, <2>5, <1>g
  <2>7. \A r \in Procs : pc'[r] \notin W
    BY <2>1, <2>5, <1>t
  <2>8. ArchiveTip' = ArchiveTip
    BY <2>1 DEF ArchiveTip
  <2> QED BY <1>g, <2>1, <2>4, <2>6, <2>7, <2>8
<1>10. ASSUME NEW p \in Procs, TornWrite(p) PROVE Goal'
  <2>1. /\ pc[p] \in {"write", "rotated"} /\ UNCHANGED <<archive, log>> /\ torn'
        /\ pc' = [pc EXCEPT ![p] = "release"]
    BY <1>10 DEF TornWrite, Finish
  <2>2. \A r \in Procs : pc'[r] \notin W
    BY <2>1, <1>7, <1>t DEF Holding
  <2>3. ArchiveTip' = ArchiveTip
    BY <2>1 DEF ArchiveTip
  <2> QED BY <1>g, <2>1, <2>2, <2>3
<1> QED
  BY <1>1, <1>2, <1>3, <1>4, <1>5, <1>6, <1>8, <1>9, <1>10 DEF Next, Step

(***************************************************************************)
(* For every rotation limit and number of archives, with torn lines and    *)
(* failed metadata writes: unless a process died or a live holder's lock   *)
(* file was unlinked, the active file continues the chain of the newest    *)
(* archive.                                                                *)
(***************************************************************************)
THEOREM RotationNeverBreaksChain == ~CoarseClock => (Spec => []RotationKeepsChain)
<1> SUFFICES ASSUME ~CoarseClock PROVE Spec => []RotationKeepsChain
  OBVIOUS
<1> DEFINE IInv == TypeOK /\ LockInv /\ DataInv
<1>1. Init => IInv /\ RotationInv
  BY TypeInit, LockInvInit, DataInvInit, RotationInvInit
<1>2. IInv /\ RotationInv /\ [Next]_vars => (IInv /\ RotationInv)'
  BY TypeNext, LockInvNext, DataInvNext, RotationInvNext
<1>3. RotationInv => RotationKeepsChain
  BY DEF RotationInv, RotationKeepsChain, ArchiveTip
<1> QED
  BY <1>1, <1>2, <1>3, PTL DEF Spec

-----------------------------------------------------------------------------
(***************************************************************************)
(* Without crashes, failed metadata writes and holders slower than the     *)
(* stale threshold, every lock file has a live holder, so none is ever     *)
(* judged stale and nothing is ever stolen.                                *)
(***************************************************************************)
Calm == MaxCrashes = 0 /\ MaxMetaFaults = 0 /\ ~MayStall

CalmInv ==
  /\ ~stolen /\ crashes = 0 /\ metaFaults = 0
  /\ lockFile # NoLock => Held(lockFile) /\ ~lockFile.old
  /\ \A p \in Procs :
       /\ pc[p] \notin {"dead", "unlink", "reclaim", "reopen"}
       /\ pc[p] \in Holding \ {"meta"} => Mine(p, lockFile) /\ lockFile.meta

LEMMA CalmInit == Init => CalmInv
  BY DEF Init, CalmInv, Holding

LEMMA CalmNext ==
  ASSUME Calm, TypeOK, LockInv, CalmInv, [Next]_vars
  PROVE  CalmInv'
<1> USE ValuesAssumption
<1> USE DEF Goto, disk, counters
<1>t. /\ pc \in [Procs -> Holding \cup {"idle", "open", "check", "unlink", "final",
                                       "reclaim", "reopen", "dead"}]
      /\ call \in [Procs -> Call]
  BY DEF TypeOK
<1>l. lockFile # NoLock => lockFile \in Lock /\ lockFile.owner \in Procs
  BY DEF TypeOK, Lock
<1>s. \A p \in Procs : ~IsLockStale(p)
  BY <1>l DEF CalmInv, IsLockStale
<1>m. \A p \in Procs : pc[p] \in Holding => Mine(p, lockFile)
  BY DEF LockInv, CalmInv
\* A step that moves p but leaves the lock file and the calls' numbers alone.
<1>q. ASSUME NEW p \in Procs, lockFile' = lockFile,
             UNCHANGED <<stolen, crashes, metaFaults>>,
             \A r \in Procs \ {p} : pc'[r] = pc[r],
             \A r \in Procs : pc'[r] \in Holding \/ pc[r] \in Holding => call'[r].id = call[r].id,
             pc'[p] \notin {"dead", "unlink", "reclaim", "reopen"},
             pc[p] \in Holding <=> pc'[p] \in Holding,
             pc[p] # "meta"
      PROVE  CalmInv'
  <2>1. \A r \in Procs : Mine(r, lockFile) /\ pc[r] \in Holding => Mine(r, lockFile)'
    BY <1>q DEF Mine
  <2>2. lockFile # NoLock => Held(lockFile)'
    BY <1>q, <1>l, <2>1 DEF CalmInv, Held
  <2>3. \A r \in Procs : pc'[r] \in Holding \ {"meta"} => pc[r] \in Holding \ {"meta"}
    BY <1>q
  <2> QED BY <1>q, <2>1, <2>2, <2>3 DEF CalmInv
<1>1. ASSUME NEW p \in Procs, NEW key \in Keys \cup {NoKey}, Append_(p, key) PROVE CalmInv'
  <2>1. /\ \A r \in Procs \ {p} : pc'[r] = pc[r] /\ call'[r] = call[r]
        /\ pc'[p] = "open" /\ pc[p] = "idle"
        /\ UNCHANGED <<lockFile, stolen, crashes, metaFaults>>
    BY <1>1, <1>t DEF Append_
  <2> QED BY <2>1, <1>q DEF Holding
<1>2. ASSUME NEW p \in Procs, Acquire(p) PROVE CalmInv'
  <2>1. \A r \in Procs : pc[r] \notin Holding
    BY <1>2, <1>m DEF Acquire, Mine
  <2>2. /\ \A r \in Procs \ {p} : pc'[r] = pc[r]
        /\ pc'[p] = "meta" /\ call' = call
    BY <1>2, <1>t DEF Acquire
  <2>3. lockFile'.owner = p /\ lockFile'.token = call[p].id /\ ~lockFile'.old
    BY <1>2 DEF Acquire
  <2>4. lockFile' # NoLock => Held(lockFile)'
    BY <2>2, <2>3 DEF Held, Mine, Holding
  <2>5. UNCHANGED <<stolen, crashes, metaFaults>>
    BY <1>2 DEF Acquire
  <2> QED BY <2>1, <2>2, <2>3, <2>4, <2>5 DEF CalmInv
<1>3. ASSUME NEW p \in Procs, LockExists(p) \/ CheckStale(p) \/ FinalCheck(p)
      PROVE  CalmInv'
  <2>1. /\ \A r \in Procs \ {p} : pc'[r] = pc[r]
        /\ pc'[p] \in {"open", "check", "final", "idle"}
        /\ pc[p] \in {"open", "check", "final"}
        /\ UNCHANGED <<lockFile, stolen, crashes, metaFaults>>
    BY <1>3, <1>s, <1>t DEF LockExists, CheckStale, FinalCheck, NextAttempt, Return
  <2>2. \A r \in Procs \ {p} : call'[r] = call[r]
    BY <1>3, <1>s, <1>t DEF LockExists, CheckStale, FinalCheck, NextAttempt
  <2>3. pc[p] \notin Holding /\ pc'[p] \notin Holding
    BY <2>1 DEF Holding
  <2> QED BY <2>1, <2>2, <2>3, <1>q
<1>4. ASSUME NEW p \in Procs,
             \/ UnlinkStale(p) \/ FinalUnlink(p) \/ FinalExists(p) \/ Crash(p)
      PROVE  CalmInv'
  BY <1>4 DEF UnlinkStale, FinalUnlink, FinalExists, Crash, CalmInv, Calm
<1>5. ASSUME NEW p \in Procs, WriteMeta(p) PROVE CalmInv'
  <2>1. Mine(p, lockFile)
    BY <1>5, <1>m DEF WriteMeta, Holding
  <2>2. /\ lockFile' = [lockFile EXCEPT !.meta = TRUE]
        /\ UNCHANGED <<stolen, crashes, metaFaults, call>>
        /\ pc' = [pc EXCEPT ![p] = "index"] /\ pc[p] = "meta"
    BY <1>5, <2>1 DEF WriteMeta, Calm, CalmInv
  <2>3. /\ lockFile'.owner = p /\ lockFile'.token = call[p].id
        /\ lockFile'.meta /\ ~lockFile'.old /\ lockFile' \in Lock /\ lockFile' # NoLock
    BY <2>1, <2>2, <1>l DEF Mine, Lock, CalmInv
  <2>4. Mine(p, lockFile)' /\ Held(lockFile)'
    BY <2>2, <2>3, <1>t DEF Mine, Held, Holding
  <2>5. \A r \in Procs \ {p} : pc[r] \notin Holding
    BY <2>1, <1>m DEF Mine
  <2> QED BY <2>2, <2>3, <2>4, <2>5, <1>t DEF CalmInv, Holding
<1>6. ASSUME NEW p \in Procs,
             \/ Index(p) \/ RotateFiles(p) \/ WriteLine(p) \/ TornWrite(p) \/ ReadOwnMeta(p)
      PROVE  CalmInv'
  <2>1. /\ pc[p] \in Holding \ {"meta"}
        /\ UNCHANGED <<lockFile, stolen, crashes, metaFaults>>
        /\ \A r \in Procs \ {p} : pc'[r] = pc[r]
    BY <1>6, <1>t DEF Index, RotateFiles, WriteLine, TornWrite, ReadOwnMeta, Finish, Holding
  <2>2. Mine(p, lockFile) /\ lockFile.meta
    BY <2>1 DEF CalmInv
  <2>3. pc'[p] \in Holding \ {"meta"}
    BY <1>6, <2>2, <1>t DEF Index, RotateFiles, WriteLine, TornWrite, ReadOwnMeta, Finish,
                            Holding
  <2>4. \A r \in Procs : call'[r].id = call[r].id
    <3>1. call' = call \/ call' = [call EXCEPT ![p].prev = EnsureIndex(store[p]).tip]
      <4>1. CASE Index(p)
        BY <4>1 DEF Index
      <4>2. CASE ~Index(p)
        BY <1>6, <4>2 DEF RotateFiles, WriteLine, TornWrite, ReadOwnMeta
      <4> QED BY <4>1, <4>2
    <3> DEFINE n == EnsureIndex(store[p]).tip
    <3>2. ASSUME NEW r \in Procs PROVE [call EXCEPT ![p].prev = n][r].id = call[r].id
      <4> HIDE DEF n
      <4>1. call[r] \in Call
        BY <1>t
      <4> QED BY <4>1, <1>t DEF Call
    <3> QED BY <3>1, <3>2
  <2>5. pc'[p] \notin {"dead", "unlink", "reclaim", "reopen"}
    BY <2>3 DEF Holding
  <2> QED BY <2>1, <2>3, <2>4, <2>5, <1>q
<1>7. ASSUME NEW p \in Procs, Unlock(p) PROVE CalmInv'
  <2>1. pc[p] = "unlock" /\ Mine(p, lockFile)
    BY <1>7, <1>m DEF Unlock, Holding
  <2>2. \A r \in Procs \ {p} : pc[r] \notin Holding
    BY <2>1, <1>m DEF Mine
  <2>3. /\ lockFile' = NoLock /\ ~stolen' /\ pc' = [pc EXCEPT ![p] = "idle"]
        /\ UNCHANGED <<crashes, metaFaults>>
    BY <1>7, <2>1 DEF Unlock, CalmInv
  <2> QED BY <2>2, <2>3, <1>t DEF CalmInv, Holding
<1>8. CASE Age
  BY <1>8 DEF Age, CalmInv, Calm
<1>9. CASE UNCHANGED vars
  BY <1>9 DEF vars, CalmInv, Held, Mine
<1> QED
  BY <1>1, <1>2, <1>3, <1>4, <1>5, <1>6, <1>7, <1>8, <1>9 DEF Next, Step

(***************************************************************************)
(* For every set of processes and every number of events, keys and         *)
(* retries: without crashes, stalls and failed metadata writes, and with a *)
(* clock that tells two writes apart, append is mutually exclusive, the    *)
(* log is one chain and no idempotency key is recorded twice.              *)
(***************************************************************************)
THEOREM StoreSafe ==
  Calm /\ ~CoarseClock =>
    (Spec => [](MutualExclusion /\ ChainLinked /\ NoDuplicateKeys))
<1> SUFFICES ASSUME Calm, ~CoarseClock
             PROVE  Spec => [](MutualExclusion /\ ChainLinked /\ NoDuplicateKeys)
  OBVIOUS
<1> DEFINE IInv == TypeOK /\ LockInv /\ DataInv /\ CalmInv
<1>1. Init => IInv
  BY TypeInit, LockInvInit, DataInvInit, CalmInit
<1>2. IInv /\ [Next]_vars => IInv'
  BY TypeNext, LockInvNext, DataInvNext, CalmNext
<1>3. IInv => MutualExclusion /\ ChainLinked /\ NoDuplicateKeys
  BY ExclusionFromLock DEF DataInv, CalmInv
<1> QED
  BY <1>1, <1>2, <1>3, PTL DEF Spec

\* Although every process decides from its own cached index, no idempotency
\* key is recorded twice.
THEOREM KeysAreRecordedOnce == Calm /\ ~CoarseClock => (Spec => []NoDuplicateKeys)
<1> SUFFICES ASSUME Calm, ~CoarseClock PROVE Spec => []NoDuplicateKeys
  OBVIOUS
<1> QED BY StoreSafe, PTL

-----------------------------------------------------------------------------
(***************************************************************************)
(* The refinement: append implements AuditLog.  A call that is under way   *)
(* is pending and belongs to one process; with the cached index known to   *)
(* describe the file, the step that writes the line, or that finds the     *)
(* key, is the abstract step.                                              *)
(***************************************************************************)
Active == {"open", "check", "unlink", "final", "reclaim", "reopen", "meta", "index", "write"}

CallInv ==
  /\ \A e \in 1..MaxEvents : e > issued => result[e] = "none"
  /\ \A p \in Procs :
       /\ pc[p] \notin {"rotate", "rotated"}
       /\ pc[p] \in Active =>
            call[p].id \in 1..MaxEvents /\ call[p].id <= issued /\ result[call[p].id] = "pending"
  /\ \A p, q \in Procs :
       pc[p] \in Active /\ pc[q] \in Active /\ call[p].id = call[q].id => p = q

\* Counting an attempt or setting the previous hash keeps every call's number.
LEMMA SameIds ==
  ASSUME call \in [Procs -> Call], NEW p \in Procs, NEW n \in Nat, NEW r \in Procs
  PROVE  /\ [call EXCEPT ![p].tries = n][r].id = call[r].id
         /\ [call EXCEPT ![p].prev = n][r].id = call[r].id
         /\ [call EXCEPT ![p].tries = @ + 1][r].id = call[r].id
<1>1. call[r] \in Call
  OBVIOUS
<1> QED BY <1>1 DEF Call

LEMMA CallInvInit == Init => CallInv
  BY DEF Init, CallInv, Active

LEMMA CallInvNext ==
  ASSUME RotateAt = 0, TypeOK, CallInv, [Next]_vars
  PROVE  CallInv'
<1> USE DEF Goto, disk, counters
<1>t. /\ pc \in [Procs -> Holding \cup {"idle", "open", "check", "unlink", "final",
                                       "reclaim", "reopen", "dead"}]
      /\ call \in [Procs -> Call] /\ result \in [1..MaxEvents -> Outcome] /\ issued \in Nat
  BY DEF TypeOK
\* A step of p that leaves the calls' numbers and the answers alone.
<1>q. ASSUME NEW p \in Procs, UNCHANGED <<result, issued>>,
             \A r \in Procs \ {p} : pc'[r] = pc[r],
             \A r \in Procs : call'[r].id = call[r].id,
             pc'[p] \in Active => pc[p] \in Active,
             pc'[p] \notin {"rotate", "rotated"}
      PROVE  CallInv'
  <2>1. \A r \in Procs : pc'[r] \in Active => pc[r] \in Active
    BY <1>q
  <2> QED BY <1>q, <2>1 DEF CallInv
\* A step of p that answers its call.
<1>r. ASSUME NEW p \in Procs, NEW how \in Outcome, UNCHANGED issued,
             \A r \in Procs \ {p} : pc'[r] = pc[r],
             \A r \in Procs : call'[r].id = call[r].id,
             result' = [result EXCEPT ![call[p].id] = how],
             pc[p] \in Active, pc'[p] \in {"idle", "release"}
      PROVE  CallInv'
  <2>1. \A r \in Procs : pc'[r] \in Active => pc[r] \in Active /\ r # p
    BY <1>r DEF Active
  <2>2. \A r \in Procs : pc'[r] \in Active => result'[call[r].id] = "pending"
    BY <1>r, <2>1, <1>t DEF CallInv
  <2>3. \A e \in 1..MaxEvents : e > issued => result'[e] = "none"
    BY <1>r, <1>t DEF CallInv
  <2> QED BY <1>r, <2>1, <2>2, <2>3 DEF CallInv
<1>1. ASSUME NEW p \in Procs, NEW key \in Keys \cup {NoKey}, Append_(p, key) PROVE CallInv'
  <2>1. /\ pc' = [pc EXCEPT ![p] = "open"] /\ issued' = issued + 1 /\ issued < MaxEvents
        /\ result' = [result EXCEPT ![issued + 1] = "pending"]
        /\ pc[p] = "idle" /\ call'[p].id = issued + 1
        /\ \A r \in Procs \ {p} : call'[r] = call[r] /\ pc'[r] = pc[r]
    BY <1>1, <1>t DEF Append_
  <2>2. issued + 1 \in 1..MaxEvents
    BY <2>1, <1>t, BoundsAssumption
  <2>3. \A e \in 1..MaxEvents : e > issued' => result'[e] = "none"
    BY <2>1, <1>t DEF CallInv
  <2>4. \A r \in Procs \ {p} : pc[r] \in Active =>
          /\ call[r].id # issued + 1 /\ call[r].id \in 1..MaxEvents
          /\ call[r].id <= issued + 1 /\ result'[call[r].id] = "pending"
    <3> SUFFICES ASSUME NEW r \in Procs \ {p}, pc[r] \in Active
                 PROVE  /\ call[r].id # issued + 1 /\ call[r].id \in 1..MaxEvents
                        /\ call[r].id <= issued + 1 /\ result'[call[r].id] = "pending"
      OBVIOUS
    <3>1. call[r].id \in 1..MaxEvents /\ call[r].id <= issued /\ result[call[r].id] = "pending"
      BY DEF CallInv
    <3> QED BY <2>1, <3>1, <1>t
  <2>5. result'[issued + 1] = "pending"
    BY <2>1, <2>2, <1>t
  <2> QED BY <2>1, <2>2, <2>3, <2>4, <2>5, <1>t DEF CallInv
<1>2. ASSUME NEW p \in Procs, LockExists(p) \/ Acquire(p) \/ WriteMeta(p) \/ FinalUnlink(p)
                              \/ ReadOwnMeta(p) \/ Unlock(p) \/ Crash(p)
      PROVE  CallInv'
  BY <1>2, <1>t, <1>q
     DEF LockExists, Acquire, WriteMeta, FinalUnlink, ReadOwnMeta, Unlock, Crash, Active
<1>3. ASSUME NEW p \in Procs, CheckStale(p) \/ UnlinkStale(p) PROVE CallInv'
  <2>1. \A r \in Procs : call'[r].id = call[r].id
    <3>1. call' = call \/ call' = [call EXCEPT ![p].tries = @ + 1]
      BY <1>3 DEF CheckStale, UnlinkStale, NextAttempt
    <3>2. \A r \in Procs : [call EXCEPT ![p].tries = @ + 1][r].id = call[r].id
      BY <1>t, SameIds, 0 \in Nat
    <3> QED BY <3>1, <3>2
  <2>2. /\ \A r \in Procs \ {p} : pc'[r] = pc[r]
        /\ pc[p] \in Active /\ pc'[p] \in {"unlink", "open", "final"}
        /\ UNCHANGED <<result, issued>>
    BY <1>3, <1>t DEF CheckStale, UnlinkStale, NextAttempt, Active
  <2> QED BY <2>1, <2>2, <1>q
<1>4. ASSUME NEW p \in Procs, FinalCheck(p) \/ FinalExists(p) PROVE CallInv'
  <2>1. \A r \in Procs : call'[r].id = call[r].id
    <3>1. \/ call' = call \/ call' = [call EXCEPT ![p].tries = 0]
          \/ call' = [call EXCEPT ![p].tries = @ + 1]
      BY <1>4 DEF FinalCheck, FinalExists
    <3>2. \A r \in Procs : [call EXCEPT ![p].tries = 0][r].id = call[r].id
      BY <1>t, SameIds, 0 \in Nat
    <3>3. \A r \in Procs : [call EXCEPT ![p].tries = @ + 1][r].id = call[r].id
      BY <1>t, SameIds, 0 \in Nat
    <3> QED BY <3>1, <3>2, <3>3
  <2>2. /\ \A r \in Procs \ {p} : pc'[r] = pc[r]
        /\ pc[p] \in Active /\ UNCHANGED issued
        /\ \/ pc'[p] = "reclaim" /\ UNCHANGED result
           \/ pc'[p] = "idle" /\ result' = [result EXCEPT ![call[p].id] = "lockError"]
    BY <1>4, <1>t DEF FinalCheck, FinalExists, Return, Active
  <2> QED BY <2>1, <2>2, <1>q, <1>r DEF Outcome
<1>5. ASSUME NEW p \in Procs, Index(p) PROVE CallInv'
  <2> DEFINE n == EnsureIndex(store[p]).tip
  <2>1. /\ UNCHANGED issued /\ pc[p] = "index"
        /\ call' = call \/ call' = [call EXCEPT ![p].prev = n]
        /\ \/ pc' = [pc EXCEPT ![p] = "write"] /\ UNCHANGED result
           \/ /\ pc' = [pc EXCEPT ![p] = "release"]
              /\ \/ result' = [result EXCEPT ![call[p].id] = "refused"]
                 \/ result' = [result EXCEPT ![call[p].id] = "dup"]
    <3>1. RotateAt > 0 <=> FALSE
      OBVIOUS
    <3> QED BY <1>5, <3>1 DEF Index, Finish
  <2>3. n \in Nat
    BY IndexType DEF Store, TypeOK
  <2> HIDE DEF n
  <2>2. \A r \in Procs : call'[r].id = call[r].id
    <3>1. \A r \in Procs : [call EXCEPT ![p].prev = n][r].id = call[r].id
      BY <2>3, <1>t, SameIds
    <3> QED BY <2>1, <3>1
  <2> QED BY <2>1, <2>2, <1>t, <1>q, <1>r DEF Outcome, Active
<1>6. ASSUME NEW p \in Procs, RotateFiles(p) PROVE CallInv'
  BY <1>6 DEF RotateFiles, CallInv
<1>7. ASSUME NEW p \in Procs, WriteLine(p) \/ TornWrite(p) PROVE CallInv'
  <2>1. pc[p] = "write" /\ UNCHANGED <<call, issued>>
    BY <1>7 DEF WriteLine, TornWrite, CallInv
  <2>2. \E how \in {"ok", "lateError", "ioError"} :
          pc' = [pc EXCEPT ![p] = "release"] /\ result' = [result EXCEPT ![call[p].id] = how]
    BY <1>7, <2>1 DEF WriteLine, TornWrite, Finish
  <2> QED BY <2>1, <2>2, <1>t, <1>r DEF Outcome, Active
<1>8. CASE Age
  BY <1>8 DEF Age, CallInv
<1>9. CASE UNCHANGED vars
  BY <1>9 DEF vars, CallInv, Active
<1> QED
  BY <1>1, <1>2, <1>3, <1>4, <1>5, <1>6, <1>7, <1>8, <1>9 DEF Next, Step

LEMMA RefinesInit == Init => AuditLogOfStore!Init
  BY DEF Init, AuditLogOfStore!Init, AuditLogOfStore!Events

\* Every step is an abstract step or leaves the lines and the answers alone.
LEMMA RefinesNext ==
  ASSUME ~CoarseClock, RotateAt = 0, TypeOK, LockInv, DataInv, CallInv, ~stolen,
         [Next]_vars
  PROVE  [AuditLogOfStore!Next]_<<log, result>>
<1> USE DEF Goto, disk, counters
<1>t. /\ pc \in [Procs -> Holding \cup {"idle", "open", "check", "unlink", "final",
                                       "reclaim", "reopen", "dead"}]
      /\ call \in [Procs -> Call] /\ result \in [1..MaxEvents -> Outcome]
      /\ store \in [Procs -> Store] /\ log \in Seq(Line) /\ issued \in Nat
  BY DEF TypeOK
<1>e. \A p \in Procs : pc[p] \in Active =>
        /\ call[p].id \in AuditLogOfStore!Events /\ result[call[p].id] = "pending"
        /\ call[p].key \in Keys \cup {NoKey}
  BY <1>t, CallType DEF CallInv, AuditLogOfStore!Events
<1>k. \A key \in Keys \cup {NoKey} : key \in LogKeys <=> AuditLogOfStore!Known(key)
  BY DEF LogKeys, AuditLogOfStore!Known
<1>g. CacheInv /\ WriterInv
  BY DEF DataInv
<1>1. ASSUME NEW p \in Procs, NEW key \in Keys \cup {NoKey}, Append_(p, key)
      PROVE  AuditLogOfStore!Next
  <2>1. issued + 1 \in AuditLogOfStore!Events /\ result[issued + 1] = "none"
    BY <1>1, <1>t, BoundsAssumption DEF Append_, CallInv, AuditLogOfStore!Events
  <2>2. AuditLogOfStore!Ask(issued + 1)
    BY <1>1, <2>1 DEF Append_, AuditLogOfStore!Ask, AuditLogOfStore!Answer
  <2> QED BY <2>1, <2>2 DEF AuditLogOfStore!Next
\* A call that is refused.
<1>2. ASSUME NEW p \in Procs, pc[p] \in Active, UNCHANGED log,
             NEW how \in {"refused", "lockError", "ioError"},
             result' = [result EXCEPT ![call[p].id] = how]
      PROVE  AuditLogOfStore!Next
  <2>1. AuditLogOfStore!Refuse(call[p].id)
    BY <1>2, <1>e DEF AuditLogOfStore!Refuse, AuditLogOfStore!Answer
  <2> QED BY <1>2, <1>e, <2>1 DEF AuditLogOfStore!Next
<1>3. ASSUME NEW p \in Procs, FinalCheck(p) \/ FinalExists(p) \/ TornWrite(p)
      PROVE  AuditLogOfStore!Next \/ UNCHANGED <<log, result>>
  <2>1. pc[p] \in Active /\ UNCHANGED log
    BY <1>3 DEF FinalCheck, FinalExists, TornWrite, Active, CallInv
  <2>2. \/ UNCHANGED result
        \/ result' = [result EXCEPT ![call[p].id] = "lockError"]
        \/ result' = [result EXCEPT ![call[p].id] = "ioError"]
    BY <1>3 DEF FinalCheck, FinalExists, TornWrite, Return, Finish
  <2> QED BY <1>2, <2>1, <2>2
<1>4. ASSUME NEW p \in Procs, Index(p)
      PROVE  AuditLogOfStore!Next \/ UNCHANGED <<log, result>>
  <2> DEFINE s == EnsureIndex(store[p])
  <2>1. s.keys = LogKeys
    <3>1. CASE Current(store[p])
      BY <3>1, <1>g DEF EnsureIndex, Current, CacheInv, Describes
    <3>2. CASE ~Current(store[p])
      BY <3>2 DEF EnsureIndex, Current
    <3> QED BY <3>1, <3>2
  <2>2. pc[p] \in Active /\ UNCHANGED log
    BY <1>4 DEF Index, Active
  <2>3. \/ UNCHANGED result
        \/ result' = [result EXCEPT ![call[p].id] = "refused"]
        \/ call[p].key \in s.keys /\ result' = [result EXCEPT ![call[p].id] = "dup"]
    BY <1>4 DEF Index, Finish
  <2> HIDE DEF s
  <2>4. CASE call[p].key \in s.keys /\ result' = [result EXCEPT ![call[p].id] = "dup"]
    <3>1. AuditLogOfStore!Repeat(call[p].id, call[p].key)
      BY <2>1, <2>2, <2>4, <1>e, <1>k DEF AuditLogOfStore!Repeat, AuditLogOfStore!Answer
    <3> QED BY <3>1, <2>2, <1>e DEF AuditLogOfStore!Next
  <2> QED BY <1>2, <2>2, <2>3, <2>4
<1>5. ASSUME NEW p \in Procs, WriteLine(p) PROVE AuditLogOfStore!Next
  <2>1. pc[p] = "write" /\ pc[p] \in Active
    BY <1>5 DEF WriteLine, CallInv, Active
  <2>2. ~torn /\ call[p].prev = Tip /\ call[p].key \notin LogKeys
    BY <2>1, <1>g DEF WriterInv, Ready
  <2>3. Tip = AuditLogOfStore!Tip
    BY DEF Tip, AuditLogOfStore!Tip
  <2>4. /\ log' = Append(log, [id |-> call[p].id, key |-> call[p].key, prev |-> Tip])
        /\ \E how \in {"ok", "lateError"} : result' = [result EXCEPT ![call[p].id] = how]
    BY <1>5, <2>1, <2>2 DEF WriteLine, NewLine, Finish
  <2>5. AuditLogOfStore!Record(call[p].id, call[p].key)
    BY <2>1, <2>2, <2>3, <2>4, <1>e, <1>k DEF AuditLogOfStore!Record, AuditLogOfStore!Answer
  <2> QED BY <2>1, <2>5, <1>e DEF AuditLogOfStore!Next
<1>6. ASSUME NEW p \in Procs,
             \/ Acquire(p) \/ LockExists(p) \/ CheckStale(p) \/ UnlinkStale(p)
             \/ FinalUnlink(p) \/ WriteMeta(p) \/ ReadOwnMeta(p) \/ Unlock(p) \/ Crash(p)
      PROVE  UNCHANGED <<log, result>>
  BY <1>6 DEF Acquire, LockExists, CheckStale, UnlinkStale, NextAttempt, FinalUnlink,
              WriteMeta, ReadOwnMeta, Unlock, Crash
<1>7. ASSUME NEW p \in Procs, RotateFiles(p) PROVE FALSE
  BY <1>7 DEF RotateFiles, CallInv
<1>8. CASE Age \/ UNCHANGED vars
  BY <1>8 DEF Age, vars
<1> QED
  BY <1>1, <1>3, <1>4, <1>5, <1>6, <1>7, <1>8 DEF Next, Step

(***************************************************************************)
(* For every set of processes and every number of events, keys and         *)
(* retries, with deaths, torn lines and failed metadata writes: without    *)
(* rotation, and while no live holder's lock file is unlinked, append      *)
(* implements AuditLog.                                                    *)
(***************************************************************************)
THEOREM AppendRefinesAuditLog ==
  ~CoarseClock /\ RotateAt = 0 => (Spec /\ []~stolen => AppendIsAtomic)
<1> SUFFICES ASSUME ~CoarseClock, RotateAt = 0
             PROVE  Spec /\ []~stolen => AppendIsAtomic
  OBVIOUS
<1> DEFINE Inv == TypeOK /\ LockInv /\ DataInv /\ CallInv
<1>1. Init => Inv
  BY TypeInit, LockInvInit, DataInvInit, CallInvInit
<1>2. Inv /\ [Next]_vars => Inv'
  BY TypeNext, LockInvNext, DataInvNext, CallInvNext
<1>3. Inv /\ ~stolen /\ [Next]_vars => [AuditLogOfStore!Next]_<<log, result>>
  BY RefinesNext
<1> QED
  BY <1>1, <1>2, <1>3, RefinesInit, PTL DEF Spec, AppendIsAtomic, AuditLogOfStore!Spec

(***************************************************************************)
(* The abstract log is honest; its variables are log and result.           *)
(***************************************************************************)
\* The types of the abstract log's two variables.
AbstractLine == [id : AuditLogOfStore!Events, key : Keys \cup {NoKey},
                 prev : AuditLogOfStore!Events \cup {0}]
AbstractAnswers == {"none", "pending", "ok", "dup", "refused", "lockError", "ioError",
                    "lateError"}
AbstractTypes ==
  log \in Seq(AbstractLine) /\ result \in [AuditLogOfStore!Events -> AbstractAnswers]

LEMMA AbstractInit == AuditLogOfStore!Init => AbstractTypes /\ AuditLogOfStore!Honest
<1> SUFFICES ASSUME AuditLogOfStore!Init PROVE AbstractTypes /\ AuditLogOfStore!Honest
  OBVIOUS
<1>1. log = <<>> /\ result \in [AuditLogOfStore!Events -> AbstractAnswers]
  BY DEF AuditLogOfStore!Init, AbstractAnswers
<1>2. \A e \in AuditLogOfStore!Events : result[e] = "none"
  BY DEF AuditLogOfStore!Init
<1> QED BY <1>1, <1>2 DEF AbstractTypes, AuditLogOfStore!Honest

\* What a recorded line does to the log.
LEMMA RecordFacts ==
  ASSUME AbstractTypes, NEW e \in AuditLogOfStore!Events, NEW key \in Keys \cup {NoKey},
         AuditLogOfStore!Record(e, key)
  PROVE  /\ AbstractTypes' /\ result[e] = "pending"
         /\ \E how \in {"ok", "lateError"} : result' = [result EXCEPT ![e] = how]
         /\ Len(log) \in Nat /\ DOMAIN log = 1..Len(log)
         /\ DOMAIN log' = 1..(Len(log) + 1)
         /\ \A i \in 1..Len(log) : log'[i] = log[i]
         /\ log'[Len(log) + 1].id = e
<1> DEFINE l == [id |-> e, key |-> key, prev |-> AuditLogOfStore!Tip]
<1>1. /\ log' = Append(log, l) /\ result[e] = "pending"
      /\ \E how \in {"ok", "lateError"} : result' = [result EXCEPT ![e] = how]
  BY DEF AuditLogOfStore!Record, AuditLogOfStore!Answer
<1>2. AuditLogOfStore!Tip \in AuditLogOfStore!Events \cup {0}
  <2>1. log # <<>> => log[Len(log)] \in AbstractLine
    BY DEF AbstractTypes
  <2> QED BY <2>1 DEF AuditLogOfStore!Tip, AbstractLine
<1>3. l \in AbstractLine /\ l.id = e
  BY <1>2 DEF AbstractLine
<1> HIDE DEF l
<1>4. log' \in Seq(AbstractLine) /\ result' \in [AuditLogOfStore!Events -> AbstractAnswers]
  BY <1>1, <1>3 DEF AbstractTypes, AbstractAnswers
<1>5. /\ Len(log) \in Nat /\ DOMAIN log = 1..Len(log)
      /\ DOMAIN log' = 1..(Len(log) + 1)
      /\ \A i \in 1..Len(log) : log'[i] = log[i]
      /\ log'[Len(log) + 1] = l
  BY <1>1, <1>3 DEF AbstractTypes
<1> QED BY <1>1, <1>3, <1>4, <1>5 DEF AbstractTypes

LEMMA AbstractNext ==
  AbstractTypes /\ AuditLogOfStore!Honest /\ [AuditLogOfStore!Next]_<<log, result>> =>
    (AbstractTypes /\ AuditLogOfStore!Honest)'
<1> SUFFICES ASSUME AbstractTypes, AuditLogOfStore!Honest,
                    [AuditLogOfStore!Next]_<<log, result>>
             PROVE  (AbstractTypes /\ AuditLogOfStore!Honest)'
  OBVIOUS
<1>1. ASSUME NEW e \in AuditLogOfStore!Events,
             NEW before \in AbstractAnswers, NEW after \in AbstractAnswers,
             {before, after} \cap {"ok", "lateError"} = {},
             AuditLogOfStore!Answer(e, before, after), UNCHANGED log
      PROVE  (AbstractTypes /\ AuditLogOfStore!Honest)'
  BY <1>1 DEF AuditLogOfStore!Answer, AbstractTypes, AuditLogOfStore!Honest
<1>2. ASSUME NEW e \in AuditLogOfStore!Events, NEW key \in Keys \cup {NoKey},
             AuditLogOfStore!Record(e, key)
      PROVE  (AbstractTypes /\ AuditLogOfStore!Honest)'
  <2>1. \A i \in DOMAIN log : log[i].id # e
    BY <1>2, RecordFacts DEF AuditLogOfStore!Honest
  <2>2. \A f \in AuditLogOfStore!Events :
          result'[f] \in {"ok", "lateError"} <=> \E i \in DOMAIN log' : log'[i].id = f
    <3> TAKE f \in AuditLogOfStore!Events
    <3>1. CASE f = e
      <4>1. result'[f] \in {"ok", "lateError"}
        BY <3>1, <1>2, RecordFacts DEF AbstractTypes
      <4> QED BY <3>1, <4>1, <1>2, RecordFacts
    <3>2. CASE f # e
      <4>1. result'[f] = result[f]
        BY <3>2, <1>2, RecordFacts DEF AbstractTypes
      <4>2. (\E i \in DOMAIN log' : log'[i].id = f) <=> \E i \in DOMAIN log : log[i].id = f
        BY <3>2, <1>2, RecordFacts
      <4> QED BY <4>1, <4>2 DEF AuditLogOfStore!Honest
    <3> QED BY <3>1, <3>2
  <2>3. \A i, j \in DOMAIN log' : log'[i].id = log'[j].id => i = j
    BY <1>2, <2>1, RecordFacts DEF AuditLogOfStore!Honest
  <2> QED BY <1>2, <2>2, <2>3, RecordFacts DEF AuditLogOfStore!Honest
<1>3. CASE UNCHANGED <<log, result>>
  BY <1>3 DEF AbstractTypes, AuditLogOfStore!Honest
<1> QED BY <1>1, <1>2, <1>3 
  DEF AuditLogOfStore!Next, AuditLogOfStore!Ask, AuditLogOfStore!Refuse,
      AuditLogOfStore!Repeat, AbstractAnswers

\* Every behaviour of the abstract log is honest: a caller is told "ok", or that
\* append failed late, exactly if its event is on a line, and no event is on two.
THEOREM LogIsHonest == AuditLogOfStore!Spec => []AuditLogOfStore!Honest
<1> QED BY AbstractInit, AbstractNext, PTL DEF AuditLogOfStore!Spec

\* What append tells its caller is true of the file, for any number of writers.
THEOREM OutcomesAreHonest ==
  ~CoarseClock /\ RotateAt = 0 => (Spec /\ []~stolen => []HonestOutcome)
<1> SUFFICES ASSUME ~CoarseClock, RotateAt = 0
             PROVE  Spec /\ []~stolen => []HonestOutcome
  OBVIOUS
<1>1. Spec /\ []~stolen => AuditLogOfStore!Spec
  BY AppendRefinesAuditLog DEF AppendIsAtomic
<1>2. AuditLogOfStore!Spec => []AuditLogOfStore!Honest
  BY LogIsHonest
<1> DEFINE Inv == TypeOK /\ CallInv /\ archive = <<>>
<1>3. Init => Inv
  BY TypeInit, CallInvInit DEF Init
<1>4. Inv /\ [Next]_vars => Inv'
  <2> SUFFICES ASSUME TypeOK, CallInv, archive = <<>>, [Next]_vars PROVE archive' = <<>>
    BY TypeNext, CallInvNext
  <2>1. ASSUME NEW p \in Procs, RotateFiles(p) PROVE FALSE
    BY <2>1 DEF RotateFiles, CallInv
  <2> QED BY <2>1
    DEF Next, Step, Append_, Acquire, LockExists, CheckStale, UnlinkStale, FinalCheck,
        FinalUnlink, FinalExists, WriteMeta, Index, WriteLine, TornWrite, ReadOwnMeta,
        Unlock, Crash, Age, vars, disk
<1>5. archive = <<>> /\ AuditLogOfStore!Honest => HonestOutcome
  BY DEF AuditLogOfStore!Honest, AuditLogOfStore!Events, HonestOutcome
<1> QED BY <1>1, <1>2, <1>3, <1>4, <1>5, PTL DEF Spec
=============================================================================
