-------------------------- MODULE BytesMeterProofs --------------------------
(***************************************************************************)
(* Proofs about BytesMeter for every set of goroutines, every set of       *)
(* counts and every word size: the type invariant, the mutual exclusion    *)
(* the RWMutex gives, and that the meter implements BytesTotals.           *)
(***************************************************************************)
EXTENDS BytesMeter, TLAPS

USE BytesMeterAssumption

(* The deferred uint64 addition stays a uint64.                           *)
LEMMA AddedType ==
    ASSUME NEW t \in Int, NEW n \in Int
    PROVE  Added(t, n) \in 0 .. Word - 1
BY DEF Added

(* Every count a call carries is an integer.                              *)
LEMMA OpsInt == Ops \subseteq [kind : {"written", "read"}, n : Int]
BY DEF Ops

(* The Boolean flags keep their type: every step sets them to TRUE or     *)
(* FALSE or leaves them alone.                                            *)
LEMMA FlagsStep == TypeFlags /\ [Next]_vars => TypeFlags'
BY Zenon DEF TypeFlags, Next, vars, Call, Lock, Panic, Load, StoreUnlock,
   Tick, ReadWritten, SendUnlock, Stop, Cancel, Release

(* The data keeps its type.                                               *)
LEMMA DataStep == TypeData /\ [Next]_vars => TypeData'
<1> SUFFICES ASSUME TypeData, [Next]_vars PROVE TypeData'
  OBVIOUS
<1> USE DEF TypeData, callerVars, senderVars
<1>1. ASSUME NEW c \in Callers, NEW o \in Ops, Call(c, o) PROVE TypeData'
  BY <1>1, OpsInt DEF Call
<1>2. ASSUME NEW c \in Callers, Lock(c) PROVE TypeData'
  BY <1>2 DEF Lock
<1>3. ASSUME NEW c \in Callers, Panic(c) PROVE TypeData'
  BY <1>3 DEF Panic, Release
<1>4. ASSUME NEW c \in Callers, Load(c) PROVE TypeData'
  BY <1>4 DEF Load, Counter
<1>5. ASSUME NEW c \in Callers, StoreUnlock(c) PROVE TypeData'
  <2>1. tmp[c] \in Int /\ op[c].n \in Int
    OBVIOUS
  <2>2. Added(tmp[c], op[c].n) \in 0 .. Word - 1
    BY <2>1, AddedType
  <2>3. bytesWritten' \in 0 .. Word - 1 /\ bytesRead' \in 0 .. Word - 1
    BY <1>5, <2>2 DEF StoreUnlock
  <2>4. QED
    BY <1>5, <2>3 DEF StoreUnlock, Release
<1>6. CASE Tick
  BY <1>6 DEF Tick
<1>7. CASE ReadWritten
  BY <1>7 DEF ReadWritten
<1>8. CASE SendUnlock
  BY <1>8 DEF SendUnlock
<1>9. CASE Stop
  BY <1>9 DEF Stop
<1>10. CASE Cancel
  BY <1>10 DEF Cancel
<1>11. CASE UNCHANGED vars
  BY <1>11 DEF vars, callerVars, senderVars
<1>12. QED
  BY <1>1, <1>2, <1>3, <1>4, <1>5, <1>6, <1>7, <1>8, <1>9, <1>10, <1>11
     DEF Next

(* The meter's variables keep their types.                                *)
THEOREM TypeCorrect == Spec => []TypeOK
<1>1. Init => TypeOK
  <2>1. Init => TypeFlags
    BY Zenon DEF Init, TypeFlags
  <2>2. Init => TypeData
    BY DEF Init, TypeData
  <2>3. QED
    BY <2>1, <2>2 DEF TypeOK
<1>2. TypeOK /\ [Next]_vars => TypeOK'
  BY FlagsStep, DataStep DEF TypeOK
<1>3. QED
  BY <1>1, <1>2, PTL DEF Spec
-----------------------------------------------------------------------------
(* What the RWMutex guarantees while the process lives: the writer is the *)
(* one goroutine between Lock and Unlock, it excludes the sender's RLock, *)
(* a goroutine that has loaded a counter still holds its current value,   *)
(* and the sender's loaded TotalBytesWritten is still current.            *)
LockInv ==
    /\ \A c \in Callers : writer = c <=> pc[c] \in {"locked", "loaded"}
    /\ writer # NoCaller => ~readLocked
    /\ readLocked <=> senderPc \in {"rlocked", "readW"}
    /\ \A c \in Callers : pc[c] # "idle" => op[c] \in Ops
    /\ \A c \in Callers :
          pc[c] = "loaded" =>
              /\ tmp[c] = Counter(op[c].kind)
              /\ op[c].kind = "read" \/ op[c].n >= 0
    /\ senderPc = "readW" => lw = bytesWritten

Inv == ~crashed => LockInv
(* The lock invariant holds in every reachable state.                     *)
THEOREM LockInvariant == Spec => []Inv
<1>1. Init => Inv
  BY DEF Init, Inv, LockInv
<1>2. TypeOK /\ Inv /\ [Next]_vars => Inv'
  <2> SUFFICES ASSUME TypeOK, Inv, [Next]_vars, ~crashed' PROVE LockInv'
    BY DEF Inv
  <2>0. ~crashed /\ LockInv
    <3>1. ~crashed
      BY Zenon DEF Next, vars
    <3>2. QED
      BY <3>1 DEF Inv
  <2> USE <2>0 DEF TypeOK, TypeData, LockInv, callerVars, senderVars
  <2>1. ASSUME NEW c \in Callers, NEW o \in Ops, Call(c, o) PROVE LockInv'
    <3>1. \A d \in Callers : writer' = d <=> pc'[d] \in {"locked", "loaded"}
      BY <2>1 DEF Call, Counter
    <3>2. writer' # NoCaller => ~readLocked'
      BY <2>1 DEF Call, Counter
    <3>3. readLocked' <=> senderPc' \in {"rlocked", "readW"}
      BY <2>1 DEF Call, Counter
    <3>4. \A d \in Callers : pc'[d] # "idle" => op'[d] \in Ops
      BY <2>1 DEF Call, Counter
    <3>5. \A d \in Callers :
          pc'[d] = "loaded" =>
              /\ tmp'[d] = Counter(op[d].kind)'
              /\ op'[d].kind = "read" \/ op'[d].n >= 0
      BY <2>1 DEF Call, Counter
    <3>6. senderPc' = "readW" => lw' = bytesWritten'
      BY <2>1 DEF Call, Counter
    <3>7. QED
      BY <3>1, <3>2, <3>3, <3>4, <3>5, <3>6
  <2>2. ASSUME NEW c \in Callers, Lock(c) PROVE LockInv'
    BY <2>2 DEF Lock, CanLock
  <2>3. ASSUME NEW c \in Callers, Panic(c) PROVE LockInv'
    BY <2>3 DEF Panic
  <2>4. ASSUME NEW c \in Callers, Load(c) PROVE LockInv'
    BY <2>4 DEF Load, Counter
  <2>5. ASSUME NEW c \in Callers, StoreUnlock(c) PROVE LockInv'
    BY <2>5 DEF StoreUnlock, Release, Counter
  <2>6. CASE Tick
    BY <2>6 DEF Tick, CanRLock
  <2>7. CASE ReadWritten
    BY <2>7 DEF ReadWritten
  <2>8. CASE SendUnlock
    BY <2>8 DEF SendUnlock
  <2>9. CASE Stop
    <3>1. \A c \in Callers : writer' = c <=> pc'[c] \in {"locked", "loaded"}
      BY <2>9 DEF Stop, Counter
    <3>2. writer' # NoCaller => ~readLocked'
      BY <2>9 DEF Stop, Counter
    <3>3. readLocked' <=> senderPc' \in {"rlocked", "readW"}
      BY <2>9 DEF Stop, Counter
    <3>4. \A c \in Callers : pc'[c] # "idle" => op'[c] \in Ops
      BY <2>9 DEF Stop, Counter
    <3>5. \A c \in Callers :
          pc'[c] = "loaded" =>
              /\ tmp'[c] = Counter(op[c].kind)'
              /\ op'[c].kind = "read" \/ op'[c].n >= 0
      BY <2>9 DEF Stop, Counter
    <3>6. senderPc' = "readW" => lw' = bytesWritten'
      BY <2>9 DEF Stop, Counter
    <3>7. QED
      BY <3>1, <3>2, <3>3, <3>4, <3>5, <3>6
  <2>10. CASE Cancel
    <3>1. \A c \in Callers : writer' = c <=> pc'[c] \in {"locked", "loaded"}
      BY <2>10 DEF Cancel
    <3>2. writer' # NoCaller => ~readLocked'
      BY <2>10 DEF Cancel
    <3>3. readLocked' <=> senderPc' \in {"rlocked", "readW"}
      BY <2>10 DEF Cancel
    <3>4. \A c \in Callers : pc'[c] # "idle" => op'[c] \in Ops
      BY <2>10 DEF Cancel
    <3>5. \A c \in Callers :
          pc'[c] = "loaded" =>
              /\ tmp'[c] = Counter(op[c].kind)'
              /\ op'[c].kind = "read" \/ op'[c].n >= 0
      BY <2>10 DEF Cancel, Counter
    <3>6. senderPc' = "readW" => lw' = bytesWritten'
      BY <2>10 DEF Cancel
    <3>7. QED
      BY <3>1, <3>2, <3>3, <3>4, <3>5, <3>6
  <2>11. CASE UNCHANGED vars
    <3>1. \A c \in Callers : writer' = c <=> pc'[c] \in {"locked", "loaded"}
      BY <2>11 DEF vars, Counter
    <3>2. writer' # NoCaller => ~readLocked'
      BY <2>11 DEF vars, Counter
    <3>3. readLocked' <=> senderPc' \in {"rlocked", "readW"}
      BY <2>11 DEF vars, Counter
    <3>4. \A c \in Callers : pc'[c] # "idle" => op'[c] \in Ops
      BY <2>11 DEF vars, Counter
    <3>5. \A c \in Callers :
          pc'[c] = "loaded" =>
              /\ tmp'[c] = Counter(op[c].kind)'
              /\ op'[c].kind = "read" \/ op'[c].n >= 0
      BY <2>11 DEF vars, Counter
    <3>6. senderPc' = "readW" => lw' = bytesWritten'
      BY <2>11 DEF vars, Counter
    <3>7. QED
      BY <3>1, <3>2, <3>3, <3>4, <3>5, <3>6
  <2>12. QED
    BY <2>1, <2>2, <2>3, <2>4, <2>5, <2>6, <2>7, <2>8, <2>9, <2>10, <2>11
       DEF Next
<1>3. QED
  BY <1>1, <1>2, TypeCorrect, PTL DEF Spec
(* The meter implements BytesTotals: under the lock invariant a           *)
(* StoreUnlock adds its count to the current total (the value it loaded   *)
(* is still current) as the return of its goroutine's call, and           *)
(* SendUnlock reports the two totals of the moment (the TotalBytesWritten *)
(* it loaded is still current); every other step leaves the totals, the   *)
(* last report and the returned calls alone.                              *)
THEOREM Refinement == Spec => ImplementsTotals
<1> DEFINE absVars == <<bytesWritten, bytesRead, lastSent, countedCalls>>
<1>1. Init => Abs!Init
  BY DEF Init, Abs!Init, countedCalls
<1>2. TypeOK /\ Inv /\ [Next]_vars => [Abs!Next]_absVars
  <2> SUFFICES ASSUME TypeOK, Inv, [Next]_vars
               PROVE  [Abs!Next]_absVars
    OBVIOUS
  <2> USE DEF callerVars, senderVars
  <2>0. /\ calls \in [Callers -> 0 .. MaxCalls]
        /\ pc \in [Callers -> {"idle", "waiting", "locked", "loaded"}]
    BY DEF TypeOK, TypeData
  <2>1. ASSUME NEW c \in Callers, NEW o \in Ops, Call(c, o)
        PROVE  UNCHANGED absVars
    <3>1. countedCalls' = countedCalls
      BY <2>0, <2>1 DEF Call, countedCalls
    <3>2. QED  BY <2>1, <3>1 DEF Call
  <2>2. ASSUME NEW c \in Callers, Lock(c) PROVE UNCHANGED absVars
    <3>1. countedCalls' = countedCalls
      BY <2>2 DEF Lock, countedCalls
    <3>2. QED  BY <2>2, <3>1 DEF Lock
  <2>3. ASSUME NEW c \in Callers, Panic(c) PROVE UNCHANGED absVars
    BY <2>3 DEF Panic, countedCalls
  <2>4. ASSUME NEW c \in Callers, Load(c) PROVE UNCHANGED absVars
    <3>1. countedCalls' = countedCalls
      BY <2>4 DEF Load, countedCalls
    <3>2. QED  BY <2>4, <3>1 DEF Load
  <2>5. ASSUME NEW c \in Callers, StoreUnlock(c), ~crashed PROVE Abs!Next
    <3>1. ~crashed
      BY <2>5
    <3>2. /\ op[c] \in Ops
          /\ tmp[c] = Counter(op[c].kind)
          /\ op[c].kind = "read" \/ op[c].n >= 0
      BY <2>5, <3>1 DEF Inv, LockInv, StoreUnlock
    <3>3. countedCalls' = [countedCalls EXCEPT ![c] = @ + 1]
      <4>1. pc[c] = "loaded" /\ pc' = [pc EXCEPT ![c] = "idle"]
            /\ calls' = calls
        BY <2>5 DEF StoreUnlock
      <4>2. countedCalls'[c] = countedCalls[c] + 1
        BY <2>0, <4>1 DEF countedCalls
      <4>3. \A d \in Callers \ {c} : countedCalls'[d] = countedCalls[d]
        BY <2>0, <4>1 DEF countedCalls
      <4>4. QED
        BY <4>2, <4>3 DEF countedCalls
    <3>4. CASE op[c].kind = "written"
      <4>1. op[c].n \in WriteCounts /\ op[c].n >= 0
        BY <3>2, <3>4 DEF Ops
      <4>2. Abs!CountWritten(c, op[c].n)
        BY <2>5, <3>2, <3>3, <3>4, <4>1 DEF StoreUnlock, Added, Counter,
           Abs!CountWritten, Abs!Returned
      <4>3. QED
        BY <4>1, <4>2 DEF Abs!Next
    <3>5. CASE op[c].kind # "written"
      <4>1. op[c].n \in ReadCounts
        BY <3>2, <3>5 DEF Ops
      <4>2. Abs!CountRead(c, op[c].n)
        BY <2>5, <3>2, <3>3, <3>5 DEF StoreUnlock, Added, Counter,
           Abs!CountRead, Abs!Returned
      <4>3. QED
        BY <4>1, <4>2 DEF Abs!Next
    <3>6. QED
      BY <3>4, <3>5
  <2>6. CASE Tick
    BY <2>6 DEF Tick, countedCalls
  <2>7. CASE ReadWritten
    BY <2>7 DEF ReadWritten, countedCalls
  <2>8. CASE SendUnlock /\ ~crashed
    <3>1. ~crashed
      BY <2>8
    <3>2. lw = bytesWritten
      BY <2>8, <3>1 DEF Inv, LockInv, SendUnlock
    <3>3. Abs!Report
      BY <2>8, <3>2 DEF SendUnlock, Abs!Report, countedCalls
    <3>4. QED
      BY <3>3 DEF Abs!Next
  <2>9. CASE Stop
    BY <2>9 DEF Stop, countedCalls
  <2>10. CASE Cancel
    BY <2>10 DEF Cancel, countedCalls
  <2>11. CASE UNCHANGED vars
    BY <2>11 DEF vars, countedCalls
  <2>12. QED
    BY <2>1, <2>2, <2>3, <2>4, <2>5, <2>6, <2>7, <2>8, <2>9, <2>10, <2>11
       DEF Next
<1>3. QED
  BY <1>1, <1>2, TypeCorrect, LockInvariant, PTL
     DEF Spec, ImplementsTotals, Abs!Spec
=============================================================================
