----------------------------- MODULE BytesMeter -----------------------------
(***************************************************************************)
(* bytesMeter of src/tracking/bytes.go: two uint64 counters behind a       *)
(* sync.RWMutex, bumped by any number of goroutines (AddBytesWritten,      *)
(* AddBytesRead) and read by the goroutine of Launch/Start, which sends    *)
(* them in a progress message every 5 seconds until the context is done.   *)
(*                                                                         *)
(* Each call is split where another goroutine could run in between: the    *)
(* Lock, the load of the counter, and the store of the sum with the        *)
(* deferred Unlock (b.x += uint64(n) is a load, an add and a store).  The  *)
(* sender's RLock, its two loads that build the message, and the respFunc  *)
(* call with the deferred RUnlock are steps of their own.  A panic is not  *)
(* recovered by any caller in the repository: it ends the process.         *)
(***************************************************************************)
EXTENDS Integers

CONSTANTS
    Callers,        \* goroutines that call AddBytesWritten / AddBytesRead
    WriteCounts,    \* the n they pass to AddBytesWritten
    ReadCounts,     \* the n they pass to AddBytesRead
    MaxCalls,       \* bound: calls per goroutine
    Word,           \* 2^64: the modulus of uint64 arithmetic
    NoCaller        \* model value: nobody holds mu for writing

ASSUME BytesMeterAssumption ==
    /\ NoCaller \notin Callers
    /\ WriteCounts \subseteq Int /\ ReadCounts \subseteq Int
    /\ MaxCalls \in Nat
    /\ Word \in Nat \ {0}

VARIABLES
    bytesWritten,   \* bytesMeter.bytesWritten
    bytesRead,      \* bytesMeter.bytesRead
    writer,         \* the goroutine holding mu.Lock, or NoCaller
    readLocked,     \* the sender holds mu.RLock
    pc,             \* per caller: "idle", "waiting", "locked", "loaded"
    op,             \* per caller: the call in progress [kind, n]
    tmp,            \* per caller: the counter value it loaded
    calls,          \* per caller: calls made so far
    senderPc,       \* "wait", "rlocked", "readW", "stopped"
    lw,             \* the TotalBytesWritten the sender has loaded
    lastSent,       \* the last (written, read) pair passed to respFunc
    ctxDone,        \* the request context is done
    crashed         \* a panic ended the process

callerVars == <<pc, op, tmp, calls>>
senderVars == <<senderPc, lw, lastSent>>
vars == <<bytesWritten, bytesRead, writer, readLocked, callerVars,
          senderVars, ctxDone, crashed>>

Ops == [kind : {"written"}, n : WriteCounts] \cup [kind : {"read"}, n : ReadCounts]

(* The counter a call of the given kind updates.                          *)
Counter(kind) == IF kind = "written" THEN bytesWritten ELSE bytesRead

-----------------------------------------------------------------------------
(* Mutants: plausible slips in the definition that follows each one.      *)
MutAddedNoWrap(t, n) == t + n
MutCanLockIgnoresWriter == ~readLocked
MutReleaseKept == writer' = writer
-----------------------------------------------------------------------------

(* b.x += uint64(n): a two's-complement int reinterpreted as uint64 and   *)
(* added modulo 2^64.                                                     *)
Added(t, n) == (t + n) % Word

(* sync.RWMutex: Lock needs no writer and no reader; RLock no writer.     *)
CanLock == writer = NoCaller /\ ~readLocked
CanRLock == writer = NoCaller

(* The deferred b.mu.Unlock().                                            *)
Release == writer' = NoCaller

Init ==
    /\ bytesWritten = 0 /\ bytesRead = 0
    /\ writer = NoCaller /\ readLocked = FALSE
    /\ pc = [c \in Callers |-> "idle"]
    /\ op = [c \in Callers |-> [kind |-> "read", n |-> 0]]
    /\ tmp = [c \in Callers |-> 0]
    /\ calls = [c \in Callers |-> 0]
    /\ senderPc = "wait" /\ lw = 0 /\ lastSent = <<>>
    /\ ctxDone = FALSE /\ crashed = FALSE

(* A goroutine calls AddBytesWritten(n) or AddBytesRead(n) and blocks in  *)
(* b.mu.Lock().                                                           *)
Call(c, o) ==
    /\ pc[c] = "idle" /\ calls[c] < MaxCalls
    /\ pc' = [pc EXCEPT ![c] = "waiting"]
    /\ op' = [op EXCEPT ![c] = o]
    /\ calls' = [calls EXCEPT ![c] = @ + 1]
    /\ UNCHANGED <<bytesWritten, bytesRead, writer, readLocked, tmp,
                   senderVars, ctxDone, crashed>>

(* b.mu.Lock() returns.                                                   *)
Lock(c) ==
    /\ pc[c] = "waiting" /\ CanLock
    /\ writer' = c
    /\ pc' = [pc EXCEPT ![c] = "locked"]
    /\ UNCHANGED <<bytesWritten, bytesRead, readLocked, op, tmp, calls,
                   senderVars, ctxDone, crashed>>

(* AddBytesWritten: if n < 0 { panic("negative value") }; the deferred    *)
(* Unlock runs while the panic unwinds, and the process dies.             *)
Panic(c) ==
    /\ pc[c] = "locked" /\ op[c].kind = "written" /\ op[c].n < 0
    /\ Release
    /\ crashed' = TRUE
    /\ UNCHANGED <<bytesWritten, bytesRead, readLocked, callerVars,
                   senderVars, ctxDone>>

(* The load of b.bytesWritten / b.bytesRead for the += .                  *)
Load(c) ==
    /\ pc[c] = "locked"
    /\ op[c].kind = "read" \/ op[c].n >= 0
    /\ tmp' = [tmp EXCEPT ![c] = Counter(op[c].kind)]
    /\ pc' = [pc EXCEPT ![c] = "loaded"]
    /\ UNCHANGED <<bytesWritten, bytesRead, writer, readLocked, op, calls,
                   senderVars, ctxDone, crashed>>

(* The store of the sum, then the deferred Unlock; the call returns.      *)
StoreUnlock(c) ==
    /\ pc[c] = "loaded"
    /\ IF op[c].kind = "written"
       THEN /\ bytesWritten' = Added(tmp[c], op[c].n)
            /\ UNCHANGED bytesRead
       ELSE /\ bytesRead' = Added(tmp[c], op[c].n)
            /\ UNCHANGED bytesWritten
    /\ Release
    /\ pc' = [pc EXCEPT ![c] = "idle"]
    /\ UNCHANGED <<readLocked, op, tmp, calls, senderVars, ctxDone, crashed>>

(* Start: time.After(5s) fires first; Send takes b.mu.RLock().            *)
Tick ==
    /\ senderPc = "wait" /\ ~ctxDone /\ CanRLock
    /\ readLocked' = TRUE
    /\ senderPc' = "rlocked"
    /\ UNCHANGED <<bytesWritten, bytesRead, writer, callerVars, lw, lastSent,
                   ctxDone, crashed>>

(* Send loads b.bytesWritten into the ProcessedBytes message.             *)
ReadWritten ==
    /\ senderPc = "rlocked"
    /\ lw' = bytesWritten
    /\ senderPc' = "readW"
    /\ UNCHANGED <<bytesWritten, bytesRead, writer, readLocked, callerVars,
                   lastSent, ctxDone, crashed>>

(* Send loads b.bytesRead, calls respFunc (an error is only logged) and   *)
(* the deferred RUnlock runs; Start loops.                                *)
SendUnlock ==
    /\ senderPc = "readW"
    /\ lastSent' = <<lw, bytesRead>>
    /\ readLocked' = FALSE
    /\ senderPc' = "wait"
    /\ UNCHANGED <<bytesWritten, bytesRead, writer, callerVars, lw,
                   ctxDone, crashed>>

(* Start: <-ctx.Done() is ready; the goroutine returns.                   *)
Stop ==
    /\ senderPc = "wait" /\ ctxDone
    /\ senderPc' = "stopped"
    /\ UNCHANGED <<bytesWritten, bytesRead, writer, readLocked, callerVars,
                   lw, lastSent, ctxDone, crashed>>

(* The request's context is cancelled or ends.                            *)
Cancel ==
    /\ ~ctxDone
    /\ ctxDone' = TRUE
    /\ UNCHANGED <<bytesWritten, bytesRead, writer, readLocked, callerVars,
                   senderVars, crashed>>

Next ==
    /\ ~crashed
    /\ \/ \E c \in Callers :
             \/ \E o \in Ops : Call(c, o)
             \/ Lock(c) \/ Panic(c) \/ Load(c) \/ StoreUnlock(c)
       \/ Tick \/ ReadWritten \/ SendUnlock \/ Stop \/ Cancel

(* Go's RWMutex keeps new readers out once a writer waits, and a writer   *)
(* out while readers hold it, so a blocked Lock or RLock is eventually    *)
(* granted: strong fairness.  The other steps run on their own.           *)
Fairness ==
    /\ \A c \in Callers :
          /\ SF_vars(Lock(c))
          /\ WF_vars(Panic(c)) /\ WF_vars(Load(c)) /\ WF_vars(StoreUnlock(c))
    /\ SF_vars(Tick)
    /\ WF_vars(ReadWritten) /\ WF_vars(SendUnlock) /\ WF_vars(Stop)

Spec == Init /\ [][Next]_vars
FairSpec == Spec /\ Fairness

-----------------------------------------------------------------------------
(* The type invariant, split into the Boolean flags and the data.        *)
TypeFlags ==
    readLocked \in BOOLEAN /\ ctxDone \in BOOLEAN /\ crashed \in BOOLEAN

TypeData ==
    /\ bytesWritten \in 0 .. Word - 1 /\ bytesRead \in 0 .. Word - 1
    /\ writer \in Callers \cup {NoCaller}
    /\ pc \in [Callers -> {"idle", "waiting", "locked", "loaded"}]
    /\ op \in [Callers -> [kind : {"written", "read"}, n : Int]]
    /\ tmp \in [Callers -> 0 .. Word - 1]
    /\ calls \in [Callers -> 0 .. MaxCalls]
    /\ senderPc \in {"wait", "rlocked", "readW", "stopped"}
    /\ lw \in 0 .. Word - 1
    /\ lastSent \in {<<>>} \cup ((0 .. Word - 1) \X (0 .. Word - 1))

TypeOK == TypeFlags /\ TypeData

(* The calls of each goroutine that have returned: all it made, less the  *)
(* one in progress.                                                       *)
countedCalls ==
    [c \in Callers |-> IF pc[c] = "idle" THEN calls[c] ELSE calls[c] - 1]

Abs == INSTANCE BytesTotals
           WITH written <- bytesWritten, read <- bytesRead, reported <- lastSent,
                counted <- countedCalls

(* The meter implements BytesTotals: however the goroutines interleave,   *)
(* every AddBytes call that returns has added its count to the total in   *)
(* one indivisible step (no update is lost, also when two calls add the   *)
(* same count), and every message carries the two totals of one instant.  *)
ImplementsTotals == Abs!Spec

(* Every AddBytes call returns, unless the process died: the deferred     *)
(* Unlock releases mu on every path, so no caller blocks for good.        *)
CallsReturn ==
    \A c \in Callers : pc[c] = "waiting" ~> (pc[c] = "idle" \/ crashed)

(* Progress counters only grow (spec 4.G): a message never reports fewer  *)
(* bytes written or read than the one before it.                          *)
ReportedTotalsMonotone ==
    [][lastSent # <<>> /\ lastSent' # lastSent =>
          lastSent'[1] >= lastSent[1] /\ lastSent'[2] >= lastSent[2]]_lastSent
=============================================================================
