---------------------------- MODULE BytesTotals -----------------------------
(***************************************************************************)
(* What the bytes meter of src/tracking/bytes.go promises, with no lock    *)
(* and no goroutines: two uint64 totals that every AddBytesWritten and     *)
(* AddBytesRead call bumps in one indivisible step, and a progress         *)
(* message that carries the two totals as they are at one instant.  Each  *)
(* goroutine's returned calls are counted, so a call that returns without  *)
(* its count in the total is not a step of this specification.            *)
(***************************************************************************)
EXTENDS Integers

CONSTANTS
    Callers,        \* the goroutines that call AddBytesWritten / AddBytesRead
    WriteCounts,    \* the n callers pass to AddBytesWritten
    ReadCounts,     \* the n callers pass to AddBytesRead
    Word            \* 2^64: the modulus of uint64 arithmetic

VARIABLES
    written,        \* total bytes written
    read,           \* total bytes read
    reported,       \* the last (written, read) pair sent, <<>> before any
    counted         \* per goroutine: its calls that have returned

Init ==
    /\ written = 0
    /\ read = 0
    /\ reported = <<>>
    /\ counted = [c \in Callers |-> 0]

(* Goroutine c's call returns.                                           *)
Returned(c) == counted' = [counted EXCEPT ![c] = @ + 1]

(* A write of n >= 0 bytes by c is counted; uint64 arithmetic wraps.      *)
CountWritten(c, n) ==
    /\ n >= 0
    /\ written' = (written + n) % Word
    /\ Returned(c)
    /\ UNCHANGED <<read, reported>>

(* A read of n bytes by c is counted as uint64(n), i.e. n modulo 2^64.    *)
CountRead(c, n) ==
    /\ read' = (read + n) % Word
    /\ Returned(c)
    /\ UNCHANGED <<written, reported>>

(* A progress message carries the totals of one instant.                  *)
Report ==
    /\ reported' = <<written, read>>
    /\ UNCHANGED <<written, read, counted>>

Next ==
    \/ \E c \in Callers, n \in WriteCounts : CountWritten(c, n)
    \/ \E c \in Callers, n \in ReadCounts : CountRead(c, n)
    \/ Report

Spec == Init /\ [][Next]_<<written, read, reported, counted>>
=============================================================================
