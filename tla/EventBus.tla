------------------------------ MODULE EventBus ------------------------------
(***************************************************************************)
(* The Redis Streams event bus (app/events/redis_streams.py): publishers   *)
(* append to one stream, and every application process runs one consumer   *)
(* loop.  All loops read as the same consumer of the same group, always    *)
(* with the id ">": entries never handed out before.  What a loop does     *)
(* with the entry it has reached is left to the module that extends this   *)
(* one; it ends with XAck.                                                 *)
(***************************************************************************)
EXTENDS Integers, Sequences

CONSTANTS
    EventKinds,     \* what handlers tell apart of an event: its type and user
    Procs,          \* application processes
    BatchSize,      \* count of XREADGROUP
    MaxLen,         \* maxlen of XADD
    MaxPublished    \* bound: entries ever published

ASSUME BusAssumption ==
    /\ BatchSize \in Nat \ {0}
    /\ MaxLen \in Nat \ {0}
    /\ MaxPublished \in Nat

Entries == 1..MaxPublished

VARIABLES
    stream,     \* every entry ever added; entry i has the id i
    first,      \* the oldest entry not trimmed away
    last,       \* the group's last delivered id
    pending,    \* the group's pending entries: handed out, not acknowledged
    batch       \* each loop's batch: the entry it is at, and the last one

busVars == <<stream, first, last, pending, batch>>

NoBatch == [at |-> 1, upto |-> 0]

BusTypeOK ==
    /\ stream \in Seq(EventKinds) /\ Len(stream) <= MaxPublished
    /\ first \in 1..(MaxPublished + 1)
    /\ last \in 0..Len(stream)
    /\ pending \subseteq 1..last
    /\ batch \in [Procs -> [at : Nat \ {0}, upto : 0..last]]

BusInit ==
    /\ stream = <<>>
    /\ first = 1
    /\ last = 0
    /\ pending = {}
    /\ batch = [p \in Procs |-> NoBatch]

InBatch(p) == batch[p].at <= batch[p].upto

\* publish: XADD with an approximate maxlen, so that Redis trims the stream to
\* MaxLen entries, or not yet.
Publish(k) ==
    /\ Len(stream) < MaxPublished
    /\ stream' = Append(stream, k)
    /\ LET trimmed == Len(stream) + 2 - MaxLen
       IN  first' \in {first, IF trimmed > first THEN trimmed ELSE first}
    /\ UNCHANGED <<last, pending, batch>>

\* The entries XREADGROUP would hand out now.
ReadFrom == IF last + 1 < first THEN first ELSE last + 1

\* Mutant: a full batch, whether there are so many entries or not.
ReadUptoFull == ReadFrom + BatchSize - 1

ReadUpto == IF Len(stream) < ReadFrom + BatchSize - 1 THEN Len(stream) ELSE ReadFrom + BatchSize - 1

\* Mutant: the loop reads from the id "0", that is what is still pending.
XReadGroupAgain(p) ==
    /\ ~InBatch(p)
    /\ \E i \in pending \cup (ReadFrom..Len(stream)) :
          /\ batch' = [batch EXCEPT ![p] = [at |-> i, upto |-> i]]
          /\ last' = IF i > last THEN i ELSE last
          /\ pending' = pending \cup {i}
    /\ UNCHANGED <<stream, first>>

\* The loop has worked off its batch and reads the next one.
XReadGroup(p) ==
    /\ ~InBatch(p) /\ ReadFrom <= ReadUpto
    /\ batch' = [batch EXCEPT ![p] = [at |-> ReadFrom, upto |-> ReadUpto]]
    /\ last' = ReadUpto
    /\ pending' = pending \cup (ReadFrom..ReadUpto)
    /\ UNCHANGED <<stream, first>>

\* The handlers of the entry are done and none has raised.
XAck(p) ==
    /\ pending' = pending \ {batch[p].at}
    /\ batch' = [batch EXCEPT ![p].at = @ + 1]
    /\ UNCHANGED <<stream, first, last>>

\* The process stops, or an exception leaves the loop over the batch: the
\* rest of the batch stays pending.
DropBatch(p) ==
    /\ batch' = [batch EXCEPT ![p] = NoBatch]
    /\ UNCHANGED <<stream, first, last, pending>>
=============================================================================
