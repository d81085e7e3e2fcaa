----------------------------- MODULE AuditTrail -----------------------------
(***************************************************************************)
(* The signed audit log and its export.  Every process has a logger that   *)
(* remembers the signature of the last entry it stored, and signs it into  *)
(* the next one; neither the logger nor the export buffer has a lock, so   *)
(* that any calls of Log and of Enqueue, and the flush loop, may overlap.  *)
(* A signature covers the content of the entry, named by the call that     *)
(* makes it, its predecessor and its time to the nanosecond.  The times of *)
(* entries differ.                                                         *)
(***************************************************************************)
EXTENDS Handlers

CONSTANTS
    Loggers,        \* the processes that log
    FineClocks,     \* those whose clock tells nanoseconds
    BatchSize,      \* the entries that are exported at once
    MaxStarts       \* bound: the restarts that are looked at

VARIABLES
    trail,      \* the audit_logs table, in the order of the INSERTs
    last,       \* lastHash of each logger
    clock,      \* the time, in microseconds
    restarts,   \* the restarts so far
    loose,      \* history: the calls of Log that overlapped on a logger or lost their answer
    buffer,     \* logBuffer of the exporter
    flusher,    \* the batch the flush loop has copied, or None
    exported,   \* the entries handed to the exporter
    raced       \* history: the entries enqueued while the buffer was in use elsewhere

logVars == <<trail, last, clock, restarts, loose>>
exportVars == <<buffer, flusher, exported, raced>>
auditVars == <<logVars, exportVars>>

(* sign: the time is to the microsecond or has nanoseconds left over. *)
Sign(entry, nanos) == [of |-> entry, nanos |-> nanos]

Genesis == Sign("genesis", FALSE)

(* What a read of lastHash may see while its first value is replaced: a    *)
(* string is a pointer and a length, and "genesis" is shorter than the     *)
(* signatures.                                                             *)
Torn == Sign("torn", FALSE)

AuditInit ==
    /\ trail = <<>>
    /\ last = [l \in Loggers |-> Genesis]
    /\ clock = 0 /\ restarts = 0 /\ loose = {}
    /\ buffer = <<>> /\ flusher = None /\ exported = {} /\ raced = {}

(* A call of Log on this logger is on its way. *)
Logging(c, l) == ask[c].op = "log" /\ ask[c].logger = l /\ at[c] \in {"link", "store", "move"}

(* loadLastHash: the place of the latest entry, if there is one. *)
Latest == {n \in 1 .. Len(trail) : \A m \in 1 .. Len(trail) : trail[m].stamp <= trail[n].stamp}

(* A process starts anew, its calls gone.  An error, or an empty table, is *)
(* genesis.                                                                *)
NewSecureLogger(l) ==
    /\ restarts < MaxStarts
    /\ restarts' = restarts + 1
    /\ \/ \E n \in Latest : last' = [last EXCEPT ![l] = trail[n].sig]
       \/ (MayFail \/ trail = <<>>) /\ last' = [last EXCEPT ![l] = Genesis]
    /\ at' = [c \in Calls |-> IF Logging(c, l) THEN "done" ELSE at[c]]
    /\ UNCHANGED <<trail, clock, loose, exportVars, ask, held, reply>>

(* What a read of lastHash returns: no lock keeps it from its write. *)
LastHash(l) ==
    {last[l]} \cup
      {Torn : d \in {d \in Calls : Logging(d, l) /\ at[d] = "move" /\ last[l] = Genesis}}

(* The entry as it is signed; "by" is history, no column. *)
Row(c) ==
    [sig |-> Sign(c, held[c].nanos), prev |-> held[c].prev, stamp |-> held[c].stamp,
     of |-> c, zone |-> ask[c].zone, by |-> ask[c].logger]

Store(c) == trail' = Append(trail, Row(c))

(* The next entry of the logger of c is linked to the one of c. *)
MoveOn(c) == last' = [last EXCEPT ![ask[c].logger] = Sign(c, held[c].nanos)]

(* Log: read the clock, *)
Stamp(c) ==
    /\ Begins(c, "log")
    /\ \E nanos \in BOOLEAN :
          /\ nanos => ask[c].logger \in FineClocks
          /\ Hold(c, [stamp |-> clock + 1, nanos |-> nanos, prev |-> Genesis])
    /\ clock' = clock + 1
    /\ LET others == {d \in Calls : Logging(d, ask[c].logger)} IN
       loose' = IF others = {} THEN loose ELSE loose \cup others \cup {c}
    /\ Goto(c, "link") /\ UNCHANGED <<trail, last>>

(* link and sign, *)
Link(c) ==
    /\ Serving(c, "log", "link")
    /\ \E hash \in LastHash(ask[c].logger) : Hold(c, [held[c] EXCEPT !.prev = hash])
    /\ Goto(c, "store") /\ UNCHANGED <<trail, last, clock, loose>>

(* Slip: the chain is moved on before the entry is stored. *)
LogMovingOn(c) ==
    \/ Stamp(c) \/ Link(c)
    \/ /\ Serving(c, "log", "store")
       /\ MoveOn(c) /\ Goto(c, "move") /\ UNCHANGED <<held, trail, clock, loose>>
    \/ /\ Serving(c, "log", "move")
       /\ (Store(c) /\ Ok(c)) \/ (MayFail /\ Refuse(c) /\ UNCHANGED trail)
       /\ UNCHANGED <<last, clock, loose>>

(* store, and only then move the chain on. *)
Log(c) ==
    \/ Stamp(c) \/ Link(c)
    \/ /\ Serving(c, "log", "store")
       /\ \/ Store(c) /\ Goto(c, "move") /\ UNCHANGED <<held, loose>>
          \/ /\ Unanswered(Store(c) /\ loose' = loose \cup {c}, <<trail, loose>>)
             /\ Refuse(c)
       /\ UNCHANGED <<last, clock>>
    \/ /\ Serving(c, "log", "move")
       /\ MoveOn(c) /\ Ok(c) /\ UNCHANGED <<trail, clock, loose>>

(* The entries of a zone, by their places in the table. *)
RecentLogs(zone) == {n \in 1 .. Len(trail) : trail[n].zone = zone}

(* Verify: the entry is signed again as it is read back, and PostgreSQL    *)
(* keeps no nanoseconds.                                                   *)
Verify(row) == row.sig = Sign(row.of, FALSE)

(* Neighbours in the zone's log, by time, must be linked. *)
Linked(logs) ==
    \A n, m \in logs :
        /\ trail[n].stamp < trail[m].stamp
        /\ \A k \in logs : ~(trail[n].stamp < trail[k].stamp /\ trail[k].stamp < trail[m].stamp)
        => trail[m].prev = trail[n].sig

VerifyChain(c) ==
    /\ Begins(c, "verifychain")
    /\ LET logs == RecentLogs(ask[c].zone)
           valid == Linked(logs) /\ \A n \in logs : Verify(trail[n])
       IN  \/ Answer(c, IF valid THEN "ok" ELSE "broken") /\ UNCHANGED held
           \/ MayFail /\ Refuse(c)
    /\ UNCHANGED auditVars

-----------------------------------------------------------------------------
(* The exporter *)

InSeq(s) == {s[n] : n \in 1 .. Len(s)}

(* Export runs on its own; an entry of a failed one is only printed. *)
Export(batch) == exported' = exported \cup InSeq(batch)

(* append writes behind the slice that was read, in the array it shares    *)
(* with the buffer while that has room, and else in a copy.                *)
Appended(c) ==
    {Append(held[c], c),
     [n \in 1 .. Len(held[c]) + 1 |->
        IF n > Len(held[c]) THEN c ELSE IF n <= Len(buffer) THEN buffer[n] ELSE held[c][n]]}

(* History: the buffer is replaced by one who has read this of it. *)
Replaces(read) == raced' = IF buffer # read THEN raced \cup InSeq(buffer) ELSE raced

(* The second half of flush: clear the buffer, and export what was copied. *)
Clear(copy) == buffer' = <<>> /\ Export(copy) /\ Replaces(copy)

(* Enqueue: append reads the buffer and writes it; a full one is flushed.  *)
Enqueue(c) ==
    \/ /\ Begins(c, "enqueue")
       /\ Hold(c, buffer) /\ Goto(c, "append")
       /\ UNCHANGED <<buffer, exported, raced>>
    \/ /\ Serving(c, "enqueue", "append")
       /\ buffer' \in Appended(c) /\ Replaces(held[c])
       /\ Goto(c, "full") /\ UNCHANGED <<held, exported>>
    \/ /\ Serving(c, "enqueue", "full")
       /\ IF Len(buffer) >= BatchSize THEN Goto(c, "flush") /\ UNCHANGED held ELSE Ok(c)
       /\ UNCHANGED <<buffer, exported, raced>>
    \/ /\ Serving(c, "enqueue", "flush")
       /\ IF buffer # <<>> THEN Hold(c, buffer) /\ Goto(c, "clear") ELSE Ok(c)
       /\ UNCHANGED <<buffer, exported, raced>>
    \/ /\ Serving(c, "enqueue", "clear")
       /\ Clear(held[c]) /\ Ok(c)

(* Slip: the buffer is cleared before it is copied. *)
FlushClearingFirst ==
    \/ /\ flusher = None /\ buffer # <<>>
       /\ flusher' = <<>> /\ buffer' = <<>> /\ UNCHANGED <<exported, raced>>
    \/ /\ flusher # None
       /\ Export(flusher) /\ flusher' = None /\ UNCHANGED <<buffer, raced>>

(* flush of the ticker: copy, then clear and export. *)
Flush ==
    \/ /\ flusher = None /\ buffer # <<>>
       /\ flusher' = buffer
       /\ UNCHANGED <<buffer, exported, raced>>
    \/ /\ flusher # None
       /\ Clear(flusher) /\ flusher' = None

AuditOps == {"log", "verifychain", "enqueue"}

AuditNext ==
    \/ \E c \in Calls :
         \/ ask[c].op \in AuditOps /\ Malformed(c) /\ UNCHANGED auditVars
         \/ Log(c) /\ UNCHANGED <<restarts, exportVars>>
         \/ VerifyChain(c)
         \/ Enqueue(c) /\ UNCHANGED <<logVars, flusher>>
    \/ \E l \in Loggers : NewSecureLogger(l)
    \/ Flush /\ UNCHANGED <<logVars, callVars>>

-----------------------------------------------------------------------------
(* Every entry is linked to genesis or to an entry stored before it,       *)
(* whatever stores failed or lost their answer, unless it read the hash    *)
(* while another call replaced it; and a chain is reported as broken only  *)
(* if a restart, a second logger, a second zone, an overlap or a lost      *)
(* answer came in between, or a time had nanoseconds (Log, VerifyChain).   *)
ChainsHold ==
    /\ \A n \in 1 .. Len(trail) :
         \/ trail[n].prev = Genesis
         \/ trail[n].prev = Torn /\ trail[n].of \in loose
         \/ \E m \in 1 .. n - 1 : trail[m].sig = trail[n].prev
    /\ \A c \in Calls : ask[c].op = "verifychain" /\ reply[c] = "broken" =>
         \/ restarts > 0 \/ loose # {}
         \/ \E n \in 1 .. Len(trail) : trail[n].sig.nanos
         \/ \E n, m \in 1 .. Len(trail) :
               trail[n].by # trail[m].by \/ trail[n].zone # trail[m].zone

(* An entry that was enqueued while nobody else used the buffer waits in   *)
(* it or has been handed to the exporter (Enqueue, flush).                 *)
NothingIsDropped ==
    \A c \in Calls : ask[c].op = "enqueue" /\ reply[c] = "ok" =>
        c \in exported \cup raced \cup InSeq(buffer)
=============================================================================
