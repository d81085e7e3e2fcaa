---------------------------- MODULE DeadLetters ----------------------------
(***************************************************************************)
(* The queue of webhook deliveries that failed, a table.  Whoever delivers *)
(* lists what is due, marks an entry, tries it and records the outcome;    *)
(* nothing claims an entry, so any two of these may overlap.  A call is    *)
(* one operation; an entry is named by the call that adds it.              *)
(***************************************************************************)
EXTENDS Handlers, Integers

CONSTANTS
    FirstLetters,   \* the entries of the start
    MaxRetries,     \* the attempts of an entry
    RetryDelays,    \* the waits after each of them
    TTL,            \* how long an entry is retried
    MaxDate         \* bound: the times that are looked at

(* Only a limit of zero is replaced: with one, or less, a new entry has no *)
(* attempt left and is retried once all the same.                          *)
ASSUME LettersAssumption ==
    /\ MaxRetries \in Int \ {0} /\ TTL \in Nat
    /\ RetryDelays \in Seq(Nat) /\ RetryDelays # <<>>
    /\ None \notin Nat

VARIABLES
    dlq,        \* the webhook_dlq table
    date,       \* the time
    renewed     \* history: the entries an operator has replayed

dlqVars == <<dlq, date, renewed>>

LetterIds == Calls \cup FirstLetters

GetRetryDelay(n) ==
    RetryDelays[IF n <= 0 THEN 1 ELSE IF n > Len(RetryDelays) THEN Len(RetryDelays) ELSE n]

NewLetter(t) ==
    [status |-> "pending", attempts |-> 1, next |-> t + GetRetryDelay(1), expires |-> t + TTL]

LettersInit ==
    /\ dlq = [e \in LetterIds |-> IF e \in FirstLetters THEN NewLetter(0) ELSE None]
    /\ date = 0
    /\ renewed = {}

(* An UPDATE of one row; of none if there is none. *)
Update(e, row) == dlq' = IF dlq[e] = None THEN dlq ELSE [dlq EXCEPT ![e] = row]

(* One statement, which succeeds or fails, with or without its effect. *)
Statement(c, change) ==
    /\ (change /\ Ok(c)) \/ (Unanswered(change, <<dlq, renewed>>) /\ Refuse(c))
    /\ UNCHANGED date

Add(c) ==
    /\ Begins(c, "add")
    /\ Statement(c, dlq' = [dlq EXCEPT ![c] = NewLetter(date)] /\ UNCHANGED renewed)

GetPendingRetries ==
    {e \in LetterIds : /\ dlq[e] # None /\ dlq[e].status = "pending"
                       /\ dlq[e].next <= date /\ dlq[e].expires > date}

(* What is due, for the one who will deliver it. *)
ListPending(c) ==
    /\ Begins(c, "pending")
    /\ (Answer(c, "ok") /\ Hold(c, GetPendingRetries)) \/ (MayFail /\ Refuse(c))
    /\ UNCHANGED dlqVars

MarkRetrying(c) ==
    /\ Begins(c, "mark")
    /\ LET e == ask[c].letter IN
       Statement(c, Update(e, [dlq[e] EXCEPT !.status = "retrying"]) /\ UNCHANGED renewed)

RecordSuccess(c) ==
    /\ Begins(c, "success")
    /\ LET e == ask[c].letter IN
       Statement(c, Update(e, [dlq[e] EXCEPT !.status = "succeeded", !.next = None])
                      /\ UNCHANGED renewed)

(* Slip: an entry is retried for ever. *)
FailedForever(row, n) ==
    [row EXCEPT !.attempts = n, !.status = "pending", !.next = date + GetRetryDelay(n)]

(* The row after the n-th attempt failed. *)
Failed(row, n) ==
    IF n >= MaxRetries
    THEN [row EXCEPT !.attempts = n, !.status = "exhausted", !.next = None]
    ELSE [row EXCEPT !.attempts = n, !.status = "pending", !.next = date + GetRetryDelay(n)]

(* RecordFailure: read the number of attempts, then write one more. *)
RecordFailure(c) ==
    \/ /\ Begins(c, "failure")
       /\ \/ /\ dlq[ask[c].letter] # None
             /\ Hold(c, dlq[ask[c].letter].attempts) /\ Goto(c, "write")
          \/ (MayFail \/ dlq[ask[c].letter] = None) /\ Refuse(c)
       /\ UNCHANGED dlqVars
    \/ /\ Serving(c, "failure", "write")
       /\ LET e == ask[c].letter IN
          Statement(c, Update(e, Failed(dlq[e], held[c] + 1)) /\ UNCHANGED renewed)

Abandon(c) ==
    /\ Begins(c, "abandon")
    /\ LET e == ask[c].letter IN
       Statement(c, Update(e, [dlq[e] EXCEPT !.status = "abandoned"]) /\ UNCHANGED renewed)

Replay(c) ==
    /\ Begins(c, "again")
    /\ LET e == ask[c].letter IN
       Statement(c, /\ Update(e, [dlq[e] EXCEPT !.status = "pending", !.next = date])
                    /\ renewed' = renewed \cup {e})

(* CleanupExpired: every pending row that is past its time. *)
CleanupExpired(c) ==
    /\ Begins(c, "cleanup")
    /\ Statement(c, /\ dlq' = [e \in LetterIds |->
                          IF dlq[e] # None /\ dlq[e].status = "pending" /\ dlq[e].expires <= date
                          THEN [dlq[e] EXCEPT !.status = "expired"] ELSE dlq[e]]
                    /\ UNCHANGED renewed)

(* GetStats: how many entries have each status. *)
GetStats(c) ==
    /\ Begins(c, "stats")
    /\ \/ /\ Answer(c, "ok")
          /\ Hold(c, [s \in {"pending", "retrying", "succeeded", "exhausted", "expired",
                             "abandoned"} |->
                        Cardinality({e \in LetterIds : dlq[e] # None /\ dlq[e].status = s})])
       \/ MayFail /\ Refuse(c)
    /\ UNCHANGED dlqVars

PassDate ==
    /\ date < MaxDate
    /\ date' = date + 1
    /\ UNCHANGED <<dlq, renewed, callVars>>

LetterOps == {"add", "pending", "mark", "success", "failure", "abandon", "again", "cleanup",
              "stats"}

LettersNext ==
    \/ \E c \in Calls :
         \/ ask[c].op \in LetterOps /\ Malformed(c) /\ UNCHANGED dlqVars
         \/ Add(c) \/ ListPending(c) \/ MarkRetrying(c) \/ RecordSuccess(c) \/ RecordFailure(c)
         \/ Abandon(c) \/ Replay(c) \/ CleanupExpired(c) \/ GetStats(c)
    \/ PassDate

-----------------------------------------------------------------------------
(* RecordFailure has sent its UPDATE of entry e. *)
Recorded(c, e) ==
    /\ ask[c].op = "failure" /\ ask[c].letter = e
    /\ at[c] = "done" /\ held[c] # None

(* Whatever operations overlap and whatever answers are lost: an entry     *)
(* that waits has a time at which it will be listed, and unless it is new  *)
(* or was replayed by hand an attempt left; an exhausted one has had all   *)
(* of them, the first delivery included; and no attempt is counted but the *)
(* first delivery and those that a RecordFailure has reported (Add,        *)
(* RecordFailure, Replay, GetPendingRetries).                              *)
LettersAreKept ==
    \A e \in LetterIds : dlq[e] # None =>
        /\ dlq[e].status = "pending" => dlq[e].next # None
        /\ dlq[e].status = "pending" /\ e \notin renewed =>
             dlq[e].attempts = 1 \/ dlq[e].attempts < MaxRetries
        /\ dlq[e].status = "exhausted" => dlq[e].attempts >= MaxRetries
        /\ dlq[e].attempts <= 1 + Cardinality({c \in Calls : Recorded(c, e)})
=============================================================================
