------------------------------- MODULE Retry -------------------------------
(***************************************************************************)
(* Retries with exponential backoff and the dead letter queue, one Redis   *)
(* stream per zone, of the operations that failed to the last.  An entry   *)
(* is named by the call that failed.                                       *)
(***************************************************************************)
EXTENDS Handlers

CONSTANTS
    MaxAttempts,    \* the attempts of an operation
    InitialDelay,   \* the wait after the first attempt,
    Multiplier,     \* what it grows by,
    MaxDelay        \* and its limit

(* The other settings may be anything, a first delay longer than the       *)
(* longest too: NewRetrier replaces only what is zero.                     *)
ASSUME RetryAssumption == MaxAttempts \in Nat \ {0}

(* What the first delay has grown by after this many attempts. *)
Growth(attempt) == Multiplier ^ (attempt - 1)

VARIABLES
    attempts,   \* history: the attempts made for each call
    ended,      \* the calls whose context has ended
    letters,    \* the dead letters of the stream, with the attempts they tell of
    purged,     \* history: the letters that were removed
    unheard,    \* history: the calls whose XADD to the queue returned an error
    replayed    \* how often each event was added to its original stream again

retryVars == <<attempts, ended, letters, purged, unheard, replayed>>

RetryInit ==
    /\ attempts = [c \in Calls |-> 0]
    /\ ended = {} /\ letters = {} /\ purged = {} /\ unheard = {}
    /\ replayed = [c \in Calls |-> 0]

CalculateDelay(attempt) ==
    LET delay == InitialDelay * Growth(attempt) IN
    IF delay > MaxDelay THEN MaxDelay ELSE delay

(* Whether Execute waits for another attempt. *)
Again(attempt) == attempt < MaxAttempts

(* Execute: the operation runs; a success ends the loop, the last failure  *)
(* ends it, another failure waits.                                         *)
Attempt(c) ==
    /\ Begins(c, "retry") \/ Serving(c, "retry", "attempt")
    /\ attempts' = [attempts EXCEPT ![c] = @ + 1]
    /\ \/ Answer(c, "ok") /\ UNCHANGED held
       \/ /\ MayFail
          /\ IF Again(attempts[c] + 1)
             THEN Hold(c, CalculateDelay(attempts[c] + 1)) /\ Goto(c, "wait")
             ELSE Goto(c, "bury") /\ UNCHANGED held
    /\ UNCHANGED <<ended, letters, purged, unheard, replayed>>

(* The context of a call is cancelled or runs out of time. *)
EndContext(c) ==
    /\ ask[c].op = "retry" /\ at[c] # "done" /\ c \notin ended
    /\ ended' = ended \cup {c}
    /\ UNCHANGED <<callVars, attempts, letters, purged, unheard, replayed>>

(* The select: the delay passes, or the context has ended. *)
Wait(c) ==
    /\ Serving(c, "retry", "wait")
    /\ Goto(c, "attempt") \/ (c \in ended /\ Goto(c, "bury"))
    /\ UNCHANGED <<held, retryVars>>

(* The entry says that all attempts were made, however Execute ended. *)
Bury(c) == letters' = letters \cup {[call |-> c, attempts |-> MaxAttempts]}

(* Slip: the entry is sent with a context of its own, so that a cancelled  *)
(* call is buried too.                                                     *)
SendToDLQDetached(c) ==
    /\ Serving(c, "retry", "bury")
    /\ \/ Bury(c) /\ UNCHANGED unheard
       \/ Unanswered(Bury(c), letters) /\ unheard' = unheard \cup {c}
    /\ Answer(c, "failed")
    /\ UNCHANGED <<held, attempts, ended, purged, replayed>>

(* ExecuteWithDLQ: an error is buried, if Redis takes it, and returned.    *)
(* Under a context that has ended XADD returns before it is sent.          *)
SendToDLQ(c) ==
    /\ Serving(c, "retry", "bury")
    /\ \/ c \notin ended /\ Bury(c) /\ UNCHANGED unheard
       \/ /\ c \notin ended /\ Unanswered(Bury(c), letters)
          /\ unheard' = unheard \cup {c}
       \/ c \in ended /\ UNCHANGED <<letters, unheard>>
    /\ Answer(c, "failed")
    /\ UNCHANGED <<held, attempts, ended, purged, replayed>>

(* ReplayDLQEntry: whatever entry is handed in goes to the stream that it  *)
(* names; the queue is neither read nor changed.                           *)
PublishAgain(e) == replayed' = [replayed EXCEPT ![e] = @ + 1]

ReplayDLQEntry(c) ==
    /\ Begins(c, "replay")
    /\ \E e \in Calls : \/ PublishAgain(e) /\ Ok(c)
                        \/ Unanswered(PublishAgain(e), replayed) /\ Refuse(c)
    /\ UNCHANGED <<attempts, ended, letters, purged, unheard>>

(* XDEL: an entry that is not there is no error. *)
Remove(e) ==
    /\ letters' = {x \in letters : x.call # e}
    /\ purged' = purged \cup {x \in letters : x.call = e}

PurgeDLQEntry(c) ==
    /\ Begins(c, "purge")
    /\ \E e \in Calls : \/ Remove(e) /\ Ok(c)
                        \/ Unanswered(Remove(e), <<letters, purged>>) /\ Refuse(c)
    /\ UNCHANGED <<attempts, ended, unheard, replayed>>

(* GetDLQEntries: all of them, whatever count is asked for. *)
GetDLQEntries(c) ==
    /\ Begins(c, "letters")
    /\ (Answer(c, "ok") /\ Hold(c, letters)) \/ (MayFail /\ Refuse(c))
    /\ UNCHANGED retryVars

RetryOps == {"retry", "replay", "purge", "letters"}

RetryNext ==
    \E c \in Calls :
        \/ ask[c].op \in RetryOps /\ Malformed(c) /\ UNCHANGED retryVars
        \/ Attempt(c) \/ EndContext(c) \/ Wait(c) \/ SendToDLQ(c)
        \/ ReplayDLQEntry(c) \/ PurgeDLQEntry(c) \/ GetDLQEntries(c)

-----------------------------------------------------------------------------
(* A dead letter tells the truth about its operation: that failed, and was *)
(* tried as often as the letter says, although ExecuteWithDLQ writes the   *)
(* configured number into every letter, that of a call cancelled after     *)
(* fewer attempts too; it does so because the context that cut the         *)
(* attempts short also keeps the letter back.  The other way round, an     *)
(* operation that has failed for good has its letter until that is purged, *)
(* unless its context had ended or Redis answered with an error            *)
(* (ExecuteWithDLQ, sendToDLQ).                                            *)
FailuresAreBuried ==
    /\ \A x \in letters \cup purged :
         reply[x.call] = "failed" /\ x.attempts = attempts[x.call]
    /\ \A c \in Calls : ask[c].op \in RetryOps /\ reply[c] = "failed" =>
         \/ c \in ended \cup unheard
         \/ \E x \in letters \cup purged : x.call = c
=============================================================================
