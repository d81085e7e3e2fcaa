---------------------------- MODULE AtomicLedger ----------------------------
(***************************************************************************)
(* What the ledger promises its callers, with none of its machinery: a     *)
(* book of postings, one per reference, each written whole and for good in *)
(* a single step.  A call that is answered "ok" finds its reference in the *)
(* book; a call that is answered "error" may or may not have been posted.  *)
(***************************************************************************)
CONSTANTS
    Calls,          \* the calls of RecordTransaction
    LinesOf(_),     \* the entry lines a request asks for
    Acceptable(_)   \* whether a request passes the ledger's own checks

VARIABLES
    book,       \* the postings made
    asked,      \* the request of each call
    answer      \* "none", "ok" or "error" for each call

vars == <<book, asked, answer>>

Posted(ref) == \E p \in book : p.ref = ref

Answer(c, a) ==
    /\ answer[c] = "none"
    /\ answer' = [answer EXCEPT ![c] = a]
    /\ UNCHANGED asked

Init ==
    /\ book = {}
    /\ answer = [c \in Calls |-> "none"]

(* A posting appears at the moment its call is answered. *)
Post(c) ==
    /\ Acceptable(asked[c])
    /\ ~Posted(asked[c].ref)
    /\ book' = book \cup {[ref |-> asked[c].ref, lines |-> LinesOf(asked[c])]}
    /\ \E a \in {"ok", "error"} : Answer(c, a)

Acknowledge(c) ==
    /\ Posted(asked[c].ref)
    /\ Answer(c, "ok")
    /\ UNCHANGED book

Refuse(c) ==
    /\ Answer(c, "error")
    /\ UNCHANGED book

Next == \E c \in Calls : Post(c) \/ Acknowledge(c) \/ Refuse(c)

Spec == Init /\ [][Next]_vars
=============================================================================
