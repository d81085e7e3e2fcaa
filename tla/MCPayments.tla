----------------------------- MODULE MCPayments -----------------------------
(* Small instances for TLC: Payments by itself, with one split payment,    *)
(* and PaymentPipeline with an ordinary one.                               *)
EXTENDS PaymentPipeline

CONSTANTS c1, c2, c3, pi1, k1

ThreeCalls == {c1, c2, c3}
TwoCalls == {c1, c2}
OneIntent == {pi1}
OneKey == {k1}

MCAmount == [i \in Intents |-> 3]
MCFee == [i \in Intents |-> 1]
NoFee == [i \in Intents |-> 0]

(* The handlers with neither the consumer nor the reconciler running. *)
PaymentsAlone ==
    PipelineInit /\ [][Next /\ UNCHANGED <<consumerVars, auditVars>>]_pipeVars

Ask(op, i, k, f) == [op |-> op, intent |-> i, key |-> k, fault |-> f]

(* All that can be asked of a payment, with and without a key, and the faulty requests. *)
AllKinds ==
    UNION {{Ask(op, i, k, "none") : op \in {"confirm", "refund"},
                                    k \in {k1, NoKey}}
             \cup {Ask("create", i, k1, "none"),
                   Ask("confirm", i, NoKey, "body"),
                   Ask("create", i, NoKey, "user"),
                   Ask("refund", i, k1, "user")} : i \in Intents}

(* Nothing tells the calls apart but the requests they are given. *)
CallSymmetry == Permutations(Calls)

ConfirmWithKey == {Ask("confirm", pi1, k1, "none")}

ConfirmOrRefund ==
    {Ask(op, i, NoKey, "none") : op \in {"confirm", "refund"}, i \in Intents}
=============================================================================
