---------------------------- MODULE ScoreLedger ----------------------------
(***************************************************************************)
(* What the relay promises its consumers, without requests, handlers,      *)
(* texts or locks: a ledger of credits, at most one per contributor and    *)
(* (indicator, epoch), and a board that shows for every (indicator, epoch) *)
(* the sum of the weights credited to it, with no credit lost or counted   *)
(* twice.  A restart forgets everything at once: the ledger and the board  *)
(* never disagree.                                                         *)
(***************************************************************************)
EXTENDS Naturals

CONSTANTS
    Contributors,   \* holders of a credential secret
    Keys,           \* (indicator, epoch) pairs
    MaxScore        \* the board's largest entry

VARIABLES
    ledger,         \* the credits given since the last restart
    board           \* the score shown for each key

ledgerVars == <<ledger, board>>

Empty == ledger = {} /\ board = [k \in Keys |-> 0]

\* Credit contributor c with weight w under k: only once, and never past MaxScore.
Credit(c, k, w) ==
    /\ \A entry \in ledger : ~ (entry.contributor = c /\ entry.key = k)
    /\ board[k] + w <= MaxScore
    /\ ledger' = ledger \cup {[contributor |-> c, key |-> k, weight |-> w]}
    /\ board' = [board EXCEPT ![k] = @ + w]

Forget == Empty'

LedgerNext ==
    \/ \E c \in Contributors, k \in Keys, w \in 0..MaxScore : Credit(c, k, w)
    \/ Forget

LedgerSpec == Empty /\ [][LedgerNext]_ledgerVars

=============================================================================
