-------------------------- MODULE MembershipOracle --------------------------
(***************************************************************************)
(* What private set intersection stands in for: somebody trusted to whom   *)
(* the holder hands its lists and whom the queriers ask about one          *)
(* indicator at a time.  A query is answered at most once, about the       *)
(* indicator that was asked, from a list the holder did hand over; a yes   *)
(* is always true.  Without points, keys or messages: these may make a     *)
(* listed indicator be missed, and the answer fail to come.                *)
(***************************************************************************)
EXTENDS Naturals

CONSTANTS Queriers, Items, NoItem

VARIABLES
    published,      \* the lists handed over
    pending,        \* what each querier waits to hear about
    answered        \* the answers given

oracleVars == <<published, pending, answered>>

OracleInit ==
    /\ published = {}
    /\ pending = [q \in Queriers |-> NoItem]
    /\ answered = {}

Publish(items) ==
    /\ published' = published \cup {items}
    /\ UNCHANGED <<pending, answered>>

Query(q, item) ==
    /\ pending' = [pending EXCEPT ![q] = item]
    /\ UNCHANGED <<published, answered>>

Answer(q, items, found) ==
    /\ pending[q] # NoItem
    /\ items \in published
    /\ found => pending[q] \in items
    /\ answered' = answered \cup {[item |-> pending[q], list |-> items, found |-> found]}
    /\ pending' = [pending EXCEPT ![q] = NoItem]
    /\ UNCHANGED published

GiveUp(q) ==
    /\ pending' = [pending EXCEPT ![q] = NoItem]
    /\ UNCHANGED <<published, answered>>

OracleNext ==
    \/ \E items \in SUBSET Items : Publish(items)
    \/ \E q \in Queriers :
        \/ \E item \in Items : Query(q, item)
        \/ \E items \in published, found \in BOOLEAN : Answer(q, items, found)
        \/ GiveUp(q)

OracleSpec == OracleInit /\ [][OracleNext]_oracleVars

=============================================================================
