---------------------------- MODULE UsageLedger ----------------------------
(***************************************************************************)
(* What the accounting of usage records promises, without its queues: a    *)
(* reported record is settled once, either by crediting exactly its tokens *)
(* to its key or by giving it up, and nothing else moves a key's balance.  *)
(***************************************************************************)
EXTENDS Integers

CONSTANTS
    Records,  \* usage records the proxy hands to the plugin
    Keys,     \* api key ids
    KeyOf,    \* KeyOf[r]: the key the record names, or another principal
    Cost      \* Cost[r]: its total tokens

VARIABLES
    ledger,   \* ledger[r]: "new", "open", "credited", "lost" or "exempt"
    balance   \* balance[k]: the tokens credited to key k

ledgerVars == <<ledger, balance>>

Init ==
    /\ ledger = [r \in Records |-> "new"]
    /\ balance = [k \in Keys |-> 0]

Report(r) ==
    /\ ledger[r] = "new" /\ KeyOf[r] \in Keys
    /\ ledger' = [ledger EXCEPT ![r] = "open"]
    /\ UNCHANGED balance

\* Usage of the admin password is not accounted to any key.
Exempt(r) ==
    /\ ledger[r] = "new" /\ KeyOf[r] \notin Keys
    /\ ledger' = [ledger EXCEPT ![r] = "exempt"]
    /\ UNCHANGED balance

Credit(r) ==
    /\ ledger[r] = "open"
    /\ ledger' = [ledger EXCEPT ![r] = "credited"]
    /\ balance' = [balance EXCEPT ![KeyOf[r]] = @ + Cost[r]]

Lose(r) ==
    /\ ledger[r] = "open"
    /\ ledger' = [ledger EXCEPT ![r] = "lost"]
    /\ UNCHANGED balance

Next == \E r \in Records : Report(r) \/ Exempt(r) \/ Credit(r) \/ Lose(r)

Spec == Init /\ [][Next]_ledgerVars
=============================================================================
