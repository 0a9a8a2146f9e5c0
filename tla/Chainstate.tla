----------------------------- MODULE Chainstate -----------------------------
(***************************************************************************)
(* What an execution chainstate promises its callers (the contract of       *)
(* ExecutionChainStore, src/src/chain_store.rs): a tip and the coins        *)
(* unspent at it change together, batch by batch; the state on disk is one  *)
(* the chainstate has reported, and a crash falls back to it.               *)
(*                                                                          *)
(* log[1] is the durable state and the last element the reported one; the   *)
(* states between them become durable in order.                             *)
(***************************************************************************)
EXTENDS BlockTree

VARIABLE log

State(tip, coins) == [tip |-> tip, coins |-> coins]

Init == log = <<State(Base, BaseCoins)>>

Reported == log[Len(log)]

Extended(s) == State(LastOr(s, Base), CoinsAfter(Reported.coins, s))

\* A batch is accepted whole, on top of the reported tip.  It may become durable
\* at once, later, or together with the batch before it.
Connect(s) ==
    /\ Linked(Reported.tip, s)
    /\ Valid(Reported.coins, s)
    /\ \/ log' = Append(log, Extended(s))
       \/ Len(log) = 1 /\ log' = <<Extended(s)>>
       \/ Len(log) > 1 /\ log' = [log EXCEPT ![Len(log)] = Extended(s)]

\* The next accepted state becomes durable.
Harden ==
    /\ Len(log) > 1
    /\ log' = Tail(log)

\* The tip block is taken back from a chainstate that is wholly durable.
Disconnect ==
    /\ Len(log) = 1
    /\ Reported.tip # Base
    /\ log' = <<State(Parent[Reported.tip],
                      CoinsBefore(Reported.coins, Reported.tip))>>

\* What is not durable is lost.
Crash == log' = <<log[1]>>

Next == (\E s \in Batches : Connect(s)) \/ Harden \/ Disconnect \/ Crash

Spec == Init /\ [][Next]_log
=============================================================================
