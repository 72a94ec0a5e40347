---------------------------- MODULE MCSettlement ----------------------------
(***************************************************************************)
(* Instances of Settlement for TLC.  A packet is named by its instruction. *)
(***************************************************************************)
EXTENDS Settlement, TLC

Alice == "alice"
Bob   == "bob"
Zed   == "zed"      \* has no account

MCVpas == {Alice, Bob, Zed}
MCSeed == (Alice :> 2) @@ (Bob :> 1)

Pay(from, to, amount) == <<from, to, amount>>

\* Two payments out of one account it cannot both afford, one back, one of
\* each kind settle() refuses.
Contending == {Pay(Alice, Bob, 2), Pay(Alice, Bob, 1), Pay(Bob, Alice, 1),
               Pay(Alice, Zed, 1), Pay(Zed, Alice, 1), Pay(Alice, Bob, 0)}

\* The same account on both sides.
ToOneself == {Pay(Alice, Alice, 1), Pay(Alice, Bob, 2), Pay(Bob, Alice, 1)}

\* Transfers between two accounts only.
Transfers == {Pay(Alice, Bob, 2), Pay(Alice, Bob, 1), Pay(Bob, Alice, 1)}

MCSender   == [p \in Packets |-> p[1]]
MCReceiver == [p \in Packets |-> p[2]]
MCAmount   == [p \in Packets |-> p[3]]

SymmetricThreads == Permutations(Threads)
=============================================================================
