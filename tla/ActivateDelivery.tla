---------------------------- MODULE ActivateDelivery ----------------------------
(***************************************************************************)
(* Activate implements Delivery: the connections are those linked in the   *)
(* lists of the senders.  A connection is called when activate() begins to *)
(* deliver to it, and an emission ends when activate() returns.            *)
(***************************************************************************)
EXTENDS Activate

LinkedConn == [c \in Conns |-> IF c \in erased THEN Blank ELSE conn[c]]

\* What the activation f still owes, and what it may call.
Due(f) == IF Intact(f) THEN f.due ELSE {}

May(f) == IF Intact(f)
          THEN {<<c, conn[c].rcv>> : c \in {d \in f.may : conn[d].rcv \in alive}}
          ELSE {}

Emissions ==
  [t \in Threads |-> [i \in DOMAIN stack[t] |->
     LET f == stack[t][i] IN [snd |-> f.snd, sig |-> f.sig, due |-> Due(f), may |-> May(f)]]]

Promise == INSTANCE Delivery WITH
  conn <- LinkedConn, emissions <- Emissions,
  Connection <- [snd : Senders, sig : Signals, rcv : Receivers]

\* Whatever slots and other threads connect, disconnect and emit while
\* activate() goes through the list, and with the objects that they destroy and
\* build under Alone, Orderly and Unused, an emission calls every connection
\* that was there at its beginning and has stayed, none that has never been
\* there, none twice, and none of a receiver or for a sender that is gone; and
\* user code changes nothing but what it asks for.
KeepsPromise == Promise!DSpec

=============================================================================
