---------------------------- MODULE ConnectionTable ----------------------------
(***************************************************************************)
(* What a user of the library sees of connect(), disconnect() and the      *)
(* destructors: one table of connections between objects that exist.       *)
(***************************************************************************)

CONSTANTS
  Senders, Receivers,
  Conns,        \* what tells two connections apart
  Connection,   \* records with the fields snd and rcv, and others
  Blank         \* is not one of them

VARIABLES
  alive,   \* the objects that exist
  conn     \* the connections; Blank where there is none

tableVars == <<alive, conn>>

Init ==
  /\ alive = Senders \cup Receivers
  /\ conn = [c \in Conns |-> Blank]

\* The connections that lead from an object or to it.
With(o) == {c \in Conns : conn[c] # Blank /\ o \in {conn[c].snd, conn[c].rcv}}

Without(C) == [c \in Conns |-> IF c \in C THEN Blank ELSE conn[c]]

\* connect()
Establish(c, l) ==
  /\ conn[c] = Blank
  /\ {l.snd, l.rcv} \subseteq alive
  /\ conn' = [conn EXCEPT ![c] = l]
  /\ UNCHANGED alive

\* disconnect(), and part of ~SlotBase: connections of one sender.
Drop(C) ==
  /\ C # {}
  /\ \A c, d \in C : conn[c] # Blank /\ conn[c].snd = conn[d].snd
  /\ conn' = Without(C)
  /\ UNCHANGED alive

\* The end of a destructor.
Vanish(o) ==
  /\ o \in alive
  /\ alive' = alive \ {o}
  /\ conn' = Without(With(o))

Appear(o) ==
  /\ o \notin alive
  /\ alive' = alive \cup {o}
  /\ UNCHANGED conn

Next == \/ \E c \in Conns, l \in Connection : Establish(c, l)
        \/ \E C \in SUBSET Conns : Drop(C)
        \/ \E o \in Senders \cup Receivers : Vanish(o) \/ Appear(o)

Spec == Init /\ [][Next]_tableVars

=============================================================================
