------------------------------- MODULE Delivery -------------------------------
(***************************************************************************)
(* What a user of the library sees of activate(): an emission calls every  *)
(* connection of its signal once.                                          *)
(***************************************************************************)
EXTENDS ConnectionTable, Naturals, Sequences

CONSTANTS Threads, Signals

VARIABLE emissions   \* those in progress in each thread, the newest last

deliveryVars == <<tableVars, emissions>>

(***************************************************************************)
(* snd, sig   the signal                                                   *)
(* due        the connections that have to be called: they were there at   *)
(*            the beginning and have been ever since                       *)
(* may        those that may be called, with their receivers: they have    *)
(*            been there at some time, and both objects exist              *)
(***************************************************************************)
Emission == [snd : Senders, sig : Signals, due : SUBSET Conns, may : SUBSET (Conns \X Receivers)]

Of(s, sig) == {c \in Conns : conn[c] # Blank /\ conn[c].snd = s /\ conn[c].sig = sig}

\* Op changes every emission in progress.
ChangeAll(Op(_)) ==
  emissions' = [t \in Threads |-> [k \in DOMAIN emissions[t] |-> Op(emissions[t][k])]]

-----------------------------------------------------------------------------

DInit == Init /\ emissions = [t \in Threads |-> <<>>]

Connect(c, l) ==
  /\ Establish(c, l)
  /\ ChangeAll(LAMBDA e : IF e.snd = l.snd /\ e.sig = l.sig
                          THEN [e EXCEPT !.may = @ \cup {<<c, l.rcv>>}]
                          ELSE e)

\* A slot that is disconnected while its signal is being delivered may still be
\* called.
Disconnect(C) ==
  /\ Drop(C)
  /\ ChangeAll(LAMBDA e : [e EXCEPT !.due = @ \ C])

\* No slot of an object that is gone is called, nor one for a sender that is.
Destroy(o) ==
  /\ Vanish(o)
  /\ ChangeAll(LAMBDA e : [e EXCEPT
       !.due = IF e.snd = o THEN {} ELSE @ \ With(o),
       !.may = IF e.snd = o THEN {} ELSE {m \in @ : m[2] # o}])

Create(o) ==
  /\ Appear(o)
  /\ UNCHANGED emissions

Begin(t, s, sig) ==
  /\ s \in alive
  /\ emissions' = [emissions EXCEPT ![t] = Append(@,
       [snd |-> s, sig |-> sig, due |-> Of(s, sig), may |-> {<<c, conn[c].rcv>> : c \in Of(s, sig)}])]
  /\ UNCHANGED tableVars

Newest(t) == emissions[t][Len(emissions[t])]

Called(e, m) == [e EXCEPT !.due = @ \ {m[1]}, !.may = @ \ {m}]

Call(t) ==
  /\ emissions[t] # <<>>
  /\ \E m \in Newest(t).may :
       emissions' = [emissions EXCEPT ![t][Len(emissions[t])] = Called(@, m)]
  /\ UNCHANGED tableVars

End(t) ==
  /\ emissions[t] # <<>>
  /\ Newest(t).due = {}
  /\ emissions' = [emissions EXCEPT ![t] = SubSeq(@, 1, Len(@) - 1)]
  /\ UNCHANGED tableVars

DNext == \/ \E c \in Conns, l \in Connection : Connect(c, l)
         \/ \E C \in SUBSET Conns : Disconnect(C)
         \/ \E o \in Senders \cup Receivers : Destroy(o) \/ Create(o)
         \/ \E t \in Threads : (\E s \in Senders, sig \in Signals : Begin(t, s, sig))
                                 \/ Call(t) \/ End(t)

DSpec == DInit /\ [][DNext]_deliveryVars

=============================================================================
