------------------------------- MODULE SlotArgs -------------------------------
(***************************************************************************)
(* What the templates of cs_internal.h compute for the arguments of a      *)
(* signal and of its slots.  A list of types, and a tuple, is a sequence.  *)
(* A type is opaque: none is itself a std::tuple, which a specialization   *)
(* of TeaCup would take for the list of the types that are left.           *)
(***************************************************************************)
EXTENDS Naturals, Sequences

\* cs_check_connect_args: the first parameters have one type, and so on until
\* the slot has no more.  What no specialization accepts does not compile.
Accepts(sig, slot) ==
  LET rest[k \in 0 .. Len(slot)] ==
        \/ k = Len(slot)
        \/ k < Len(sig) /\ sig[k + 1] = slot[k + 1] /\ rest[k + 1]
  IN rest[0]

\* Mutant: the first type is removed.
RemoveFirstType(types) == Tail(types)

\* removeLastType, by strip and prePend.
RemoveLastType(types) ==
  LET strip[k \in 1 .. Len(types)] ==
        IF k = Len(types) THEN <<>> ELSE <<types[k]>> \o strip[k + 1]
  IN strip[1]

\* funcRemoveData: the values at the indices of makeIntValues<n - 1>.
RemoveData(data) == [k \in 1 .. Len(data) - 1 |-> data[k]]

\* The types of the TeaCup that is n bases up from TeaCup<types>.
Base(types, n) ==
  LET base[i \in 0 .. n] == IF i = 0 THEN types ELSE RemoveLastType(base[i - 1])
  IN base[n]

\* What its getData() returns.
BaseData(data, n) ==
  LET base[i \in 0 .. n] == IF i = 0 THEN data ELSE RemoveData(base[i - 1])
  IN base[n]

\* dynamic_cast<const TeaCup<SlotArgs...> *> of a TeaCup<types> is not null.
Casts(types, slot) == \E n \in 0 .. Len(types) : Base(types, n) = slot

\* The arguments that invoke() then passes to the slot.
Arguments(types, data, slot) ==
  BaseData(data, CHOOSE n \in 0 .. Len(types) : Base(types, n) = slot)

=============================================================================
