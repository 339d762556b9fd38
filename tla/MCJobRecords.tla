---------------------------- MODULE MCJobRecords ----------------------------
(* Finite instances of JobRecords for TLC. *)
EXTENDS JobRecords, TLC

\* All printers on one CUPS server, and every printer on a server of its own.
OneServer == [d \in Docs |-> CHOOSE s \in Servers : TRUE]
OwnServer == CHOOSE f \in [Docs -> Servers] : \A d, e \in Docs : f[d] = f[e] => d = e

\* Documents of one kind on one server are interchangeable.
Symmetry == Permutations(Docs)

=============================================================================
