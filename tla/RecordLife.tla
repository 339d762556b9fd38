----------------------------- MODULE RecordLife -----------------------------
(***************************************************************************)
(* What a user who looks at the table may rely on: the life of a print     *)
(* record, without its writers, the network between them or the poller.    *)
(* A record is saved once and closed or deleted once, except that a        *)
(* continue opens the record of a manual duplex document a second and last *)
(* time, for its second pass.  JobRecords implements this specification    *)
(* when all printers are on one CUPS server.                               *)
(***************************************************************************)
EXTENDS Naturals

CONSTANTS Documents, TwoPass

VARIABLES
    life, \* "none" before the record is saved
    pass  \* the pass whose job the record names, 0 before it is saved

lvars == <<life, pass>>

Init ==
    /\ life = [d \in Documents |-> "none"]
    /\ pass = [d \in Documents |-> 0]

Enters(d, l) == life' = [life EXCEPT ![d] = l]

Names(d, p) == pass' = [pass EXCEPT ![d] = p]

Save(d) ==
    /\ life[d] = "none"
    /\ Enters(d, IF d \in TwoPass THEN "waiting" ELSE "printing")
    /\ Names(d, 1)

\* The second pass: also of a record closed while it waited, by the failure of
\* its first pass or by the sweep, but not of a deleted one.
GoOn(d) ==
    /\ d \in TwoPass /\ pass[d] = 1 /\ life[d] \in {"waiting", "closed"}
    /\ Enters(d, "printing")
    /\ Names(d, 2)

Close(d) ==
    /\ life[d] \in {"waiting", "printing"}
    /\ Enters(d, "closed")
    /\ UNCHANGED pass

Delete(d) ==
    /\ life[d] \in {"waiting", "printing", "closed"}
    /\ Enters(d, "deleted")
    /\ UNCHANGED pass

Next == \E d \in Documents : Save(d) \/ GoOn(d) \/ Close(d) \/ Delete(d)

Spec == Init /\ [][Next]_lvars

=============================================================================
