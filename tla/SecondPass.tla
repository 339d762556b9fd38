----------------------------- MODULE SecondPass -----------------------------
(***************************************************************************)
(* What the server promises for an action offered once: the second pass of *)
(* a manually duplexed document (its hook), or the whole document on a     *)
(* card of the bot (its session).  One request at a time acts on the offer,*)
(* and its outcome is settled once.  An offer that lapses stays lapsed,    *)
(* unless a request was already acting on it when it lapsed.               *)
(* ManualDuplexHooks and BotSession both implement this specification.     *)
(***************************************************************************)
CONSTANT Documents

VARIABLES outcome, acting

svars == <<outcome, acting>>

Outcomes == {"none", "offered", "printed", "cancelled", "lapsed"}

Init ==
    /\ outcome = [d \in Documents |-> "none"]
    /\ acting = {}

Settle(d, how) == outcome' = [outcome EXCEPT ![d] = how]

Offer(d) == outcome[d] = "none" /\ Settle(d, "offered") /\ UNCHANGED acting

Act(d) ==
    /\ outcome[d] = "offered" /\ d \notin acting
    /\ acting' = acting \cup {d}
    /\ UNCHANGED outcome

\* The request that acts gives up, or leaves after it has printed.
Leave(d) ==
    /\ d \in acting
    /\ acting' = acting \ {d}
    /\ UNCHANGED outcome

PrintRest(d) ==
    /\ d \in acting /\ outcome[d] \in {"offered", "lapsed"}
    /\ Settle(d, "printed")
    /\ UNCHANGED acting

Cancel(d) ==
    /\ d \in acting /\ outcome[d] \in {"offered", "lapsed"}
    /\ Settle(d, "cancelled")
    /\ acting' = acting \ {d}

\* Several offers may lapse at once, when the bot's cleaner finds them expired.
Lapse(ds) ==
    /\ \A d \in ds : outcome[d] = "offered"
    /\ outcome' = [d \in Documents |-> IF d \in ds THEN "lapsed" ELSE outcome[d]]
    /\ UNCHANGED acting

\* The server restarts: every offer lapses, every request is gone.
Crash ==
    /\ acting' = {}
    /\ outcome' = [d \in Documents |-> IF outcome[d] = "offered" THEN "lapsed" ELSE outcome[d]]

Next ==
    \/ \E d \in Documents : Offer(d) \/ Act(d) \/ Leave(d) \/ PrintRest(d) \/ Cancel(d)
    \/ \E ds \in SUBSET Documents : Lapse(ds)
    \/ Crash

Spec == Init /\ [][Next]_svars

=============================================================================
