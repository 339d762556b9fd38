-------------------------- MODULE BotSessionProofs --------------------------
(***************************************************************************)
(* The safety properties of BotSession for any messages, clicks, timeout   *)
(* and bounds, and that it implements SecondPass.                          *)
(***************************************************************************)
EXTENDS BotSession, TLAPS

\* Before its session is saved, nothing has happened to a message but its file.
UnsavedIsFresh ==
    \A m \in Messages : stage[m] # "saved" =>
        /\ m \notin live /\ m \notin cancelled
        /\ jobs[m] = 0 /\ unheard[m] = 0 /\ unsaved[m] = 0 /\ hooks[m] = 0
        /\ \A c \in Clicks : pc[c] # "idle" => card[c] # m
        /\ stage[m] = "persisted" => m \in file
        /\ stage[m] # "persisted" => m \notin file

\* While the session of a holder exists, nobody else can claim it.
HolderMarked ==
    \A c \in Clicks : pc[c] \in Holding /\ card[c] \in live => card[c] \in busy

\* A lookup that removes a session has seen it expired, and expired it stays.
LookupsAreRight == \A c \in Clicks : pc[c] \in {"unlink", "drop"} => Expired(card[c])

\* Whoever is about to drop a session has removed its file.
UnlinkedFirst == \A c \in Clicks : pc[c] \in {"drop", "delete"} => card[c] \notin file

\* A printed document's session cannot be claimed again, and only its printer
\* still cleans up; a cancelled one has no session and no holder.
SettledUnclaimed ==
    \A m \in Messages :
        /\ Printed(m) =>
              /\ m \in live => m \in busy
              /\ \A c \in Clicks :
                    Holds(c, m) => pc[c] \in {"remove", "delete"} /\ kind[c] # "cancel"
        /\ m \in cancelled => m \notin live /\ ~Held(m)

\* Only a print comes to the printer, and it cleans up only when it has printed;
\* a hook is saved only for a first pass that waits for it; a hook means printed,
\* and no job is left out of the count twice.
WayOfAPrint ==
    /\ \A c \in Clicks :
          /\ pc[c] \in {"warn", "saveHook", "release"} \cup Sending => kind[c] # "cancel"
          /\ pc[c] \in {"remove", "delete"} /\ kind[c] # "cancel" => Printed(card[c])
          /\ pc[c] = "saveHook" => unsaved[card[c]] > 0
    /\ \A m \in Messages :
          /\ jobs[m] >= unheard[m] + unsaved[m]
          /\ hooks[m] > 0 => Printed(m)

IndInv ==
    /\ TypeOK
    /\ UnsavedIsFresh
    /\ HolderMarked
    /\ OneHolder
    /\ LookupsAreRight
    /\ UnlinkedFirst
    /\ PrintedOnce
    /\ SettledUnclaimed
    /\ WayOfAPrint
    /\ CancelHolds
    /\ HolderKeepsFile
    /\ ClaimableHasFile
    /\ NoOrphanFile

----------------------------------------------------------------------------
(* One lemma per action, one step per conjunct that the action can disturb. *)

\* At the start there are no sessions, files, clicks or jobs.
LEMMA InitInv == Init => IndInv
BY SessionAssumption DEF Init, IndInv, TypeOK, UnsavedIsFresh, HolderMarked, OneHolder,
    LookupsAreRight, UnlinkedFirst, PrintedOnce, SettledUnclaimed, WayOfAPrint,
    CancelHolds, HolderKeepsFile, ClaimableHasFile, NoOrphanFile, Holds, Held, Printed,
    Expired, Holding, Sending, PCs, Stages, Kinds

\* A message is prepared before it has a session.
LEMMA PrepareKeeps ==
    ASSUME NEW m \in Messages, IndInv, Prepare(m)
    PROVE  IndInv'
<1> USE DEF IndInv, Prepare, storeVars, clickVars, printVars
<1>1. TypeOK'
  BY DEF TypeOK, PCs, Holding, Sending, Stages, Kinds
<1>2. UnsavedIsFresh'
  BY DEF TypeOK, UnsavedIsFresh
<1>3. HolderMarked' /\ OneHolder'
  BY DEF TypeOK, HolderMarked, OneHolder, Holds, Holding, Sending
<1>4. LookupsAreRight' /\ UnlinkedFirst'
  BY DEF TypeOK, LookupsAreRight, UnlinkedFirst, UnsavedIsFresh, Expired
<1>5. PrintedOnce' /\ CancelHolds'
  BY DEF TypeOK, PrintedOnce, CancelHolds, SettledUnclaimed, Printed, Holds, Holding,
      Sending
<1>6. SettledUnclaimed'
  BY DEF TypeOK, SettledUnclaimed, Held, Printed, Holds, Holding, Sending
<1>7. WayOfAPrint'
  BY DEF TypeOK, WayOfAPrint, Printed, Sending
<1>8. HolderKeepsFile'
  BY DEF TypeOK, HolderKeepsFile, Expired, Holding, Sending
<1>9. ClaimableHasFile' /\ NoOrphanFile'
  BY DEF TypeOK, ClaimableHasFile, NoOrphanFile, Expired
<1> QED
  BY <1>1, <1>2, <1>3, <1>4, <1>5, <1>6, <1>7, <1>8, <1>9

\* The card comes before the session.
LEMMA SendCardKeeps ==
    ASSUME NEW m \in Messages, IndInv, SendCard(m)
    PROVE  IndInv'
<1> USE DEF IndInv, SendCard, storeVars, clickVars, printVars
<1>1. TypeOK'
  BY DEF TypeOK, PCs, Holding, Sending, Stages, Kinds
<1>2. UnsavedIsFresh'
  BY DEF TypeOK, UnsavedIsFresh
<1>3. HolderMarked' /\ OneHolder'
  BY DEF TypeOK, HolderMarked, OneHolder, Holds, Holding, Sending
<1>4. LookupsAreRight' /\ UnlinkedFirst'
  BY DEF TypeOK, LookupsAreRight, UnlinkedFirst, UnsavedIsFresh, Expired
<1>5. PrintedOnce' /\ CancelHolds'
  BY DEF TypeOK, PrintedOnce, CancelHolds, SettledUnclaimed, Printed, Holds, Holding,
      Sending
<1>6. SettledUnclaimed'
  BY DEF TypeOK, SettledUnclaimed, Held, Printed, Holds, Holding, Sending
<1>7. WayOfAPrint'
  BY DEF TypeOK, WayOfAPrint, Printed, Sending
<1>8. HolderKeepsFile'
  BY DEF TypeOK, HolderKeepsFile, Expired, Holding, Sending
<1>9. ClaimableHasFile' /\ NoOrphanFile'
  BY DEF TypeOK, ClaimableHasFile, NoOrphanFile, Expired
<1> QED
  BY <1>1, <1>2, <1>3, <1>4, <1>5, <1>6, <1>7, <1>8, <1>9

\* The file comes before the session.
LEMMA PersistKeeps ==
    ASSUME NEW m \in Messages, IndInv, Persist(m)
    PROVE  IndInv'
<1> USE DEF IndInv, Persist, clickVars, printVars
<1>1. TypeOK'
  BY DEF TypeOK, PCs, Holding, Sending, Stages, Kinds
<1>2. UnsavedIsFresh'
  BY DEF TypeOK, UnsavedIsFresh
<1>3. HolderMarked' /\ OneHolder'
  BY DEF TypeOK, HolderMarked, OneHolder, Holds, Holding, Sending
<1>4. LookupsAreRight' /\ UnlinkedFirst'
  BY DEF TypeOK, LookupsAreRight, UnlinkedFirst, UnsavedIsFresh, Expired
<1>5. PrintedOnce' /\ CancelHolds'
  BY DEF TypeOK, PrintedOnce, CancelHolds, SettledUnclaimed, Printed, Holds, Holding,
      Sending
<1>6. SettledUnclaimed'
  BY DEF TypeOK, SettledUnclaimed, Held, Printed, Holds, Holding, Sending
<1>7. WayOfAPrint'
  BY DEF TypeOK, WayOfAPrint, Printed, Sending
<1>8. HolderKeepsFile'
  BY DEF TypeOK, HolderKeepsFile, Expired, Holding, Sending, UnsavedIsFresh
<1>9. ClaimableHasFile' /\ NoOrphanFile'
  BY DEF TypeOK, ClaimableHasFile, NoOrphanFile, Expired, UnsavedIsFresh
<1> QED
  BY <1>1, <1>2, <1>3, <1>4, <1>5, <1>6, <1>7, <1>8, <1>9

\* The new session has its file, and nobody has clicked on it.
LEMMA SaveKeeps ==
    ASSUME NEW m \in Messages, IndInv, Save(m)
    PROVE  IndInv'
<1> USE DEF IndInv, Save, clickVars, printVars
<1>1. TypeOK'
  BY DEF TypeOK, PCs, Holding, Sending, Stages, Kinds
<1>2. UnsavedIsFresh'
  BY DEF TypeOK, UnsavedIsFresh
<1>3. HolderMarked' /\ OneHolder'
  BY DEF TypeOK, HolderMarked, OneHolder, Holds, Holding, Sending, UnsavedIsFresh
<1>4. LookupsAreRight' /\ UnlinkedFirst'
  BY DEF TypeOK, LookupsAreRight, UnlinkedFirst, UnsavedIsFresh, Expired
<1>5. PrintedOnce' /\ CancelHolds'
  BY DEF TypeOK, PrintedOnce, CancelHolds, SettledUnclaimed, Printed, Holds, Holding,
      Sending
<1>6. SettledUnclaimed'
  BY DEF TypeOK, SettledUnclaimed, Held, Printed, Holds, Holding, Sending,
      UnsavedIsFresh
<1>7. WayOfAPrint'
  BY DEF TypeOK, WayOfAPrint, Printed, Sending
<1>8. HolderKeepsFile'
  BY DEF TypeOK, HolderKeepsFile, Expired, Holding, Sending
<1>9. ClaimableHasFile' /\ NoOrphanFile'
  BY DEF TypeOK, ClaimableHasFile, NoOrphanFile, Expired, UnsavedIsFresh
<1> QED
  BY <1>1, <1>2, <1>3, <1>4, <1>5, <1>6, <1>7, <1>8, <1>9

\* A click that is answered belongs to a saved session.
LEMMA ClickKeeps ==
    ASSUME NEW c \in Clicks, NEW m \in Messages, NEW k \in Kinds, IndInv, Click(c, m, k)
    PROVE  IndInv'
<1> USE DEF IndInv, Click, storeVars, printVars, Goto
<1>1. TypeOK'
  BY DEF TypeOK, PCs, Holding, Sending, Stages, Kinds
<1>2. UnsavedIsFresh'
  BY DEF TypeOK, UnsavedIsFresh
<1>3. HolderMarked' /\ OneHolder'
  BY DEF TypeOK, HolderMarked, OneHolder, Holds, Holding, Sending
<1>4. LookupsAreRight' /\ UnlinkedFirst'
  BY DEF TypeOK, LookupsAreRight, UnlinkedFirst, UnsavedIsFresh, Expired
<1>5. PrintedOnce' /\ CancelHolds'
  BY DEF TypeOK, PrintedOnce, CancelHolds, SettledUnclaimed, Printed, Holds, Holding,
      Sending
<1>6. SettledUnclaimed'
  BY DEF TypeOK, SettledUnclaimed, Held, Printed, Holds, Holding, Sending
<1>7. WayOfAPrint'
  BY DEF TypeOK, WayOfAPrint, Printed, Sending
<1>8. HolderKeepsFile'
  BY DEF TypeOK, HolderKeepsFile, Expired, Holding, Sending
<1>9. ClaimableHasFile' /\ NoOrphanFile'
  BY DEF TypeOK, ClaimableHasFile, NoOrphanFile, Expired
<1> QED
  BY <1>1, <1>2, <1>3, <1>4, <1>5, <1>6, <1>7, <1>8, <1>9

\* An expired session is seen, not touched.
LEMMA LookupExpiredKeeps ==
    ASSUME NEW c \in Clicks, NEW m \in Messages, IndInv, LookupExpired(c, m)
    PROVE  IndInv'
<1> USE DEF IndInv, LookupExpired, storeVars, printVars, Goto
<1>1. TypeOK'
  BY DEF TypeOK, PCs, Holding, Sending, Stages, Kinds
<1>2. UnsavedIsFresh'
  BY DEF TypeOK, UnsavedIsFresh
<1>3. HolderMarked' /\ OneHolder'
  BY DEF TypeOK, HolderMarked, OneHolder, Holds, Holding, Sending
<1>4. LookupsAreRight' /\ UnlinkedFirst'
  BY DEF TypeOK, LookupsAreRight, UnlinkedFirst, UnsavedIsFresh, Expired
<1>5. PrintedOnce' /\ CancelHolds'
  BY DEF TypeOK, PrintedOnce, CancelHolds, SettledUnclaimed, Printed, Holds, Holding,
      Sending
<1>6. SettledUnclaimed'
  BY DEF TypeOK, SettledUnclaimed, Held, Printed, Holds, Holding, Sending
<1>7. WayOfAPrint'
  BY DEF TypeOK, WayOfAPrint, Printed, Sending
<1>8. HolderKeepsFile'
  BY DEF TypeOK, HolderKeepsFile, Expired, Holding, Sending
<1>9. ClaimableHasFile' /\ NoOrphanFile'
  BY DEF TypeOK, ClaimableHasFile, NoOrphanFile, Expired
<1> QED
  BY <1>1, <1>2, <1>3, <1>4, <1>5, <1>6, <1>7, <1>8, <1>9

\* The file of an expired session goes.
LEMMA UnlinkExpiredKeeps ==
    ASSUME NEW c \in Clicks, IndInv, UnlinkExpired(c)
    PROVE  IndInv'
<1> USE DEF IndInv, UnlinkExpired, printVars, Goto
<1>1. TypeOK'
  BY DEF TypeOK, PCs, Holding, Sending, Stages, Kinds
<1>2. UnsavedIsFresh'
  BY DEF TypeOK, UnsavedIsFresh
<1>3. HolderMarked' /\ OneHolder'
  BY DEF TypeOK, HolderMarked, OneHolder, Holds, Holding, Sending
<1>4. LookupsAreRight' /\ UnlinkedFirst'
  BY DEF TypeOK, LookupsAreRight, UnlinkedFirst, UnsavedIsFresh, Expired
<1>5. PrintedOnce' /\ CancelHolds'
  BY DEF TypeOK, PrintedOnce, CancelHolds, SettledUnclaimed, Printed, Holds, Holding,
      Sending
<1>6. SettledUnclaimed'
  BY DEF TypeOK, SettledUnclaimed, Held, Printed, Holds, Holding, Sending
<1>7. WayOfAPrint'
  BY DEF TypeOK, WayOfAPrint, Printed, Sending
<1>8. HolderKeepsFile'
  BY DEF TypeOK, HolderKeepsFile, Expired, Holding, Sending, LookupsAreRight
<1>9. ClaimableHasFile' /\ NoOrphanFile'
  BY DEF TypeOK, ClaimableHasFile, NoOrphanFile, Expired, LookupsAreRight
<1> QED
  BY <1>1, <1>2, <1>3, <1>4, <1>5, <1>6, <1>7, <1>8, <1>9

\* The expired session follows its file.
LEMMA DropExpiredKeeps ==
    ASSUME NEW c \in Clicks, IndInv, DropExpired(c)
    PROVE  IndInv'
<1> USE DEF IndInv, DropExpired, printVars, Goto
<1>1. TypeOK'
  BY DEF TypeOK, PCs, Holding, Sending, Stages, Kinds
<1>2. UnsavedIsFresh'
  BY DEF TypeOK, UnsavedIsFresh
<1>3. HolderMarked' /\ OneHolder'
  BY DEF TypeOK, HolderMarked, OneHolder, Holds, Holding, Sending
<1>4. LookupsAreRight' /\ UnlinkedFirst'
  BY DEF TypeOK, LookupsAreRight, UnlinkedFirst, UnsavedIsFresh, Expired
<1>5. PrintedOnce' /\ CancelHolds'
  BY DEF TypeOK, PrintedOnce, CancelHolds, SettledUnclaimed, Printed, Holds, Holding,
      Sending
<1>6. SettledUnclaimed'
  BY DEF TypeOK, SettledUnclaimed, Held, Printed, Holds, Holding, Sending
<1>7. WayOfAPrint'
  BY DEF TypeOK, WayOfAPrint, Printed, Sending
<1>8. HolderKeepsFile'
  BY DEF TypeOK, HolderKeepsFile, Expired, Holding, Sending, LookupsAreRight
<1>9. ClaimableHasFile' /\ NoOrphanFile'
  BY DEF TypeOK, ClaimableHasFile, NoOrphanFile, Expired, LookupsAreRight, UnlinkedFirst
<1> QED
  BY <1>1, <1>2, <1>3, <1>4, <1>5, <1>6, <1>7, <1>8, <1>9

\* A session that can be claimed has no holder.
LEMMA ClaimKeeps ==
    ASSUME NEW c \in Clicks, IndInv, Claim(c)
    PROVE  IndInv'
<1> USE DEF IndInv, Claim, printVars, Goto
<1>1. TypeOK'
  BY DEF TypeOK, PCs, Holding, Sending, Stages, Kinds
<1>2. UnsavedIsFresh'
  BY DEF TypeOK, UnsavedIsFresh
<1>3. HolderMarked' /\ OneHolder'
  BY DEF TypeOK, HolderMarked, OneHolder, Holds, Holding, Sending
<1>4. LookupsAreRight' /\ UnlinkedFirst'
  BY DEF TypeOK, LookupsAreRight, UnlinkedFirst, UnsavedIsFresh, Expired
<1>5. PrintedOnce' /\ CancelHolds'
  BY DEF TypeOK, PrintedOnce, CancelHolds, SettledUnclaimed, Printed, Holds, Holding,
      Sending
<1>6. SettledUnclaimed'
  BY DEF TypeOK, SettledUnclaimed, Held, Printed, Holds, Holding, Sending, HolderMarked
<1>7. WayOfAPrint'
  BY DEF TypeOK, WayOfAPrint, Printed, Sending
<1>8. HolderKeepsFile'
  BY DEF TypeOK, HolderKeepsFile, Expired, Holding, Sending, HolderMarked,
      ClaimableHasFile
<1>9. ClaimableHasFile' /\ NoOrphanFile'
  BY DEF TypeOK, ClaimableHasFile, NoOrphanFile, Expired
<1> QED
  BY <1>1, <1>2, <1>3, <1>4, <1>5, <1>6, <1>7, <1>8, <1>9

\* A refused claim removes an expired session and its file, or nothing.
LEMMA ClaimRefusedKeeps ==
    ASSUME NEW c \in Clicks, IndInv, ClaimRefused(c)
    PROVE  IndInv'
<1> USE DEF IndInv, ClaimRefused, printVars, Goto
<1>1. TypeOK'
  BY DEF TypeOK, PCs, Holding, Sending, Stages, Kinds
<1>2. UnsavedIsFresh'
  BY DEF TypeOK, UnsavedIsFresh
<1>3. HolderMarked' /\ OneHolder'
  BY DEF TypeOK, HolderMarked, OneHolder, Holds, Holding, Sending
<1>4. LookupsAreRight' /\ UnlinkedFirst'
  BY DEF TypeOK, LookupsAreRight, UnlinkedFirst, UnsavedIsFresh, Expired
<1>5. PrintedOnce' /\ CancelHolds'
  BY DEF TypeOK, PrintedOnce, CancelHolds, SettledUnclaimed, Printed, Holds, Holding,
      Sending
<1>6. SettledUnclaimed'
  BY DEF TypeOK, SettledUnclaimed, Held, Printed, Holds, Holding, Sending
<1>7. WayOfAPrint'
  BY DEF TypeOK, WayOfAPrint, Printed, Sending
<1>8. HolderKeepsFile'
  BY DEF TypeOK, HolderKeepsFile, Expired, Holding, Sending
<1>9. ClaimableHasFile' /\ NoOrphanFile'
  BY DEF TypeOK, ClaimableHasFile, NoOrphanFile, Expired
<1> QED
  BY <1>1, <1>2, <1>3, <1>4, <1>5, <1>6, <1>7, <1>8, <1>9

\* A print that gives up goes to its release.
LEMMA AbandonKeeps ==
    ASSUME NEW c \in Clicks, IndInv, Abandon(c)
    PROVE  IndInv'
<1> USE DEF IndInv, Abandon, storeVars, printVars, Goto
<1>1. TypeOK'
  BY DEF TypeOK, PCs, Holding, Sending, Stages, Kinds
<1>2. UnsavedIsFresh'
  BY DEF TypeOK, UnsavedIsFresh
<1>3. HolderMarked' /\ OneHolder'
  BY DEF TypeOK, HolderMarked, OneHolder, Holds, Holding, Sending
<1>4. LookupsAreRight' /\ UnlinkedFirst'
  BY DEF TypeOK, LookupsAreRight, UnlinkedFirst, UnsavedIsFresh, Expired
<1>5. PrintedOnce' /\ CancelHolds'
  BY DEF TypeOK, PrintedOnce, CancelHolds, SettledUnclaimed, Printed, Holds, Holding,
      Sending
<1>6. SettledUnclaimed'
  BY DEF TypeOK, SettledUnclaimed, Held, Printed, Holds, Holding, Sending
<1>7. WayOfAPrint'
  BY DEF TypeOK, WayOfAPrint, Printed, Sending
<1>8. HolderKeepsFile'
  BY DEF TypeOK, HolderKeepsFile, Expired, Holding, Sending
<1>9. ClaimableHasFile' /\ NoOrphanFile'
  BY DEF TypeOK, ClaimableHasFile, NoOrphanFile, Expired
<1> QED
  BY <1>1, <1>2, <1>3, <1>4, <1>5, <1>6, <1>7, <1>8, <1>9

\* A print that meets another job asks first.
LEMMA WarnKeeps ==
    ASSUME NEW c \in Clicks, IndInv, Warn(c)
    PROVE  IndInv'
<1> USE DEF IndInv, Warn, storeVars, printVars, Goto
<1>1. TypeOK'
  BY DEF TypeOK, PCs, Holding, Sending, Stages, Kinds
<1>2. UnsavedIsFresh'
  BY DEF TypeOK, UnsavedIsFresh
<1>3. HolderMarked' /\ OneHolder'
  BY DEF TypeOK, HolderMarked, OneHolder, Holds, Holding, Sending
<1>4. LookupsAreRight' /\ UnlinkedFirst'
  BY DEF TypeOK, LookupsAreRight, UnlinkedFirst, UnsavedIsFresh, Expired
<1>5. PrintedOnce' /\ CancelHolds'
  BY DEF TypeOK, PrintedOnce, CancelHolds, SettledUnclaimed, Printed, Holds, Holding,
      Sending
<1>6. SettledUnclaimed'
  BY DEF TypeOK, SettledUnclaimed, Held, Printed, Holds, Holding, Sending
<1>7. WayOfAPrint'
  BY DEF TypeOK, WayOfAPrint, Printed, Sending
<1>8. HolderKeepsFile'
  BY DEF TypeOK, HolderKeepsFile, Expired, Holding, Sending
<1>9. ClaimableHasFile' /\ NoOrphanFile'
  BY DEF TypeOK, ClaimableHasFile, NoOrphanFile, Expired
<1> QED
  BY <1>1, <1>2, <1>3, <1>4, <1>5, <1>6, <1>7, <1>8, <1>9

\* Asking ends in a release.
LEMMA AskKeeps ==
    ASSUME NEW c \in Clicks, IndInv, Ask(c)
    PROVE  IndInv'
<1> USE DEF IndInv, Ask, storeVars, printVars, Goto
<1>1. TypeOK'
  BY DEF TypeOK, PCs, Holding, Sending, Stages, Kinds
<1>2. UnsavedIsFresh'
  BY DEF TypeOK, UnsavedIsFresh
<1>3. HolderMarked' /\ OneHolder'
  BY DEF TypeOK, HolderMarked, OneHolder, Holds, Holding, Sending
<1>4. LookupsAreRight' /\ UnlinkedFirst'
  BY DEF TypeOK, LookupsAreRight, UnlinkedFirst, UnsavedIsFresh, Expired
<1>5. PrintedOnce' /\ CancelHolds'
  BY DEF TypeOK, PrintedOnce, CancelHolds, SettledUnclaimed, Printed, Holds, Holding,
      Sending
<1>6. SettledUnclaimed'
  BY DEF TypeOK, SettledUnclaimed, Held, Printed, Holds, Holding, Sending
<1>7. WayOfAPrint'
  BY DEF TypeOK, WayOfAPrint, Printed, Sending
<1>8. HolderKeepsFile'
  BY DEF TypeOK, HolderKeepsFile, Expired, Holding, Sending
<1>9. ClaimableHasFile' /\ NoOrphanFile'
  BY DEF TypeOK, ClaimableHasFile, NoOrphanFile, Expired
<1> QED
  BY <1>1, <1>2, <1>3, <1>4, <1>5, <1>6, <1>7, <1>8, <1>9

\* A holder within the timeout has its file.
LEMMA ReadFileKeeps ==
    ASSUME NEW c \in Clicks, IndInv, ReadFile(c)
    PROVE  IndInv'
<1> USE DEF IndInv, ReadFile, storeVars, printVars, Goto
<1>1. TypeOK'
  BY DEF TypeOK, PCs, Holding, Sending, Stages, Kinds
<1>2. UnsavedIsFresh'
  BY DEF TypeOK, UnsavedIsFresh
<1>3. HolderMarked' /\ OneHolder'
  BY DEF TypeOK, HolderMarked, OneHolder, Holds, Holding, Sending
<1>4. LookupsAreRight' /\ UnlinkedFirst'
  BY DEF TypeOK, LookupsAreRight, UnlinkedFirst, UnsavedIsFresh, Expired, Sending
<1>5. PrintedOnce' /\ CancelHolds'
  BY DEF TypeOK, PrintedOnce, CancelHolds, SettledUnclaimed, Printed, Holds, Holding,
      Sending
<1>6. SettledUnclaimed'
  BY DEF TypeOK, SettledUnclaimed, Held, Printed, Holds, Holding, Sending
<1>7. WayOfAPrint'
  BY DEF TypeOK, WayOfAPrint, Printed, Sending
<1>8. HolderKeepsFile'
  BY DEF TypeOK, HolderKeepsFile, Expired, Holding, Sending
<1>9. ClaimableHasFile' /\ NoOrphanFile'
  BY DEF TypeOK, ClaimableHasFile, NoOrphanFile, Expired
<1> QED
  BY <1>1, <1>2, <1>3, <1>4, <1>5, <1>6, <1>7, <1>8, <1>9

\* The only holder prints a document that was not printed.
LEMMA JobAcceptedKeeps ==
    ASSUME NEW c \in Clicks, IndInv, JobAccepted(c)
    PROVE  IndInv'
<1> USE DEF IndInv, JobAccepted, storeVars, printVars, Goto, Accepted
<1>1. TypeOK'
  BY DEF TypeOK, PCs, Holding, Sending, Stages, Kinds
<1>2. UnsavedIsFresh'
  BY DEF TypeOK, UnsavedIsFresh
<1>3. HolderMarked' /\ OneHolder'
  BY DEF TypeOK, HolderMarked, OneHolder, Holds, Holding, Sending
<1>4. LookupsAreRight' /\ UnlinkedFirst'
  BY DEF TypeOK, LookupsAreRight, UnlinkedFirst, UnsavedIsFresh, Expired
<1>5. PrintedOnce' /\ CancelHolds'
  BY SessionAssumption DEF TypeOK, PrintedOnce, CancelHolds, SettledUnclaimed, Printed,
      Holds, Holding, Sending, Held, WayOfAPrint
<1>6. SettledUnclaimed'
  BY SessionAssumption DEF TypeOK, SettledUnclaimed, Held, Printed, Holds, Holding,
      Sending, HolderMarked, OneHolder, WayOfAPrint, CancelHolds
<1>7. WayOfAPrint'
  BY SessionAssumption DEF TypeOK, WayOfAPrint, Printed, Sending, OneHolder,
      SettledUnclaimed, Holds, Holding
<1>8. HolderKeepsFile'
  BY DEF TypeOK, HolderKeepsFile, Expired, Holding, Sending
<1>9. ClaimableHasFile' /\ NoOrphanFile'
  BY DEF TypeOK, ClaimableHasFile, NoOrphanFile, Expired
<1> QED
  BY <1>1, <1>2, <1>3, <1>4, <1>5, <1>6, <1>7, <1>8, <1>9

\* A first pass counts only with its hook.
LEMMA FirstPassAcceptedKeeps ==
    ASSUME NEW c \in Clicks, IndInv, FirstPassAccepted(c)
    PROVE  IndInv'
<1> USE DEF IndInv, FirstPassAccepted, storeVars, printVars, Goto, Accepted
<1>1. TypeOK'
  BY SessionAssumption DEF TypeOK, PCs, Holding, Sending, Stages, Kinds
<1>2. UnsavedIsFresh'
  BY DEF TypeOK, UnsavedIsFresh
<1>3. HolderMarked' /\ OneHolder'
  BY DEF TypeOK, HolderMarked, OneHolder, Holds, Holding, Sending
<1>4. LookupsAreRight' /\ UnlinkedFirst'
  BY DEF TypeOK, LookupsAreRight, UnlinkedFirst, UnsavedIsFresh, Expired
<1>5. PrintedOnce' /\ CancelHolds'
  BY SessionAssumption DEF TypeOK, PrintedOnce, CancelHolds, SettledUnclaimed, Printed,
      Holds, Holding, Sending, WayOfAPrint
<1>6. SettledUnclaimed'
  BY SessionAssumption DEF TypeOK, SettledUnclaimed, Held, Printed, Holds, Holding,
      Sending
<1>7. WayOfAPrint'
  BY SessionAssumption DEF TypeOK, WayOfAPrint, Printed, Sending, OneHolder, Holds,
      Holding
<1>8. HolderKeepsFile'
  BY DEF TypeOK, HolderKeepsFile, Expired, Holding, Sending
<1>9. ClaimableHasFile' /\ NoOrphanFile'
  BY DEF TypeOK, ClaimableHasFile, NoOrphanFile, Expired
<1> QED
  BY <1>1, <1>2, <1>3, <1>4, <1>5, <1>6, <1>7, <1>8, <1>9

\* A job whose answer is lost does not count.
LEMMA AnswerLostKeeps ==
    ASSUME NEW c \in Clicks, IndInv, AnswerLost(c)
    PROVE  IndInv'
<1> USE DEF IndInv, AnswerLost, storeVars, printVars, Goto, Accepted
<1>1. TypeOK'
  BY SessionAssumption DEF TypeOK, PCs, Holding, Sending, Stages, Kinds
<1>2. UnsavedIsFresh'
  BY DEF TypeOK, UnsavedIsFresh, Sending
<1>3. HolderMarked' /\ OneHolder'
  BY DEF TypeOK, HolderMarked, OneHolder, Holds, Holding, Sending
<1>4. LookupsAreRight' /\ UnlinkedFirst'
  BY DEF TypeOK, LookupsAreRight, UnlinkedFirst, UnsavedIsFresh, Expired
<1>5. PrintedOnce' /\ CancelHolds'
  BY SessionAssumption DEF TypeOK, PrintedOnce, CancelHolds, SettledUnclaimed, Printed,
      Holds, Holding, Sending, WayOfAPrint
<1>6. SettledUnclaimed'
  BY SessionAssumption DEF TypeOK, SettledUnclaimed, Held, Printed, Holds, Holding,
      Sending
<1>7. WayOfAPrint'
  BY SessionAssumption DEF TypeOK, WayOfAPrint, Printed, Sending
<1>8. HolderKeepsFile'
  BY DEF TypeOK, HolderKeepsFile, Expired, Holding, Sending
<1>9. ClaimableHasFile' /\ NoOrphanFile'
  BY DEF TypeOK, ClaimableHasFile, NoOrphanFile, Expired, Sending
<1> QED
  BY <1>1, <1>2, <1>3, <1>4, <1>5, <1>6, <1>7, <1>8, <1>9

\* A refused job leads to the release.
LEMMA JobRefusedKeeps ==
    ASSUME NEW c \in Clicks, IndInv, JobRefused(c)
    PROVE  IndInv'
<1> USE DEF IndInv, JobRefused, storeVars, printVars, Goto
<1>1. TypeOK'
  BY DEF TypeOK, PCs, Holding, Sending, Stages, Kinds
<1>2. UnsavedIsFresh'
  BY DEF TypeOK, UnsavedIsFresh, Sending
<1>3. HolderMarked' /\ OneHolder'
  BY DEF TypeOK, HolderMarked, OneHolder, Holds, Holding, Sending
<1>4. LookupsAreRight' /\ UnlinkedFirst'
  BY DEF TypeOK, LookupsAreRight, UnlinkedFirst, UnsavedIsFresh, Expired
<1>5. PrintedOnce' /\ CancelHolds'
  BY DEF TypeOK, PrintedOnce, CancelHolds, SettledUnclaimed, Printed, Holds, Holding,
      Sending
<1>6. SettledUnclaimed'
  BY DEF TypeOK, SettledUnclaimed, Held, Printed, Holds, Holding, Sending
<1>7. WayOfAPrint'
  BY DEF TypeOK, WayOfAPrint, Printed, Sending
<1>8. HolderKeepsFile'
  BY DEF TypeOK, HolderKeepsFile, Expired, Holding, Sending
<1>9. ClaimableHasFile' /\ NoOrphanFile'
  BY DEF TypeOK, ClaimableHasFile, NoOrphanFile, Expired, Sending
<1> QED
  BY <1>1, <1>2, <1>3, <1>4, <1>5, <1>6, <1>7, <1>8, <1>9

\* The first hook of the document is saved by its only holder.
LEMMA SaveHookKeeps ==
    ASSUME NEW c \in Clicks, IndInv, SaveHook(c)
    PROVE  IndInv'
<1> USE DEF IndInv, SaveHook, storeVars, printVars, Goto
<1>1. TypeOK'
  BY SessionAssumption DEF TypeOK, PCs, Holding, Sending, Stages, Kinds, WayOfAPrint
<1>2. UnsavedIsFresh'
  BY DEF TypeOK, UnsavedIsFresh
<1>3. HolderMarked' /\ OneHolder'
  BY DEF TypeOK, HolderMarked, OneHolder, Holds, Holding, Sending
<1>4. LookupsAreRight' /\ UnlinkedFirst'
  BY DEF TypeOK, LookupsAreRight, UnlinkedFirst, UnsavedIsFresh, Expired
<1>5. PrintedOnce' /\ CancelHolds'
  BY SessionAssumption DEF TypeOK, PrintedOnce, CancelHolds, SettledUnclaimed, Printed,
      Holds, Holding, Sending, Held, WayOfAPrint
<1>6. SettledUnclaimed'
  BY SessionAssumption DEF TypeOK, SettledUnclaimed, Held, Printed, Holds, Holding,
      Sending, HolderMarked, OneHolder, WayOfAPrint, CancelHolds
<1>7. WayOfAPrint'
  BY SessionAssumption DEF TypeOK, WayOfAPrint, Printed, Sending, OneHolder,
      SettledUnclaimed, Holds, Holding
<1>8. HolderKeepsFile'
  BY DEF TypeOK, HolderKeepsFile, Expired, Holding, Sending
<1>9. ClaimableHasFile' /\ NoOrphanFile'
  BY DEF TypeOK, ClaimableHasFile, NoOrphanFile, Expired
<1> QED
  BY <1>1, <1>2, <1>3, <1>4, <1>5, <1>6, <1>7, <1>8, <1>9

\* A first pass without a hook leads to the release.
LEMMA SaveHookFailsKeeps ==
    ASSUME NEW c \in Clicks, IndInv, SaveHookFails(c)
    PROVE  IndInv'
<1> USE DEF IndInv, SaveHookFails, storeVars, printVars, Goto
<1>1. TypeOK'
  BY DEF TypeOK, PCs, Holding, Sending, Stages, Kinds
<1>2. UnsavedIsFresh'
  BY DEF TypeOK, UnsavedIsFresh
<1>3. HolderMarked' /\ OneHolder'
  BY DEF TypeOK, HolderMarked, OneHolder, Holds, Holding, Sending
<1>4. LookupsAreRight' /\ UnlinkedFirst'
  BY DEF TypeOK, LookupsAreRight, UnlinkedFirst, UnsavedIsFresh, Expired
<1>5. PrintedOnce' /\ CancelHolds'
  BY DEF TypeOK, PrintedOnce, CancelHolds, SettledUnclaimed, Printed, Holds, Holding,
      Sending
<1>6. SettledUnclaimed'
  BY DEF TypeOK, SettledUnclaimed, Held, Printed, Holds, Holding, Sending
<1>7. WayOfAPrint'
  BY DEF TypeOK, WayOfAPrint, Printed, Sending
<1>8. HolderKeepsFile'
  BY DEF TypeOK, HolderKeepsFile, Expired, Holding, Sending
<1>9. ClaimableHasFile' /\ NoOrphanFile'
  BY DEF TypeOK, ClaimableHasFile, NoOrphanFile, Expired
<1> QED
  BY <1>1, <1>2, <1>3, <1>4, <1>5, <1>6, <1>7, <1>8, <1>9

\* A cancel that holds the session cleans up.
LEMMA BeginCancelKeeps ==
    ASSUME NEW c \in Clicks, IndInv, BeginCancel(c)
    PROVE  IndInv'
<1> USE DEF IndInv, BeginCancel, storeVars, printVars, Goto
<1>1. TypeOK'
  BY DEF TypeOK, PCs, Holding, Sending, Stages, Kinds
<1>2. UnsavedIsFresh'
  BY DEF TypeOK, UnsavedIsFresh
<1>3. HolderMarked' /\ OneHolder'
  BY DEF TypeOK, HolderMarked, OneHolder, Holds, Holding, Sending
<1>4. LookupsAreRight' /\ UnlinkedFirst'
  BY DEF TypeOK, LookupsAreRight, UnlinkedFirst, UnsavedIsFresh, Expired
<1>5. PrintedOnce' /\ CancelHolds'
  BY DEF TypeOK, PrintedOnce, CancelHolds, SettledUnclaimed, Printed, Holds, Holding,
      Sending
<1>6. SettledUnclaimed'
  BY DEF TypeOK, SettledUnclaimed, Held, Printed, Holds, Holding, Sending
<1>7. WayOfAPrint'
  BY DEF TypeOK, WayOfAPrint, Printed, Sending
<1>8. HolderKeepsFile'
  BY DEF TypeOK, HolderKeepsFile, Expired, Holding, Sending
<1>9. ClaimableHasFile' /\ NoOrphanFile'
  BY DEF TypeOK, ClaimableHasFile, NoOrphanFile, Expired
<1> QED
  BY <1>1, <1>2, <1>3, <1>4, <1>5, <1>6, <1>7, <1>8, <1>9

\* The holder removes the file.
LEMMA RemoveFileKeeps ==
    ASSUME NEW c \in Clicks, IndInv, RemoveFile(c)
    PROVE  IndInv'
<1> USE DEF IndInv, RemoveFile, printVars, Goto
<1>1. TypeOK'
  BY DEF TypeOK, PCs, Holding, Sending, Stages, Kinds
<1>2. UnsavedIsFresh'
  BY DEF TypeOK, UnsavedIsFresh
<1>3. HolderMarked' /\ OneHolder'
  BY DEF TypeOK, HolderMarked, OneHolder, Holds, Holding, Sending
<1>4. LookupsAreRight' /\ UnlinkedFirst'
  BY DEF TypeOK, LookupsAreRight, UnlinkedFirst, UnsavedIsFresh, Expired
<1>5. PrintedOnce' /\ CancelHolds'
  BY DEF TypeOK, PrintedOnce, CancelHolds, SettledUnclaimed, Printed, Holds, Holding,
      Sending
<1>6. SettledUnclaimed'
  BY DEF TypeOK, SettledUnclaimed, Held, Printed, Holds, Holding, Sending
<1>7. WayOfAPrint'
  BY DEF TypeOK, WayOfAPrint, Printed, Sending
<1>8. HolderKeepsFile'
  BY DEF TypeOK, HolderKeepsFile, Expired, Holding, Sending, OneHolder, Holds
<1>9. ClaimableHasFile' /\ NoOrphanFile'
  BY DEF TypeOK, ClaimableHasFile, NoOrphanFile, Expired
<1> QED
  BY <1>1, <1>2, <1>3, <1>4, <1>5, <1>6, <1>7, <1>8, <1>9

\* The holder deletes the session after its file.
LEMMA DeleteKeeps ==
    ASSUME NEW c \in Clicks, IndInv, Delete(c)
    PROVE  IndInv'
<1> USE DEF IndInv, Delete, printVars, Goto
<1>1. TypeOK'
  BY DEF TypeOK, PCs, Holding, Sending, Stages, Kinds
<1>2. UnsavedIsFresh'
  BY DEF TypeOK, UnsavedIsFresh
<1>3. HolderMarked' /\ OneHolder'
  BY DEF TypeOK, HolderMarked, OneHolder, Holds, Holding, Sending
<1>4. LookupsAreRight' /\ UnlinkedFirst'
  BY DEF TypeOK, LookupsAreRight, UnlinkedFirst, UnsavedIsFresh, Expired
<1>5. PrintedOnce' /\ CancelHolds'
  BY DEF TypeOK, PrintedOnce, CancelHolds, SettledUnclaimed, Printed, Holds, Holding,
      Sending, WayOfAPrint
<1>6. SettledUnclaimed'
  BY DEF TypeOK, SettledUnclaimed, Held, Printed, Holds, Holding, Sending, OneHolder
<1>7. WayOfAPrint'
  BY DEF TypeOK, WayOfAPrint, Printed, Sending
<1>8. HolderKeepsFile'
  BY DEF TypeOK, HolderKeepsFile, Expired, Holding, Sending, OneHolder, Holds
<1>9. ClaimableHasFile' /\ NoOrphanFile'
  BY DEF TypeOK, ClaimableHasFile, NoOrphanFile, Expired, UnlinkedFirst
<1> QED
  BY <1>1, <1>2, <1>3, <1>4, <1>5, <1>6, <1>7, <1>8, <1>9

\* Only a holder that has not printed gives the session back.
LEMMA ReleaseKeeps ==
    ASSUME NEW c \in Clicks, IndInv, Release(c)
    PROVE  IndInv'
<1> USE DEF IndInv, Release, printVars, Goto
<1>1. TypeOK'
  BY DEF TypeOK, PCs, Holding, Sending, Stages, Kinds
<1>2. UnsavedIsFresh'
  BY DEF TypeOK, UnsavedIsFresh
<1>3. HolderMarked' /\ OneHolder'
  BY DEF TypeOK, HolderMarked, OneHolder, Holds, Holding, Sending
<1>4. LookupsAreRight' /\ UnlinkedFirst'
  BY DEF TypeOK, LookupsAreRight, UnlinkedFirst, UnsavedIsFresh, Expired
<1>5. PrintedOnce' /\ CancelHolds'
  BY DEF TypeOK, PrintedOnce, CancelHolds, SettledUnclaimed, Printed, Holds, Holding,
      Sending
<1>6. SettledUnclaimed'
  BY DEF TypeOK, SettledUnclaimed, Held, Printed, Holds, Holding, Sending
<1>7. WayOfAPrint'
  BY DEF TypeOK, WayOfAPrint, Printed, Sending
<1>8. HolderKeepsFile'
  BY DEF TypeOK, HolderKeepsFile, Expired, Holding, Sending
<1>9. ClaimableHasFile' /\ NoOrphanFile'
  BY DEF TypeOK, ClaimableHasFile, NoOrphanFile, Expired
<1> QED
  BY <1>1, <1>2, <1>3, <1>4, <1>5, <1>6, <1>7, <1>8, <1>9

\* The cleaner takes expired sessions with their files.
LEMMA CleanKeeps ==
    ASSUME IndInv, Clean
    PROVE  IndInv'
<1> USE DEF IndInv, Clean, clickVars, printVars
<1>1. TypeOK'
  BY DEF TypeOK, PCs, Holding, Sending, Stages, Kinds
<1>2. UnsavedIsFresh'
  BY DEF TypeOK, UnsavedIsFresh
<1>3. HolderMarked' /\ OneHolder'
  BY DEF TypeOK, HolderMarked, OneHolder, Holds, Holding, Sending
<1>4. LookupsAreRight' /\ UnlinkedFirst'
  BY DEF TypeOK, LookupsAreRight, UnlinkedFirst, UnsavedIsFresh, Expired
<1>5. PrintedOnce' /\ CancelHolds'
  BY DEF TypeOK, PrintedOnce, CancelHolds, SettledUnclaimed, Printed, Holds, Holding,
      Sending
<1>6. SettledUnclaimed'
  BY DEF TypeOK, SettledUnclaimed, Held, Printed, Holds, Holding, Sending
<1>7. WayOfAPrint'
  BY DEF TypeOK, WayOfAPrint, Printed, Sending
<1>8. HolderKeepsFile'
  BY DEF TypeOK, HolderKeepsFile, Expired, Holding, Sending
<1>9. ClaimableHasFile' /\ NoOrphanFile'
  BY DEF TypeOK, ClaimableHasFile, NoOrphanFile, Expired
<1> QED
  BY <1>1, <1>2, <1>3, <1>4, <1>5, <1>6, <1>7, <1>8, <1>9

\* Time takes a session only from being unexpired.
LEMMA TickKeeps ==
    ASSUME IndInv, Tick
    PROVE  IndInv'
<1> USE DEF IndInv, Tick, clickVars, printVars
<1>1. TypeOK'
  BY SessionAssumption DEF TypeOK, PCs, Holding, Sending, Stages, Kinds, Expired
<1>2. UnsavedIsFresh'
  BY DEF TypeOK, UnsavedIsFresh
<1>3. HolderMarked' /\ OneHolder'
  BY DEF TypeOK, HolderMarked, OneHolder, Holds, Holding, Sending
<1>4. LookupsAreRight' /\ UnlinkedFirst'
  BY DEF TypeOK, LookupsAreRight, UnlinkedFirst, UnsavedIsFresh, Expired
<1>5. PrintedOnce' /\ CancelHolds'
  BY DEF TypeOK, PrintedOnce, CancelHolds, SettledUnclaimed, Printed, Holds, Holding,
      Sending
<1>6. SettledUnclaimed'
  BY DEF TypeOK, SettledUnclaimed, Held, Printed, Holds, Holding, Sending
<1>7. WayOfAPrint'
  BY DEF TypeOK, WayOfAPrint, Printed, Sending
<1>8. HolderKeepsFile'
  BY DEF TypeOK, HolderKeepsFile, Expired, Holding, Sending
<1>9. ClaimableHasFile' /\ NoOrphanFile'
  BY DEF TypeOK, ClaimableHasFile, NoOrphanFile, Expired
<1> QED
  BY <1>1, <1>2, <1>3, <1>4, <1>5, <1>6, <1>7, <1>8, <1>9

\* A restart leaves no session, file or click.
LEMMA RestartKeeps ==
    ASSUME IndInv, Restart
    PROVE  IndInv'
<1> USE DEF IndInv, Restart, printVars
<1>1. TypeOK'
  BY DEF TypeOK, PCs, Holding, Sending, Stages, Kinds
<1>2. UnsavedIsFresh'
  BY DEF TypeOK, UnsavedIsFresh
<1>3. HolderMarked' /\ OneHolder'
  BY DEF TypeOK, HolderMarked, OneHolder, Holds, Holding, Sending
<1>4. LookupsAreRight' /\ UnlinkedFirst'
  BY DEF TypeOK, LookupsAreRight, UnlinkedFirst, UnsavedIsFresh, Expired
<1>5. PrintedOnce' /\ CancelHolds'
  BY DEF TypeOK, PrintedOnce, CancelHolds, SettledUnclaimed, Printed, Holds, Holding,
      Sending
<1>6. SettledUnclaimed'
  BY DEF TypeOK, SettledUnclaimed, Held, Printed, Holds, Holding, Sending
<1>7. WayOfAPrint'
  BY DEF TypeOK, WayOfAPrint, Printed, Sending
<1>8. HolderKeepsFile'
  BY DEF TypeOK, HolderKeepsFile, Expired, Holding, Sending
<1>9. ClaimableHasFile' /\ NoOrphanFile'
  BY DEF TypeOK, ClaimableHasFile, NoOrphanFile, Expired
<1> QED
  BY <1>1, <1>2, <1>3, <1>4, <1>5, <1>6, <1>7, <1>8, <1>9

----------------------------------------------------------------------------
\* IndInv holds after every step of the program, and after none.
LEMMA StepKeeps == IndInv /\ [Next]_vars => IndInv'
<1> SUFFICES ASSUME IndInv, [Next]_vars PROVE IndInv'
  OBVIOUS
<1>1. CASE UNCHANGED vars
  BY <1>1 DEF vars, IndInv, TypeOK, UnsavedIsFresh, HolderMarked, OneHolder,
      LookupsAreRight, UnlinkedFirst, PrintedOnce, SettledUnclaimed, WayOfAPrint,
      CancelHolds, HolderKeepsFile, ClaimableHasFile, NoOrphanFile, Holds, Held, Printed,
      Expired
<1>2. ASSUME NEW m \in Messages, ServeMessage(m)
      PROVE  IndInv'
  BY <1>2, PrepareKeeps, SendCardKeeps, PersistKeeps, SaveKeeps DEF ServeMessage
<1>3. ASSUME NEW c \in Clicks, NEW m \in Messages,
             LookupExpired(c, m) \/ \E k \in Kinds : Click(c, m, k)
      PROVE  IndInv'
  BY <1>3, LookupExpiredKeeps, ClickKeeps
<1>4. ASSUME NEW c \in Clicks, ClickStep(c)
      PROVE  IndInv'
  BY <1>4, UnlinkExpiredKeeps, DropExpiredKeeps, ClaimKeeps, ClaimRefusedKeeps,
      AbandonKeeps, WarnKeeps, AskKeeps, ReadFileKeeps, JobAcceptedKeeps,
      FirstPassAcceptedKeeps, AnswerLostKeeps, JobRefusedKeeps, SaveHookKeeps,
      SaveHookFailsKeeps, BeginCancelKeeps, RemoveFileKeeps, DeleteKeeps, ReleaseKeeps
      DEF ClickStep
<1> QED
  BY <1>1, <1>2, <1>3, <1>4, CleanKeeps, TickKeeps, RestartKeeps DEF Next

\* The inductive invariant holds in every reachable state.
THEOREM Invariance == Spec => []IndInv
<1> QED  BY InitInv, StepKeeps, PTL DEF Spec

\* Every variable of the sessions, the files and the clicks keeps its type.
THEOREM TypeCorrect == Spec => []TypeOK
<1>1. IndInv => TypeOK
  BY DEF IndInv
<1> QED  BY <1>1, Invariance, PTL

\* claimBotSessionAction is a lock: two clicks never act on one session at once.
THEOREM MutualExclusion == Spec => []OneHolder
<1>1. IndInv => OneHolder
  BY DEF IndInv
<1> QED  BY <1>1, Invariance, PTL

\* A document is printed at most once from its cards, not counting what the user
\* was told had failed.
THEOREM AtMostOnce == Spec => []PrintedOnce
<1>1. IndInv => PrintedOnce
  BY DEF IndInv
<1> QED  BY <1>1, Invariance, PTL

\* After the bot has confirmed a cancel the document is not printed, whatever clicks
\* were under way when it did.
THEOREM CancelIsFinal == Spec => []CancelHolds
<1>1. IndInv => CancelHolds
  BY DEF IndInv
<1> QED  BY <1>1, Invariance, PTL

\* The click that claimed a session keeps its file until the card's timeout.
THEOREM HolderHasFile == Spec => []HolderKeepsFile
<1>1. IndInv => HolderKeepsFile
  BY DEF IndInv
<1> QED  BY <1>1, Invariance, PTL

\* A session that a click can still claim has its file.
THEOREM ClaimsAreServed == Spec => []ClaimableHasFile
<1>1. IndInv => ClaimableHasFile
  BY DEF IndInv
<1> QED  BY <1>1, Invariance, PTL

\* No file outlives its session: every way out of the session store removes it.
THEOREM FilesFollowSessions == Spec => []NoOrphanFile
<1>1. IndInv => NoOrphanFile
  BY DEF IndInv
<1> QED  BY <1>1, Invariance, PTL

----------------------------------------------------------------------------
(* BotSession implements SecondPass: the card of a document is an offer    *)
(* like the hook of its second pass.  The cleaner makes several offers     *)
(* lapse in one step, which a run with one message does not show.          *)

\* What SecondPass sees.
OutcomeMap == [m \in Messages |-> Outcome(m)]
ActingSet == {m \in Messages : Held(m)}

\* At the start no document has an outcome and nobody acts.
LEMMA InitMaps == Init => Promise!Init
BY DEF Init, Promise!Init, Outcome, Held, Holds, Holding, Sending, Printed

\* A step that leaves the sessions, what counts as printed, the cancellations,
\* the saved stages and the holders alone is a stutter of SecondPass.
LEMMA QuietStep ==
    ASSUME UNCHANGED <<live, cancelled>>,
           \A m \in Messages : Printed(m)' = Printed(m),
           \A m \in Messages : (stage'[m] = "saved") = (stage[m] = "saved"),
           \A m \in Messages : Held(m)' = Held(m)
    PROVE  UNCHANGED Promise!svars
BY DEF Promise!svars, Outcome

\* A message shows nothing until its session is saved.
LEMMA ServeMaps ==
    ASSUME NEW m \in Messages, IndInv, Prepare(m) \/ SendCard(m) \/ Persist(m)
    PROVE  UNCHANGED Promise!svars
<1>1. UNCHANGED <<live, cancelled, pc, card, jobs, unheard, unsaved>>
  BY DEF Prepare, SendCard, Persist, storeVars, clickVars, printVars
<1>2. \A d \in Messages : (stage'[d] = "saved") = (stage[d] = "saved")
  BY DEF IndInv, TypeOK, Prepare, SendCard, Persist
<1>3. \A d \in Messages : Held(d)' = Held(d) /\ Printed(d)' = Printed(d)
  BY <1>1 DEF Held, Holds, Printed
<1> QED  BY <1>1, <1>2, <1>3, QuietStep

\* Saving a session offers a document nobody has acted on.
LEMMA SaveMaps ==
    ASSUME NEW m \in Messages, IndInv, Save(m)
    PROVE  Promise!Offer(m)
<1>1. Outcome(m) = "none" /\ Outcome(m)' = "offered"
  BY DEF IndInv, TypeOK, UnsavedIsFresh, Save, Outcome, Printed, printVars
<1>2. \A d \in Messages \ {m} : Outcome(d)' = Outcome(d)
  BY DEF IndInv, TypeOK, Save, Outcome, Printed, printVars
<1>3. ActingSet' = ActingSet
  BY DEF Save, ActingSet, Held, Holds, clickVars
<1>4. OutcomeMap' = [OutcomeMap EXCEPT ![m] = "offered"]
  BY <1>1, <1>2 DEF OutcomeMap
<1> QED
  BY <1>1, <1>3, <1>4 DEF OutcomeMap, ActingSet, Promise!Offer, Promise!Settle

\* Sessions that go without having been acted upon lapse, those of printed
\* documents just go.
LEMMA DropMaps ==
    ASSUME IndInv, NEW gone \in SUBSET live, live' = live \ gone,
           UNCHANGED <<stage, jobs, unheard, unsaved, cancelled>>,
           \A m \in Messages : Held(m)' = Held(m)
    PROVE  \E ds \in SUBSET Messages : Promise!Lapse(ds)
<1> DEFINE ds == {m \in Messages : m \in gone /\ Outcome(m) = "offered"}
<1>1. ActingSet' = ActingSet
  BY DEF ActingSet
<1>2. \A m \in Messages : Outcome(m)' = IF m \in ds THEN "lapsed" ELSE Outcome(m)
  <2> TAKE m \in Messages
  <2>1. Printed(m)' = Printed(m) /\ (m \in live' <=> m \in live /\ m \notin gone)
    BY DEF Printed
  <2>2. m \in live => stage[m] = "saved" /\ m \notin cancelled
    BY DEF IndInv, UnsavedIsFresh, SettledUnclaimed
  <2> QED  BY <2>1, <2>2 DEF Outcome
<1>3. OutcomeMap' = [m \in Messages |-> IF m \in ds THEN "lapsed" ELSE OutcomeMap[m]]
  BY <1>2 DEF OutcomeMap
<1>4. Promise!Lapse(ds)
  BY <1>1, <1>3 DEF OutcomeMap, ActingSet, Promise!Lapse
<1> QED  BY <1>4

\* An expired session is dropped by the click that looked it up.
LEMMA DropExpiredMaps ==
    ASSUME NEW c \in Clicks, IndInv, DropExpired(c)
    PROVE  \E ds \in SUBSET Messages : Promise!Lapse(ds)
<1>1. live' = live \ (live \cap {card[c]})
  BY DEF DropExpired
<1>2. UNCHANGED <<stage, jobs, unheard, unsaved, cancelled>>
  BY DEF DropExpired, printVars
<1>3. \A m \in Messages : Held(m)' = Held(m)
  BY DEF IndInv, TypeOK, DropExpired, Goto, Held, Holds, Holding, Sending
<1> QED  BY <1>1, <1>2, <1>3, DropMaps

\* A refused claim changes nothing, or drops an expired session.
LEMMA ClaimRefusedMaps ==
    ASSUME NEW c \in Clicks, IndInv, ClaimRefused(c)
    PROVE  \E ds \in SUBSET Messages : Promise!Lapse(ds)
<1>1. \E gone \in SUBSET live : live' = live \ gone
  BY DEF ClaimRefused
<1>2. UNCHANGED <<stage, jobs, unheard, unsaved, cancelled>>
  BY DEF ClaimRefused, printVars
<1>3. \A m \in Messages : Held(m)' = Held(m)
  BY DEF IndInv, TypeOK, ClaimRefused, Goto, Held, Holds, Holding, Sending
<1> QED  BY <1>1, <1>2, <1>3, DropMaps

\* The cleaner drops all that has expired.
LEMMA CleanMaps ==
    ASSUME IndInv, Clean
    PROVE  \E ds \in SUBSET Messages : Promise!Lapse(ds)
<1>1. \E gone \in SUBSET live : live' = live \ gone
  BY DEF Clean
<1>2. UNCHANGED <<stage, jobs, unheard, unsaved, cancelled>>
  BY DEF Clean, printVars
<1>3. \A m \in Messages : Held(m)' = Held(m)
  BY DEF Clean, clickVars, Held, Holds
<1> QED  BY <1>1, <1>2, <1>3, DropMaps

\* The clock changes no outcome.
LEMMA TickMaps ==
    ASSUME IndInv, Tick
    PROVE  UNCHANGED Promise!svars
<1>1. UNCHANGED <<live, cancelled, stage, pc, card, jobs, unheard, unsaved>>
  BY DEF Tick, clickVars, printVars
<1>2. \A m \in Messages : Held(m)' = Held(m) /\ Printed(m)' = Printed(m)
  BY <1>1 DEF Held, Holds, Printed
<1> QED  BY <1>1, <1>2, QuietStep

\* A click that has only been answered holds nothing, nor does a lookup.
LEMMA ReceiveMaps ==
    ASSUME NEW c \in Clicks, NEW m \in Messages, NEW k \in Kinds, IndInv,
           Click(c, m, k) \/ LookupExpired(c, m) \/ UnlinkExpired(c)
    PROVE  UNCHANGED Promise!svars
<1>1. UNCHANGED <<live, cancelled, stage, jobs, unheard, unsaved>>
  BY DEF Click, LookupExpired, UnlinkExpired, storeVars, printVars
<1>2. \A d \in Messages : Held(d)' = Held(d)
  BY DEF IndInv, TypeOK, Click, LookupExpired, UnlinkExpired, Goto, Held, Holds, Holding,
     Sending
<1>3. \A d \in Messages : Printed(d)' = Printed(d)
  BY <1>1 DEF Printed
<1> QED  BY <1>1, <1>2, <1>3, QuietStep

\* A claim: the document is offered and nobody else acts on it.
LEMMA ClaimMaps ==
    ASSUME NEW c \in Clicks, IndInv, Claim(c)
    PROVE  Promise!Act(card[c])
<1> DEFINE m == card[c]
<1>1. m \in Messages /\ Outcome(m) = "offered"
  BY DEF IndInv, TypeOK, SettledUnclaimed, Claim, Outcome
<1>2. m \notin ActingSet
  BY DEF IndInv, HolderMarked, Claim, ActingSet, Held, Holds
<1>3. ActingSet' = ActingSet \cup {m}
  BY <1>1 DEF IndInv, TypeOK, Claim, Goto, ActingSet, Held, Holds, Holding, Sending
<1>4. OutcomeMap' = OutcomeMap
  BY DEF Claim, printVars, OutcomeMap, Outcome, Printed
<1> QED
  BY <1>1, <1>2, <1>3, <1>4 DEF OutcomeMap, ActingSet, Promise!Act

\* While a holder makes its way to CUPS, to the release or to the deletion it
\* shows nothing.
LEMMA HolderMaps ==
    ASSUME NEW c \in Clicks, IndInv,
           Abandon(c) \/ Warn(c) \/ Ask(c) \/ ReadFile(c) \/ JobRefused(c)
           \/ SaveHookFails(c) \/ BeginCancel(c) \/ RemoveFile(c)
    PROVE  UNCHANGED Promise!svars
<1>1. UNCHANGED <<live, cancelled, stage, jobs, unheard, unsaved>>
  BY DEF Abandon, Warn, Ask, ReadFile, JobRefused, SaveHookFails, BeginCancel, RemoveFile,
     storeVars, printVars
<1>2. \A d \in Messages : Held(d)' = Held(d)
  BY DEF IndInv, TypeOK, Abandon, Warn, Ask, ReadFile, JobRefused, SaveHookFails,
     BeginCancel, RemoveFile, Goto, Held, Holds, Holding, Sending
<1>3. \A d \in Messages : Printed(d)' = Printed(d)
  BY <1>1 DEF Printed
<1> QED  BY <1>1, <1>2, <1>3, QuietStep

\* A job whose answer is lost and a first pass without its hook do not count.
LEMMA UncountedMaps ==
    ASSUME NEW c \in Clicks, IndInv, AnswerLost(c) \/ FirstPassAccepted(c)
    PROVE  UNCHANGED Promise!svars
<1>1. UNCHANGED <<live, cancelled, stage>>
  BY DEF AnswerLost, FirstPassAccepted, storeVars
<1>2. \A d \in Messages : Held(d)' = Held(d)
  BY DEF IndInv, TypeOK, AnswerLost, FirstPassAccepted, Goto, Held, Holds, Holding, Sending
<1>3. \A d \in Messages : Printed(d)' = Printed(d)
  BY SessionAssumption
     DEF IndInv, TypeOK, AnswerLost, FirstPassAccepted, Accepted, Printed
<1> QED  BY <1>1, <1>2, <1>3, QuietStep

\* The answer of CUPS, or the hook for the second pass, prints the document,
\* which is not settled yet.
LEMMA PrintMaps ==
    ASSUME NEW c \in Clicks, IndInv, JobAccepted(c) \/ SaveHook(c)
    PROVE  Promise!PrintRest(card[c])
<1> DEFINE m == card[c]
<1>1. m \in ActingSet /\ ActingSet' = ActingSet
  BY DEF IndInv, TypeOK, JobAccepted, SaveHook, Goto, ActingSet, Held, Holds, Holding, Sending
<1>2. ~Printed(m) /\ m \notin cancelled
  BY <1>1 DEF IndInv, TypeOK, SettledUnclaimed, JobAccepted, SaveHook, Goto, ActingSet,
     Held, Holds, Holding, Sending
<1>3. Outcome(m) \in {"offered", "lapsed"}
  BY <1>1, <1>2 DEF IndInv, UnsavedIsFresh, JobAccepted, SaveHook, Goto, Outcome, ActingSet
<1>4. Printed(m)' /\ \A d \in Messages \ {m} : Printed(d)' = Printed(d)
  BY <1>1, SessionAssumption DEF IndInv, TypeOK, WayOfAPrint, JobAccepted, SaveHook,
     Accepted, Goto, Printed, ActingSet
<1>5. OutcomeMap' = [OutcomeMap EXCEPT ![m] = "printed"]
  BY <1>1, <1>4 DEF JobAccepted, SaveHook, storeVars, OutcomeMap, Outcome, ActingSet
<1> QED
  BY <1>1, <1>3, <1>5 DEF OutcomeMap, ActingSet, Promise!PrintRest, Promise!Settle

\* The end of a holder: a cancel settles the document, a print just leaves.
LEMMA DeleteMaps ==
    ASSUME NEW c \in Clicks, IndInv, Delete(c)
    PROVE  Promise!Cancel(card[c]) \/ Promise!Leave(card[c])
<1> DEFINE m == card[c]
<1>1. m \in ActingSet /\ ActingSet' = ActingSet \ {m}
  BY DEF IndInv, TypeOK, OneHolder, Delete, Goto, ActingSet, Held, Holds, Holding, Sending
<1>2. \A d \in Messages \ {m} : Outcome(d)' = Outcome(d)
  BY DEF IndInv, TypeOK, Delete, printVars, Outcome, Printed
<1>3. stage[m] = "saved" /\ UNCHANGED card
  BY <1>1 DEF IndInv, UnsavedIsFresh, Delete, Goto, ActingSet
<1>4. CASE kind[c] = "cancel"
  <2>1. ~Printed(m) /\ m \notin cancelled
    BY <1>1, <1>4 DEF IndInv, SettledUnclaimed, Delete, Goto, ActingSet, Held, Holds,
       Holding
  <2>2. Outcome(m) \in {"offered", "lapsed"} /\ Outcome(m)' = "cancelled"
    BY <1>3, <1>4, <2>1 DEF Delete, printVars, Outcome, Printed
  <2>3. OutcomeMap' = [OutcomeMap EXCEPT ![m] = "cancelled"]
    BY <1>2, <1>3, <2>2 DEF OutcomeMap
  <2> QED
    BY <1>1, <2>2, <2>3 DEF OutcomeMap, ActingSet, Promise!Cancel, Promise!Settle
<1>5. CASE kind[c] # "cancel"
  <2>1. Printed(m)
    BY <1>5 DEF IndInv, WayOfAPrint, Delete, Goto
  <2>2. OutcomeMap' = OutcomeMap
    BY <1>2, <1>5, <2>1 DEF Delete, printVars, OutcomeMap, Outcome, Printed
  <2> QED
    BY <1>1, <2>2 DEF OutcomeMap, ActingSet, Promise!Leave
<1> QED  BY <1>4, <1>5

\* A holder that gives the session back leaves the outcome as it is.
LEMMA ReleaseMaps ==
    ASSUME NEW c \in Clicks, IndInv, Release(c)
    PROVE  Promise!Leave(card[c])
<1> DEFINE m == card[c]
<1>1. m \in ActingSet /\ ActingSet' = ActingSet \ {m}
  BY DEF IndInv, TypeOK, OneHolder, Release, Goto, ActingSet, Held, Holds, Holding, Sending
<1>2. OutcomeMap' = OutcomeMap
  BY DEF Release, printVars, OutcomeMap, Outcome, Printed
<1> QED
  BY <1>1, <1>2 DEF OutcomeMap, ActingSet, Promise!Leave

\* A restart makes every offer lapse and ends every click.
LEMMA RestartMaps ==
    ASSUME IndInv, Restart
    PROVE  Promise!Crash
<1>1. ActingSet' = {}
  BY DEF Restart, ActingSet, Held, Holds, Holding, Sending
<1>2. \A m \in Messages : Outcome(m)' = IF Outcome(m) = "offered" THEN "lapsed" ELSE Outcome(m)
  <2> TAKE m \in Messages
  <2>1. Printed(m)' = Printed(m) /\ (m \in cancelled') = (m \in cancelled) /\ m \notin live'
    BY DEF Restart, printVars, Printed
  <2>2. (stage'[m] = "saved") = (stage[m] = "saved")
    BY DEF IndInv, TypeOK, Restart
  <2>3. m \in live => stage[m] = "saved"
    BY DEF IndInv, UnsavedIsFresh
  <2> QED  BY <2>1, <2>2, <2>3 DEF Outcome
<1> QED  BY <1>1, <1>2 DEF ActingSet, Promise!Crash

\* Every step of the code is a step of SecondPass or a stutter.
LEMMA StepMaps == IndInv /\ [Next]_vars => [Promise!Next]_(Promise!svars)
<1> SUFFICES ASSUME IndInv, [Next]_vars PROVE [Promise!Next]_(Promise!svars)
  OBVIOUS
<1>1. ASSUME NEW m \in Messages, ServeMessage(m)
      PROVE  [Promise!Next]_(Promise!svars)
  BY <1>1, ServeMaps, SaveMaps DEF ServeMessage, Promise!Next
<1>2. ASSUME NEW c \in Clicks, NEW m \in Messages,
             LookupExpired(c, m) \/ \E k \in Kinds : Click(c, m, k)
      PROVE  [Promise!Next]_(Promise!svars)
  BY <1>2, ReceiveMaps DEF Kinds
<1>3. ASSUME NEW c \in Clicks, ClickStep(c)
      PROVE  [Promise!Next]_(Promise!svars)
  <2>1. card[c] \in Messages
    BY DEF IndInv, TypeOK
  <2>2. CASE UnlinkExpired(c)
    BY <2>1, <2>2, ReceiveMaps DEF Kinds
  <2>3. CASE DropExpired(c) \/ ClaimRefused(c)
    BY <2>3, DropExpiredMaps, ClaimRefusedMaps DEF Promise!Next
  <2>4. CASE JobAccepted(c) \/ SaveHook(c)
    BY <2>1, <2>4, PrintMaps DEF Promise!Next
  <2>5. CASE Claim(c) \/ Delete(c) \/ Release(c)
    BY <2>1, <2>5, ClaimMaps, DeleteMaps, ReleaseMaps DEF Promise!Next
  <2>6. CASE AnswerLost(c) \/ FirstPassAccepted(c)
    BY <2>6, UncountedMaps
  <2> QED
    BY <1>3, <2>2, <2>3, <2>4, <2>5, <2>6, HolderMaps DEF ClickStep
<1>4. CASE Clean
  BY <1>4, CleanMaps DEF Promise!Next
<1>5. CASE Tick
  BY <1>5, TickMaps
<1>6. CASE Restart
  BY <1>6, RestartMaps DEF Promise!Next
<1>7. CASE UNCHANGED vars
  <2>1. \A m \in Messages : Held(m)' = Held(m) /\ Printed(m)' = Printed(m)
    BY <1>7 DEF vars, Held, Holds, Printed
  <2> QED  BY <1>7, <2>1, QuietStep DEF vars
<1> QED
  BY <1>1, <1>2, <1>3, <1>4, <1>5, <1>6, <1>7 DEF Next

\* The session store, its clicks, the cleaner, the clock and the restarts together
\* keep the promise: one offer, one actor at a time, one outcome.
THEOREM ImplementsSecondPass == Spec => KeepsPromise
<1>1. Init => Promise!Init
  BY InitMaps
<1>2. IndInv /\ [Next]_vars => [Promise!Next]_(Promise!svars)
  BY StepMaps
<1> QED
  BY <1>1, <1>2, Invariance, PTL DEF Spec, KeepsPromise, Promise!Spec

=============================================================================
