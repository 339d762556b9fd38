-------------------------- MODULE PrintPageProofs --------------------------
(***************************************************************************)
(* The print page, for any files, pictures and number of options changed,  *)
(* and for a user who does anything at any time.                           *)
(***************************************************************************)
EXTENDS PrintPage, TLAPS

\* At most one PDF is made that the page waits for; without it, and without a slip,
\* the chosen file is the one picked.
ComposesThePick ==
    /\ \A c \in composers : c.told => composing
    /\ \A c1, c2 \in composers : c1.told /\ c2.told => c1 = c2
    /\ slip = "none" /\ (\A c \in composers : ~c.told) => picked = chosen

\* A preview that is not aborted is the chosen file's; the count is its own as soon
\* as the page does not wait, if no aborted preview has interfered.
CountsTheChosen ==
    /\ \A p \in previews : ~p.aborted => p.of = chosen
    /\ ~disturbed /\ ~loading => pageCount \in {chosen, None}

PageInv ==
    /\ TypeOK
    /\ ComposesThePick
    /\ CountsTheChosen
    /\ SendsThePick
    /\ CountIsOfFile

----------------------------------------------------------------------------
(* Types. *)

\* The clean-up and the next run of the preview effect.
LEMMA PreviewTyped ==
    ASSUME TypeOK, NEW f \in Picks \cup {None}, Preview(f)
    PROVE  /\ previews' \subseteq [of : Picks, aborted : BOOLEAN, arrived : BOOLEAN]
           /\ loading' \in BOOLEAN /\ pageCount' \in Picks \cup {None}
           /\ disturbed' \in BOOLEAN
<1> DEFINE Runs == [of : Picks, aborted : BOOLEAN, arrived : BOOLEAN]
<1>1. {[p EXCEPT !.aborted = TRUE] : p \in previews} \subseteq Runs
  <2>1. ASSUME NEW p \in Runs
        PROVE  [p EXCEPT !.aborted = TRUE] \in Runs
    OBVIOUS
  <2> QED  BY <2>1 DEF TypeOK
<1>2. f \in Picks => [of |-> f, aborted |-> FALSE, arrived |-> FALSE] \in Runs
  OBVIOUS
<1>3. CASE f = None
  BY <1>1, <1>3 DEF Preview, TypeOK
<1>4. CASE f # None
  BY <1>1, <1>2, <1>4 DEF Preview, TypeOK
<1> QED  BY <1>3, <1>4

\* The clean-up of the composing effect.
LEMMA QuietTyped ==
    ASSUME TypeOK
    PROVE  Quiet \subseteq [of : Pictures, told : BOOLEAN]
  BY DEF Quiet, TypeOK

\* At the start nothing is picked.
LEMMA TypeInit == Init => TypeOK
<1> SUFFICES ASSUME Init PROVE TypeOK
  OBVIOUS
<1>1. /\ {picked, chosen, picture, pageCount} \subseteq Picks \cup {None}
      /\ picture \in Pictures \cup {None} /\ slip \in Slips
  BY DEF Init, Slips
<1>2. {composing, loading, submitting, disturbed} \subseteq BOOLEAN
  BY DEF Init
<1>3. /\ composers = {} /\ previews = {} /\ sent = {}
      /\ unpicked = Picks /\ changes \in 0 .. MaxChanges
  BY PicksAssumption DEF Init
<1> QED  BY <1>1, <1>2, <1>3 DEF TypeOK

\* What the user does.
LEMMA UserStepsTyped ==
    ASSUME TypeOK,
           \/ \E v \in Picks : PickDocument(v) \/ PickPicture(v)
           \/ ChangeFile \/ SwitchTab \/ ChangeOption \/ Submit
    PROVE  TypeOK'
<1> USE PicksAssumption DEF Slips, userVars, fileVars, composeVars, previewVars, submitVars
<1>1. ASSUME NEW v \in Picks, PickDocument(v)
      PROVE  TypeOK'
  BY <1>1, PreviewTyped, QuietTyped DEF PickDocument, TypeOK
<1>2. ASSUME NEW v \in Picks, PickPicture(v)
      PROVE  TypeOK'
  <2>1. v \in Pictures /\ [of |-> v, told |-> TRUE] \in [of : Pictures, told : BOOLEAN]
    BY <1>2 DEF PickPicture
  <2>2. Preview(chosen) /\ chosen \in Picks \cup {None}
    BY <1>2 DEF PickPicture, TypeOK
  <2> QED  BY <1>2, <2>1, <2>2, PreviewTyped, QuietTyped DEF PickPicture, TypeOK
<1>3. CASE ChangeFile \/ SwitchTab
  <2>1. Preview(None) /\ (composers' = composers \/ composers' = Quiet)
    BY <1>3 DEF ChangeFile, SwitchTab
  <2> QED  BY <1>3, <2>1, PreviewTyped, QuietTyped DEF ChangeFile, SwitchTab, TypeOK
<1>4. CASE ChangeOption
  <2>1. Preview(chosen) /\ chosen \in Picks \cup {None}
    BY <1>4 DEF ChangeOption, TypeOK
  <2> QED  BY <1>4, <2>1, PreviewTyped DEF ChangeOption, TypeOK
<1>5. CASE Submit
  <2> DEFINE s == [meant |-> picked, file |-> chosen, counted |-> pageCount,
                   slip |-> slip, disturbed |-> disturbed]
  <2>1. s \in [meant : Picks \cup {None}, file : Picks, counted : Picks \cup {None},
               slip : Slips, disturbed : BOOLEAN]
    BY <1>5 DEF Submit, Enabled, TypeOK
  <2>2. sent' = {s}
    BY <1>5 DEF Submit
  <2> QED  BY <1>5, <2>1, <2>2 DEF Submit, TypeOK
<1> QED  BY <1>1, <1>2, <1>3, <1>4, <1>5

\* What ends later.
LEMMA EndsTyped ==
    ASSUME TypeOK,
           \/ Answered
           \/ \E c \in composers : Composed(c) \/ ComposeFails(c)
           \/ \E p \in previews : Arrived(p) \/ Counted(p) \/ Aborted(p) \/ PreviewFails(p)
    PROVE  TypeOK'
<1> USE PicksAssumption DEF Slips, userVars, fileVars, composeVars, previewVars, submitVars
<1>1. CASE Answered
  BY <1>1 DEF Answered, TypeOK
<1>2. ASSUME NEW c \in composers, Composed(c)
      PROVE  TypeOK'
  <2>1. Preview(c.of) /\ c.of \in Picks \cup {None} /\ composers' \subseteq composers
    BY <1>2 DEF Composed, ComposerEnds, TypeOK
  <2>2. composing' \in BOOLEAN
    BY <1>2 DEF Composed, ComposerEnds
  <2> QED  BY <1>2, <2>1, <2>2, PreviewTyped DEF Composed, ComposerEnds, TypeOK
<1>3. ASSUME NEW c \in composers, ComposeFails(c)
      PROVE  TypeOK'
  <2>1. composing' \in BOOLEAN
    BY <1>3 DEF ComposeFails, ComposerEnds
  <2> QED  BY <1>3, <2>1 DEF ComposeFails, ComposerEnds, TypeOK
<1>4. ASSUME NEW p \in previews, Arrived(p)
      PROVE  TypeOK'
  <2>1. [p EXCEPT !.arrived = TRUE] \in [of : Picks, aborted : BOOLEAN, arrived : BOOLEAN]
    BY DEF TypeOK
  <2> QED  BY <1>4, <2>1 DEF Arrived, TypeOK
<1>5. ASSUME NEW p \in previews, Counted(p) \/ Aborted(p) \/ PreviewFails(p)
      PROVE  TypeOK'
  <2>1. disturbed' \in BOOLEAN
    BY <1>5 DEF Counted, Aborted, PreviewFails, Ended
  <2> QED  BY <1>5, <2>1 DEF Counted, Aborted, PreviewFails, Ended, TypeOK
<1> QED  BY <1>1, <1>2, <1>3, <1>4, <1>5

\* Every step keeps the types.
LEMMA TypeStep == TypeOK /\ [Next]_vars => TypeOK'
<1> SUFFICES ASSUME TypeOK, [Next]_vars PROVE TypeOK'
  OBVIOUS
<1>1. CASE UNCHANGED vars
  BY <1>1 DEF vars, userVars, fileVars, composeVars, previewVars, submitVars, TypeOK
<1> QED  BY <1>1, UserStepsTyped, EndsTyped DEF Next

\* For every user the page holds files it was given.
THEOREM TypeCorrect == Spec => []TypeOK
  BY TypeInit, TypeStep, PTL DEF Spec

----------------------------------------------------------------------------
(* What the page waits for. *)

\* At the start nothing is under way.
LEMMA PageInit == Init => PageInv
  BY TypeInit, PicksAssumption
  DEF Init, PageInv, ComposesThePick, CountsTheChosen, SendsThePick, CountIsOfFile

\* The next run of the preview effect is the chosen file's, the others are aborted.
LEMMA PreviewCounts ==
    ASSUME TypeOK, Preview(chosen')
    PROVE  CountsTheChosen'
<1> DEFINE old == {[p EXCEPT !.aborted = TRUE] : p \in previews}
<1>1. \A p \in old : p.aborted
  BY DEF TypeOK
<1>2. CASE chosen' = None
  BY <1>1, <1>2 DEF Preview, CountsTheChosen
<1>3. CASE chosen' # None
  <2>1. previews' = old \cup {[of |-> chosen', aborted |-> FALSE, arrived |-> FALSE]}
    BY <1>3 DEF Preview
  <2>2. loading' = TRUE
    BY <1>3 DEF Preview
  <2> QED  BY <1>1, <2>1, <2>2 DEF CountsTheChosen
<1> QED  BY <1>2, <1>3

\* After the clean-up of the composing effect nobody is to report.
LEMMA QuietIsQuiet ==
    ASSUME TypeOK
    PROVE  \A c \in Quiet : ~c.told
  BY DEF TypeOK, Quiet

\* The user may act at any time: what is under way is told not to report, or is
\* what the page waits for.
LEMMA UserStepsKeep ==
    ASSUME PageInv, TypeOK',
           \/ \E v \in Picks : PickDocument(v) \/ PickPicture(v)
           \/ ChangeFile \/ SwitchTab \/ ChangeOption
    PROVE  PageInv'
<1> USE DEF PageInv, userVars, fileVars, composeVars, submitVars
<1>1. UNCHANGED sent /\ Preview(chosen')
  BY DEF PickDocument, PickPicture, ChangeFile, SwitchTab, ChangeOption
<1>2. CountsTheChosen'
  BY <1>1, PreviewCounts
<1>3. ComposesThePick'
  <2>1. CASE \E v \in Picks : PickPicture(v)
    <3>1. PICK v \in Picks : PickPicture(v)
      BY <2>1
    <3> DEFINE new == [of |-> v, told |-> TRUE]
    <3>2. composers' = Quiet \cup {new} /\ composing' = TRUE /\ new.told
      BY <3>1 DEF PickPicture
    <3> QED  BY <3>2, QuietIsQuiet DEF ComposesThePick
  <2>2. CASE (\E v \in Picks : PickDocument(v)) \/ SwitchTab
    <3>1. composers' = Quiet /\ picked' = chosen'
      BY <2>2 DEF PickDocument, SwitchTab
    <3> QED  BY <3>1, QuietIsQuiet DEF ComposesThePick
  <2>3. CASE ChangeFile \/ ChangeOption
    BY <2>3 DEF ChangeFile, ChangeOption, ComposesThePick
  <2> QED  BY <2>1, <2>2, <2>3
<1> QED  BY <1>1, <1>2, <1>3 DEF SendsThePick, CountIsOfFile

\* The button waits for the PDF and for the preview.
LEMMA SubmitKeeps ==
    ASSUME PageInv, TypeOK', Submit
    PROVE  PageInv'
<1> USE DEF PageInv, Submit, Enabled, userVars, fileVars, composeVars, previewVars
<1>1. ComposesThePick' /\ CountsTheChosen'
  BY DEF ComposesThePick, CountsTheChosen
<1>2. picked = chosen \/ slip # "none"
  BY DEF ComposesThePick
<1>3. pageCount \in {chosen, None} \/ disturbed
  BY DEF CountsTheChosen
<1>4. SendsThePick' /\ CountIsOfFile'
  BY <1>2, <1>3 DEF SendsThePick, CountIsOfFile
<1> QED  BY <1>1, <1>4

\* A PDF becomes the chosen file; if it is not the one picked, that is a slip.
LEMMA ComposingEndsKeep ==
    ASSUME NEW c \in composers, PageInv, TypeOK', Composed(c) \/ ComposeFails(c)
    PROVE  PageInv'
<1> USE DEF PageInv, ComposerEnds, userVars, previewVars, submitVars
<1>1. /\ composers' = composers \ {c} /\ composing' = (composing /\ ~c.told)
      /\ UNCHANGED <<picked, sent>> /\ c.told \in BOOLEAN
  BY DEF Composed, ComposeFails, TypeOK
<1>2. \A d \in composers' : d.told => composing'
  BY <1>1 DEF ComposesThePick
<1>3. slip' = "none" /\ (\A d \in composers' : ~d.told) => picked' = chosen'
  <2>1. CASE Composed(c)
    BY <1>1, <2>1 DEF Composed
  <2>2. CASE ComposeFails(c) /\ c.told
    BY <2>2 DEF ComposeFails
  <2>3. CASE ComposeFails(c) /\ ~c.told
    BY <1>1, <2>3 DEF ComposeFails, ComposesThePick
  <2> QED  BY <2>1, <2>2, <2>3
<1>4. ComposesThePick'
  BY <1>1, <1>2, <1>3 DEF ComposesThePick
<1>5. CountsTheChosen'
  <2>1. CASE Composed(c)
    BY <2>1, PreviewCounts DEF Composed
  <2>2. CASE ComposeFails(c)
    BY <2>2 DEF ComposeFails, CountsTheChosen
  <2> QED  BY <2>1, <2>2
<1> QED  BY <1>1, <1>4, <1>5 DEF SendsThePick, CountIsOfFile

\* A preview that ends counts the chosen file, or was aborted.
LEMMA PreviewEndsKeep ==
    ASSUME NEW p \in previews, PageInv, TypeOK',
           Arrived(p) \/ Counted(p) \/ Aborted(p) \/ PreviewFails(p)
    PROVE  PageInv'
<1> USE DEF PageInv, userVars, fileVars, composeVars, submitVars
<1>1. UNCHANGED <<picked, chosen, slip, composing, composers, sent>>
  BY DEF Arrived, Counted, Aborted, PreviewFails, Ended
<1>2. CountsTheChosen'
  <2>1. CASE Arrived(p)
    <3>1. [p EXCEPT !.arrived = TRUE].of = p.of /\ [p EXCEPT !.arrived = TRUE].aborted = p.aborted
      BY DEF TypeOK
    <3> QED  BY <2>1, <3>1 DEF Arrived, CountsTheChosen
  <2>2. CASE Counted(p) \/ Aborted(p) \/ PreviewFails(p)
    BY <2>2 DEF Counted, Aborted, PreviewFails, Ended, CountsTheChosen
  <2> QED  BY <2>1, <2>2
<1> QED  BY <1>1, <1>2 DEF ComposesThePick, SendsThePick, CountIsOfFile

\* Every step keeps what the page relies on.
LEMMA PageStep == PageInv /\ [Next]_vars => PageInv'
<1> SUFFICES ASSUME PageInv, [Next]_vars PROVE PageInv'
  OBVIOUS
<1>1. TypeOK'
  BY TypeStep DEF PageInv
<1>2. CASE Answered \/ UNCHANGED vars
  BY <1>1, <1>2
  DEF Answered, vars, userVars, fileVars, composeVars, previewVars, submitVars, PageInv,
      ComposesThePick, CountsTheChosen, SendsThePick, CountIsOfFile
<1> QED  BY <1>1, <1>2, UserStepsKeep, SubmitKeeps, ComposingEndsKeep, PreviewEndsKeep DEF Next

\* The inductive invariant: the PDF that the page waits for is the only one to
\* report, and previews that are not aborted are the chosen file's.
THEOREM Invariance == Spec => []PageInv
  BY PageInit, PageStep, PTL DEF Spec

\* Whatever the user does and in whatever order PDFs and previews end, the file sent
\* is the one picked last, but for a failure that was told and a late PDF.
THEOREM SendsWhatIsPicked == Spec => []SendsThePick
<1>1. PageInv => SendsThePick
  BY DEF PageInv
<1> QED  BY <1>1, Invariance, PTL

\* A file is sent with its own page count or none, unless an aborted preview has
\* ended under the next one.
THEOREM CountsWhatIsSent == Spec => []CountIsOfFile
<1>1. PageInv => CountIsOfFile
  BY DEF PageInv
<1> QED  BY <1>1, Invariance, PTL

=============================================================================
