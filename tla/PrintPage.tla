----------------------------- MODULE PrintPage -----------------------------
(***************************************************************************)
(* The print page of the web client (public/assets/index-DJmFytzG.js, line *)
(* 95): the file that is picked, the PDF that the page makes of a picture, *)
(* the preview that counts the pages, and the submission that uses both.   *)
(* Each runs asynchronously and writes the page's state when it ends,      *)
(* whether or not the page has moved on.                                   *)
(*                                                                         *)
(* One effect makes a PDF of a picture; its clean-up only tells it not to  *)
(* report.  Another fetches the preview; its clean-up aborts the fetch, but*)
(* not the reading of a preview that has arrived, and an aborted fetch     *)
(* still clears the sign that one is under way.  The page disables none of *)
(* the user's inputs meanwhile, only the button that prints.               *)
(***************************************************************************)
EXTENDS Naturals, FiniteSets

CONSTANTS
    Picks,     \* the files the user picks, each once
    Pictures,  \* those of them that are pictures
    None,      \* no file
    MaxChanges \* bound: changes of an option (duplex, N-up) that renew the preview

ASSUME PicksAssumption ==
    Pictures \subseteq Picks /\ None \notin Picks /\ MaxChanges \in Nat

VARIABLES
    picked,     \* what the user picked last
    chosen,     \* p: the PDF that will be sent, named by its pick
    picture,    \* Ce: the picture to make a PDF of
    composing,  \* Fe
    composers,  \* runs of the composing effect: [of, told], told is ~n
    previews,   \* runs of the preview effect: [of, aborted, arrived]
    loading,    \* C
    pageCount,  \* D: the file whose pages were counted, or None
    submitting, \* be
    slip,       \* why the chosen file may not be the one picked last: none, failed, overtaken
    disturbed,  \* an aborted preview has ended since the last one began
    sent,       \* none or the file sent last, with the count it was checked with, slip
                \* and disturbed
    unpicked,   \* files not picked yet
    changes     \* options changed

userVars == <<unpicked, changes>>
fileVars == <<picked, chosen, picture, slip>>
composeVars == <<composing, composers>>
previewVars == <<previews, loading, pageCount, disturbed>>
submitVars == <<submitting, sent>>
vars == <<userVars, fileVars, composeVars, previewVars, submitVars>>

Slips == {"none", "failed", "overtaken"}

Init ==
    /\ picked = None /\ chosen = None /\ picture = None /\ slip = "none"
    /\ composing = FALSE /\ composers = {}
    /\ previews = {} /\ loading = FALSE /\ pageCount = None /\ disturbed = FALSE
    /\ submitting = FALSE /\ sent = {}
    /\ unpicked = Picks /\ changes = 0

\* The preview effect's clean-up and its next run, for the file f.
Preview(f) ==
    LET old == {[p EXCEPT !.aborted = TRUE] : p \in previews} IN
    /\ disturbed' = FALSE
    /\ IF f = None
          THEN previews' = old /\ loading' = FALSE /\ pageCount' = None
          ELSE /\ previews' = old \cup {[of |-> f, aborted |-> FALSE, arrived |-> FALSE]}
               /\ loading' = TRUE
               /\ UNCHANGED pageCount

Quiet == {[c EXCEPT !.told = FALSE] : c \in composers}

----------------------------------------------------------------------------
(* The user. *)

\* A document: the picture is forgotten, the composing effect stops at once and
\* leaves its sign as it is.
PickDocument(v) ==
    /\ v \in unpicked \ Pictures
    /\ picked' = v /\ chosen' = v /\ picture' = None /\ slip' = "none"
    /\ unpicked' = unpicked \ {v}
    /\ composers' = Quiet
    /\ Preview(v)
    /\ UNCHANGED <<composing, submitVars, changes>>

\* A picture: the file chosen before stays until the PDF is made.
PickPicture(v) ==
    /\ v \in unpicked \cap Pictures
    /\ picked' = v /\ picture' = v /\ slip' = "none"
    /\ unpicked' = unpicked \ {v}
    /\ composers' = Quiet \cup {[of |-> v, told |-> TRUE]}
    /\ composing' = TRUE
    /\ Preview(chosen)
    /\ UNCHANGED <<chosen, submitVars, changes>>

\* The button that is to change the file forgets it, but not the picture, nor does
\* it stop the composing effect.
ChangeFile ==
    /\ chosen # None
    /\ picked' = None /\ chosen' = None /\ slip' = "none"
    /\ Preview(None)
    /\ UNCHANGED <<picture, composeVars, submitVars, userVars>>

\* To the tab of Feishu documents and back: everything is forgotten.
SwitchTab ==
    /\ picked' = None /\ chosen' = None /\ picture' = None /\ slip' = "none"
    /\ composers' = Quiet
    /\ Preview(None)
    /\ UNCHANGED <<composing, submitVars, userVars>>

ChangeOption ==
    /\ changes < MaxChanges
    /\ changes' = changes + 1
    /\ Preview(chosen)
    /\ UNCHANGED <<fileVars, composeVars, submitVars, unpicked>>

\* Variant: the page forgets to wait for the PDF of a picture.
EnabledComposing == chosen # None /\ ~submitting /\ ~loading

\* Variant: the page does not ask for a file.
EnabledEmpty == ~submitting /\ ~composing /\ ~loading

\* Variant: the page forgets to wait for the preview.
EnabledLoading == chosen # None /\ ~submitting /\ ~composing

\* Kt: the submit button.
Enabled == chosen # None /\ ~submitting /\ ~composing /\ ~loading

\* zt: the chosen file, with a page range checked, or made, with the page count.
Submit ==
    /\ Enabled
    /\ submitting' = TRUE
    /\ sent' = {[meant |-> picked, file |-> chosen, counted |-> pageCount,
                  slip |-> slip, disturbed |-> disturbed]}
    /\ UNCHANGED <<fileVars, composeVars, previewVars, userVars>>

----------------------------------------------------------------------------
(* What ends later. *)

Answered ==
    /\ submitting
    /\ submitting' = FALSE
    /\ UNCHANGED <<sent, fileVars, composeVars, previewVars, userVars>>

ComposerEnds(c) ==
    /\ c \in composers
    /\ composers' = composers \ {c}
    /\ composing' = (composing /\ ~c.told)
    /\ UNCHANGED <<picked, picture, submitVars, userVars>>

\* The PDF is made: it becomes the chosen file in any case, also when the user has
\* picked another since.
Composed(c) ==
    /\ ComposerEnds(c)
    /\ chosen' = c.of
    /\ slip' = IF c.of = picked THEN "none" ELSE "overtaken"
    /\ Preview(c.of)

\* It cannot be made: the user is told, unless the page has moved on, and the
\* file chosen before is still the chosen one.
ComposeFails(c) ==
    /\ ComposerEnds(c)
    /\ slip' = IF c.told THEN "failed" ELSE slip
    /\ UNCHANGED <<chosen, previewVars>>

Arrived(p) ==
    /\ p \in previews /\ ~p.aborted /\ ~p.arrived
    /\ previews' = (previews \ {p}) \cup {[p EXCEPT !.arrived = TRUE]}
    /\ UNCHANGED <<fileVars, composeVars, loading, pageCount, disturbed, submitVars, userVars>>

Ended(p) ==
    /\ p \in previews
    /\ previews' = previews \ {p}
    /\ loading' = FALSE
    /\ disturbed' = (disturbed \/ p.aborted)
    /\ UNCHANGED <<fileVars, composeVars, submitVars, userVars>>

\* The preview is read, aborted or not.
Counted(p) ==
    /\ p.arrived /\ Ended(p)
    /\ pageCount' = p.of

\* The aborted fetch is rejected.
Aborted(p) ==
    /\ p.aborted /\ ~p.arrived /\ Ended(p)
    /\ UNCHANGED pageCount

\* The fetch or the reading fails.
PreviewFails(p) ==
    /\ p.arrived \/ ~p.aborted
    /\ Ended(p)
    /\ pageCount' = None

Next ==
    \/ \E v \in Picks : PickDocument(v) \/ PickPicture(v)
    \/ ChangeFile \/ SwitchTab \/ ChangeOption \/ Submit \/ Answered
    \/ \E c \in composers : Composed(c) \/ ComposeFails(c)
    \/ \E p \in previews : Arrived(p) \/ Counted(p) \/ Aborted(p) \/ PreviewFails(p)

Spec == Init /\ [][Next]_vars

----------------------------------------------------------------------------
(* Properties. *)

TypeOK ==
    /\ {picked, chosen, picture, pageCount} \subseteq Picks \cup {None}
    /\ picture \in Pictures \cup {None} /\ slip \in Slips
    /\ {composing, loading, submitting, disturbed} \subseteq BOOLEAN
    /\ composers \subseteq [of : Pictures, told : BOOLEAN]
    /\ previews \subseteq [of : Picks, aborted : BOOLEAN, arrived : BOOLEAN]
    /\ unpicked \subseteq Picks /\ changes \in 0 .. MaxChanges
    /\ sent \subseteq [meant : Picks \cup {None}, file : Picks, counted : Picks \cup {None},
                       slip : Slips, disturbed : BOOLEAN]

\* Whatever the user does while PDFs and previews are under way, the page sends
\* the file picked last, never the one chosen before it while a PDF is made of the
\* picture (Kt waits for Fe), with two exceptions: the user has been told that the
\* PDF could not be made and prints what is still chosen, or the PDF of a picture
\* that has been replaced or discarded arrives late and becomes the chosen file.
SendsThePick == \A s \in sent : s.file = s.meant \/ s.slip # "none"

\* The page count, which a page range is checked with, odd and even pages are made
\* from and duplex is switched off by, is that of the file sent, or there is none,
\* for documents and pictures alike, unless a preview that was aborted has ended
\* while the next was under way: its end clears the sign of the next, or writes its
\* own count (Kt waits for C).
CountIsOfFile == \A s \in sent : s.counted \in {s.file, None} \/ s.disturbed

=============================================================================
