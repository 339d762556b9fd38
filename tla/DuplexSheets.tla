---------------------------- MODULE DuplexSheets ----------------------------
(***************************************************************************)
(* From the pages of a document to sheets of paper: page selection, N-up,  *)
(* copies, the two passes of manual duplex (api/manual_duplex.go) in the   *)
(* order in which the HTTP handler and the bot apply them, and the printer *)
(* that prints the passes on the two sides of a stack.                     *)
(*                                                                         *)
(* A page is the sequence of source pages it shows, so that a blank page is*)
(* the empty sequence.  A file is a sequence of pages, a sheet a pair of   *)
(* pages: the side the odd pages belong on and the other.                  *)
(***************************************************************************)
EXTENDS Naturals, FiniteSets, Sequences, SequencesExt

CONSTANTS
    MaxPages,   \* bound: source pages of a document
    MaxCopies,  \* bound: copies
    Nups,       \* page_layout: 1, 2, 4, 6
    Origins     \* "web" and "bot"

ASSUME SheetsAssumption ==
    /\ MaxPages \in Nat /\ MaxCopies \in Nat
    /\ Nups \subseteq Nat \ {0}

VARIABLES
    job,     \* what was asked for, and the printer's configuration
    step,    \* the next step of the handler
    file,    \* printSourcePath
    first,   \* firstPassPath
    second,  \* secondPassPath
    pile     \* the sheets, in the order in which they came out last

vars == <<job, step, file, first, second, pile>>

Blank == << >>

\* The bot offers no choice of collation.
Jobs == {j \in
    [origin : Origins, pages : (SUBSET (1 .. MaxPages)) \ {{}}, nup : Nups,
     copies : 1 .. MaxCopies, collate : BOOLEAN, duplex : {"off", "auto", "manual"},
     reverse : BOOLEAN, firstPassOdd : BOOLEAN, padToEven : BOOLEAN,
     reverseFirst : BOOLEAN, reverseSecond : BOOLEAN, feed : {"sameOrder", "reverseOrder"}] :
        /\ j.origin = "bot" => j.collate
        /\ j.duplex # "off" => ~j.reverse
        /\ j.duplex # "manual" =>
              ~j.firstPassOdd /\ ~j.padToEven /\ ~j.reverseFirst /\ ~j.reverseSecond
              /\ j.feed = "sameOrder"}

Init ==
    /\ job \in Jobs
    /\ step = "select"
    /\ file = << >> /\ first = << >> /\ second = << >> /\ pile = << >>

----------------------------------------------------------------------------
(* Files. *)

\* A set of page numbers as a selector list: the i-th has i of the set up to it.
InOrder(pages) ==
    [i \in 1 .. Cardinality(pages) |->
        CHOOSE p \in pages : Cardinality({q \in pages : q <= p}) = i]

\* Variant: the last page is left out.
PageSelectorsShort(totalPages, even) == InOrder({i \in 1 .. totalPages - 1 : (i % 2 = 0) = even})

PageSelectors(totalPages, even) == InOrder({i \in 1 .. totalPages : (i % 2 = 0) = even})

BuildOrderedPDF(source, selectors) == [i \in DOMAIN selectors |-> source[selectors[i]]]

\* applyCopiesMode: the whole file again and again, or each page in turn.
ApplyCopies(source, copies, collate) ==
    [i \in 1 .. Len(source) * copies |->
        source[IF collate THEN ((i - 1) % Len(source)) + 1 ELSE ((i - 1) \div copies) + 1]]

Ordered(pages, reversed) == IF reversed THEN Reverse(pages) ELSE pages

\* parsePagesString: the selected pages, each once, in ascending order.
Selected(pages) == InOrder(pages)

\* applyNupLayout: as many of the selected pages on one as the layout holds.
Laid(selectors, nup) ==
    [i \in 1 .. (Len(selectors) + nup - 1) \div nup |->
        SubSeq(selectors, (i - 1) * nup + 1,
               IF i * nup < Len(selectors) THEN i * nup ELSE Len(selectors))]

----------------------------------------------------------------------------
(* The handlers.  The HTTP handler splits the passes and copies each; the bot *)
(* copies the document and splits the copies.                                 *)

Goto(from, to) == step = from /\ step' = to

\* Pages, layout, and the rule that one page is never duplexed.
Select ==
    /\ LET doc == Laid(Selected(job.pages), job.nup)
           duplex == IF Len(doc) = 1 THEN "off" ELSE job.duplex
       IN /\ file' = doc
          /\ job' = [job EXCEPT !.duplex = duplex]
          /\ Goto("select",
                  IF job.origin = "bot" THEN "copy"
                  ELSE CASE duplex = "manual" -> "split"
                         [] duplex = "off" -> "reverse"
                         [] OTHER -> "copy")
    /\ UNCHANGED <<first, second, pile>>

ReverseFile ==
    /\ Goto("reverse", IF job.origin = "bot" THEN "print" ELSE "copy")
    /\ file' = Ordered(file, job.reverse)
    /\ UNCHANGED <<job, first, second, pile>>

CopyFile ==
    /\ Goto("copy", CASE job.duplex = "manual" -> "split"
                      [] job.duplex = "off" /\ job.origin = "bot" -> "reverse"
                      [] OTHER -> "print")
    /\ file' = ApplyCopies(file, job.copies, job.collate)
    /\ UNCHANGED <<job, first, second, pile>>

\* Variant: the document is never padded.
SplitUnpadded ==
    LET total == Len(file) IN
    /\ Goto("split", IF job.origin = "bot" THEN "firstPass" ELSE "copyPasses")
    /\ first' = BuildOrderedPDF(file,
                   Ordered(PageSelectors(total, ~job.firstPassOdd), job.reverseFirst))
    /\ second' = BuildOrderedPDF(file,
                   Ordered(PageSelectors(total, job.firstPassOdd), job.reverseSecond))
    /\ UNCHANGED <<job, file, pile>>

\* prepareManualDuplexFiles
Split ==
    LET padded == IF job.padToEven /\ Len(file) % 2 = 1 THEN Append(file, Blank) ELSE file
        total == Len(padded)
    IN /\ Goto("split", IF job.origin = "bot" THEN "firstPass" ELSE "copyPasses")
       /\ first' = BuildOrderedPDF(padded,
                      Ordered(PageSelectors(total, ~job.firstPassOdd), job.reverseFirst))
       /\ second' = BuildOrderedPDF(padded,
                      Ordered(PageSelectors(total, job.firstPassOdd), job.reverseSecond))
       /\ UNCHANGED <<job, file, pile>>

CopyPasses ==
    /\ Goto("copyPasses", "firstPass")
    /\ first' = ApplyCopies(first, job.copies, job.collate)
    /\ second' = ApplyCopies(second, job.copies, job.collate)
    /\ UNCHANGED <<job, file, pile>>

----------------------------------------------------------------------------
(* The printer and the user. *)

Sheet(firstSide, secondSide) ==
    IF job.firstPassOdd THEN <<firstSide, secondSide>> ELSE <<secondSide, firstSide>>

\* One job: one-sided, or both sides by the printer.
PrintOneJob ==
    /\ Goto("print", "done")
    /\ pile' = IF job.duplex = "off"
                  THEN [i \in DOMAIN file |-> <<file[i], Blank>>]
                  ELSE [i \in 1 .. (Len(file) + 1) \div 2 |->
                          <<file[2 * i - 1], IF 2 * i <= Len(file) THEN file[2 * i] ELSE Blank>>]
    /\ UNCHANGED <<job, file, first, second>>

PrintFirstPass ==
    /\ Goto("firstPass", "turn")
    /\ pile' = [i \in DOMAIN first |-> Sheet(first[i], Blank)]
    /\ UNCHANGED <<job, file, first, second>>

\* The user turns the stack over and the printer feeds it in the same order or
\* in reverse; pages beyond the stack go onto new sheets.
PrintSecondPass ==
    LET old == Ordered(first, job.feed = "reverseOrder")
        last == IF Len(old) > Len(second) THEN Len(old) ELSE Len(second)
        On(side, i) == IF i <= Len(side) THEN side[i] ELSE Blank
    IN /\ Goto("turn", "done")
       /\ pile' = [i \in 1 .. last |-> Sheet(On(old, i), On(second, i))]
       /\ UNCHANGED <<job, file, first, second>>

Done == step = "done" /\ UNCHANGED vars

Next ==
    \/ Select \/ ReverseFile \/ CopyFile \/ Split \/ CopyPasses
    \/ PrintOneJob \/ PrintFirstPass \/ PrintSecondPass
    \/ Done

Spec == Init /\ [][Next]_vars

----------------------------------------------------------------------------
(* What the user holds in the end. *)

Document == Laid(Selected(job.pages), job.nup)

\* One copy of the document as sheets.
CopyOfSheets ==
    LET doc == Document IN
    IF job.duplex = "off" THEN [i \in DOMAIN doc |-> <<doc[i], Blank>>]
    ELSE [i \in 1 .. (Len(doc) + 1) \div 2 |->
            <<doc[2 * i - 1], IF 2 * i <= Len(doc) THEN doc[2 * i] ELSE Blank>>]

\* Where the i-th of n sheets lies in its c-th copy: copy after copy if they are
\* collated, or else next to its other copies.
Place(copies, collate, n, c, i) == IF collate THEN (c - 1) * n + i ELSE (i - 1) * copies + c

\* The stack holds the copies of these sheets and nothing else, each in its place.
Holds(stack, sheets) ==
    /\ Len(stack) = job.copies * Len(sheets)
    /\ \A c \in 1 .. job.copies, i \in DOMAIN sheets :
          stack[Place(job.copies, job.collate, Len(sheets), c, i)] = sheets[i]

\* The configuration of the passes suits the way the printer takes the stack.
Suited == (job.feed = "sameOrder") = (job.reverseFirst = job.reverseSecond)

\* Every copy lies in the order of the document, or all of it in reverse.
RightPile ==
    IF job.duplex = "off" THEN Holds(Ordered(pile, job.reverse), CopyOfSheets)
    ELSE Holds(pile, CopyOfSheets) \/ Holds(Reverse(pile), CopyOfSheets)

\* Where the order of copying and splitting, or the configuration, puts pages on
\* the wrong sheets:
OddUnpadded == job.duplex = "manual" /\ ~job.padToEven /\ Len(Document) % 2 = 1
BotCopies == job.duplex = "manual" /\ job.origin = "bot" /\ job.copies > 1 /\ Len(Document) % 2 = 1
AutoCopies == job.duplex = "auto" /\ job.copies > 1 /\ (~job.collate \/ Len(Document) % 2 = 1)

\* A configuration that suits the printer gives every copy its own sheets, with
\* page 2k on the back of page 2k-1, in order, whatever pages, layout, copies and
\* collation were asked for (prepareManualDuplexFiles and applyCopiesMode), but
\* for the cases above: there is no other.
SheetsRight ==
    step = "done" /\ Suited => RightPile \/ OddUnpadded \/ BotCopies \/ AutoCopies

\* The places, sheet and side, that show this page.
Showing(page) == {at \in (DOMAIN pile) \X {1, 2} : pile[at[1]][at[2]] = page}

\* Suited or not, padded or not, the two passes together print every page of the
\* document once for each copy.
NothingLost ==
    step = "done" => \A page \in Range(Document) : Cardinality(Showing(page)) = job.copies

=============================================================================
