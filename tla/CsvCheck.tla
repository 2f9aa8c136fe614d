------------------------------ MODULE CsvCheck ------------------------------
(***************************************************************************)
(* The form of "Upload a CSV" (CsvStep of features/newtest/NewTestPage.tsx) *)
(* checks its text on the server while it is typed: 600 ms after the last  *)
(* change a dry run is sent, whose answer may come when the text is        *)
(* another, and the button waits for a preview that found no problem.      *)
(***************************************************************************)
CONSTANTS
    Texts,
    Blank,     \* the text of an empty box
    TooBig,    \* the texts over MAX_CSV_CHARACTERS
    Valid      \* the texts in which the server finds no problem

ASSUME CsvAssumption == Blank \in Texts /\ TooBig \cup Valid \subseteq Texts \ {Blank}

VARIABLE csv   \* the form; preview holds the text that the preview shown is of

EmptyForm ==
    [text |-> Blank, reading |-> {}, timer |-> FALSE, checks |-> {},
     preview |-> {}, checking |-> FALSE, error |-> FALSE]

Checkable == Texts \ ({Blank} \cup TooBig)

\* Another text cancels the check of the one before, sent or not; the same
\* text is no change.
setText(form, text) ==
    IF text = form.text THEN form
    ELSE [form EXCEPT !.text = text, !.timer = text \in Checkable,
                      !.checks = {[check EXCEPT !.cancelled = TRUE] : check \in @}]

Type(text) == csv.text # text /\ csv' = setText(csv, text)

\* A file over the limit is refused without being read.
ChooseFile(text) ==
    /\ text \notin TooBig /\ csv.reading = {}
    /\ csv' = [csv EXCEPT !.preview = {}, !.reading = {text}]
FileRead ==
    \E text \in csv.reading : csv' = [setText(csv, text) EXCEPT !.reading = {}]

CheckStarts ==
    /\ csv.timer
    /\ csv' = [csv EXCEPT !.timer = FALSE, !.checking = TRUE,
                          !.checks = @ \cup {[of |-> csv.text, cancelled |-> FALSE]}]

AnsweredUnless(check, ignored) ==
    /\ check \in csv.checks
    /\ LET form == [csv EXCEPT !.checks = @ \ {check}]
       IN  csv' = IF ignored THEN form
                  ELSE [form EXCEPT !.preview = {check.of}, !.error = FALSE, !.checking = FALSE]

CheckAnsweredLate(check) == AnsweredUnless(check, FALSE)   \* mutant
CheckAnswered(check) == AnsweredUnless(check, check.cancelled)

CheckFails(check) ==
    /\ check \in csv.checks
    /\ LET form == [csv EXCEPT !.checks = @ \ {check}]
       IN  csv' = IF check.cancelled THEN form ELSE [form EXCEPT !.error = TRUE, !.checking = FALSE]

\* Why "Save students and continue" is disabled; a reason of "none" enables it.
reason(form) ==
    CASE form.text = Blank -> "no text"
      [] form.text \in TooBig -> "over the limit"
      [] form.text \in Checkable /\ (form.checking \/ form.preview = {}) -> "checking the file"
      [] form.text \in Checkable /\ ~form.checking /\ form.preview # {} ->
            IF form.preview \subseteq Valid THEN "none" ELSE "problems"

Checks == [of : Texts, cancelled : BOOLEAN]
CsvTypeOK ==
    csv \in [text : Texts, reading : SUBSET Texts, timer : BOOLEAN, checks : SUBSET Checks,
             preview : SUBSET Texts, checking : BOOLEAN, error : BOOLEAN]

\* When nothing more is on its way, the preview is of the text in the box,
\* whichever of the checks was answered last ("cancelled" in the effect).
PreviewIsOfTheText ==
    (/\ csv.text \in Checkable /\ ~csv.timer /\ ~csv.error /\ csv.reading = {}
     /\ \A check \in csv.checks : check.cancelled) => csv.preview \subseteq {csv.text}
=============================================================================
