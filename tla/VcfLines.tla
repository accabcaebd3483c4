------------------------------ MODULE VcfLines ------------------------------
(***************************************************************************)
(* What a VCF scanner promises at the level of lines (spec 4.1 and 4.5),   *)
(* whatever its byte automaton: the input is read line by line; every     *)
(* line ends with exactly one verdict, handled (its end-of-line handler    *)
(* ran) or failed (it got one grammar error); the scanner moves through    *)
(* the sections fileformat, meta, body and never goes back; an error skips *)
(* the rest of its line and resumes in the section the error leads to;    *)
(* at the end of the input an unfinished line, a missing fileformat line   *)
(* or a missing header is a grammar error.                                 *)
(***************************************************************************)
EXTENDS Naturals, Sequences

VARIABLES
  section,   \* the section the next line start belongs to
  pending,   \* the current line: "idle" (not started), "reading", "failed"
  verdicts,  \* the verdict of every finished line, in order
  errors,    \* the numbers of the lines that got a grammar error
  ended      \* the input has ended

vars == <<section, pending, verdicts, errors, ended>>

Sections == {"fileformat", "meta", "body"}
Pending  == {"idle", "reading", "failed"}

\* The number of the line being read.
Current == Len(verdicts) + 1

\* Where the scanner can be after a line of a section, finished or failed:
\* the fileformat line leads to the meta section, a meta line stays in it,
\* the header line (and an error in it) leads to the body.
After(s) ==
  CASE s = "fileformat" -> {"meta"}
    [] s = "meta"       -> {"meta", "body"}
    [] s = "body"       -> {"body"}

Init ==
  /\ section = "fileformat"
  /\ pending = "idle"
  /\ verdicts = <<>>
  /\ errors = {}
  /\ ended = FALSE

\* The first bytes of a line are accepted.
Begin ==
  /\ ~ended
  /\ pending = "idle"
  /\ pending' = "reading"
  /\ UNCHANGED <<section, verdicts, errors, ended>>

\* A byte inside a line is rejected: the line gets its error and the rest
\* of it is skipped.
Fail ==
  /\ ~ended
  /\ pending \in {"idle", "reading"}
  /\ pending' = "failed"
  /\ errors' = errors \cup {Current}
  /\ section' \in After(section)
  /\ UNCHANGED <<verdicts, ended>>

\* The newline of a line read without error: its handler runs.
Finish ==
  /\ ~ended
  /\ pending = "reading"
  /\ pending' = "idle"
  /\ verdicts' = Append(verdicts, "handled")
  /\ section' \in After(section)
  /\ UNCHANGED <<errors, ended>>

\* The newline itself is rejected (an empty or truncated line): the error
\* and the end of the line in one step.
FailOnNewline ==
  /\ ~ended
  /\ pending \in {"idle", "reading"}
  /\ pending' = "idle"
  /\ errors' = errors \cup {Current}
  /\ verdicts' = Append(verdicts, "failed")
  /\ section' \in After(section)
  /\ UNCHANGED ended

\* The newline that ends a skipped line.
SkipEnd ==
  /\ ~ended
  /\ pending = "failed"
  /\ pending' = "idle"
  /\ verdicts' = Append(verdicts, "failed")
  /\ UNCHANGED <<section, errors, ended>>

\* At the end of the input, a line in progress, or a file that has not
\* reached its body, is an error; a skipped line or a body at a line start
\* is not.
EofFails == pending = "reading" \/ (pending = "idle" /\ section # "body")

End ==
  /\ ~ended
  /\ ended' = TRUE
  /\ \/ /\ EofFails
        /\ pending' = "failed"
        /\ errors' = errors \cup {Current}
        /\ section' \in After(section)
        /\ UNCHANGED verdicts
     \/ /\ ~EofFails
        /\ UNCHANGED <<section, pending, verdicts, errors>>

\* After the end of the input the caller stops.
Stopped == ended /\ UNCHANGED vars

Next == Begin \/ Fail \/ Finish \/ FailOnNewline \/ SkipEnd \/ End \/ Stopped

Spec == Init /\ [][Next]_vars

-----------------------------------------------------------------------------
TypeOK ==
  /\ section \in Sections
  /\ pending \in Pending
  /\ verdicts \in Seq({"handled", "failed"})
  /\ errors \subseteq 1..Current
  /\ ended \in BOOLEAN

\* Every finished line failed exactly when it got an error, and the line
\* being read has an error exactly when it is being skipped.
VerdictsMatchErrors ==
  /\ \A k \in 1..Len(verdicts) : verdicts[k] = "failed" <=> k \in errors
  /\ Current \in errors <=> pending = "failed"

\* The sections are passed in order and never re-entered.
Rank(s) == CASE s = "fileformat" -> 0 [] s = "meta" -> 1 [] s = "body" -> 2

SectionsInOrder == [][Rank(section') >= Rank(section)]_vars

=============================================================================
