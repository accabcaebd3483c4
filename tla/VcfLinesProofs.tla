--------------------------- MODULE VcfLinesProofs ---------------------------
(***************************************************************************)
(* Proofs of the line-level contract VcfLines: its type invariant, the    *)
(* agreement of verdicts with errors, and the order of sections.           *)
(***************************************************************************)
EXTENDS VcfLines, SequenceTheorems, TLAPS

(***************************************************************************)
(* TypeOK and VerdictsMatchErrors are inductive together: the second      *)
(* needs errors \subseteq 1..Current from the first to know that the line  *)
(* begun after a newline has no error yet.                                 *)
(***************************************************************************)
Inv == TypeOK /\ VerdictsMatchErrors

Verdicts == {"handled", "failed"}

\* A section's successors are sections.
LEMMA AfterType ==
  ASSUME NEW s \in Sections
  PROVE  After(s) \subseteq Sections
BY DEF After, Sections

\* Appending a verdict: the old ones are kept, the new one is last, and the
\* line being read advances by one.
LEMMA AppendVerdict ==
  ASSUME NEW v \in Verdicts, verdicts \in Seq(Verdicts)
  PROVE  /\ Append(verdicts, v) \in Seq(Verdicts)
         /\ Len(Append(verdicts, v)) = Current
         /\ \A k \in 1..Len(verdicts) : Append(verdicts, v)[k] = verdicts[k]
         /\ Append(verdicts, v)[Current] = v
BY AppendProperties DEF Current

LEMMA InvInit == Init => Inv
<1> SUFFICES ASSUME Init PROVE Inv
  OBVIOUS
<1>1. verdicts = << >> /\ Len(verdicts) = 0
  BY DEF Init
<1>2. verdicts \in Seq({"handled", "failed"})
  BY <1>1
<1>3. TypeOK
  BY <1>1, <1>2 DEF Init, TypeOK, Current, Sections, Pending
<1>4. VerdictsMatchErrors
  BY <1>1 DEF Init, VerdictsMatchErrors, Current
<1>. QED
  BY <1>3, <1>4 DEF Inv

\* A step that adds the current line to errors and leaves verdicts alone.
LEMMA ErrorStep ==
  ASSUME Inv, pending \in {"idle", "reading"} \/ pending' = "failed",
         errors' = errors \cup {Current}, pending' = "failed",
         verdicts' = verdicts, section' \in Sections, ended' \in BOOLEAN
  PROVE  Inv'
<1>1. verdicts \in Seq({"handled", "failed"}) /\ errors \subseteq 1..Current
  BY DEF Inv, TypeOK
<1>2. Current' = Current /\ Current \in Nat \ {0}
  BY <1>1 DEF Current
<1>3. TypeOK'
  BY <1>1, <1>2 DEF TypeOK, Pending
<1>4. VerdictsMatchErrors'
  BY <1>1, <1>2 DEF Inv, VerdictsMatchErrors, Current
<1>. QED
  BY <1>3, <1>4 DEF Inv

\* A step that ends the current line with verdict v, v = "failed" exactly
\* when the line has (or now gets) an error, and starts an idle line.
LEMMA EndLineStep ==
  ASSUME Inv, NEW v \in Verdicts,
         verdicts' = Append(verdicts, v),
         errors' = errors \/ errors' = errors \cup {Current},
         v = "failed" <=> Current \in errors',
         pending' = "idle", section' \in Sections, ended' \in BOOLEAN
  PROVE  Inv'
<1>1. verdicts \in Seq(Verdicts) /\ errors \subseteq 1..Current
  BY DEF Inv, TypeOK, Verdicts
<1>2. /\ verdicts' \in Seq(Verdicts)
      /\ Len(verdicts') = Current
      /\ \A k \in 1..Len(verdicts) : verdicts'[k] = verdicts[k]
      /\ verdicts'[Current] = v
  BY <1>1, AppendVerdict
<1>3. Current' = Current + 1 /\ Current \in Nat \ {0}
  BY <1>1, <1>2 DEF Current
<1>4. TypeOK'
  <2>1. errors' \subseteq 1..Current'
    <3>1. CASE errors' = errors
      BY <1>1, <1>3, <3>1
    <3>2. CASE errors' = errors \cup {Current}
      BY <1>1, <1>3, <3>2
    <3>. QED
      BY <3>1, <3>2
  <2>2. verdicts' \in Seq({"handled", "failed"})
    BY <1>2 DEF Verdicts
  <2>. QED
    BY <2>1, <2>2 DEF TypeOK, Pending
<1>5. \A k \in 1..Len(verdicts') : verdicts'[k] = "failed" <=> k \in errors'
  BY <1>1, <1>2 DEF Inv, VerdictsMatchErrors, Current
<1>6. Current' \notin errors'
  BY <1>1, <1>3 DEF Current
<1>. QED
  BY <1>4, <1>5, <1>6 DEF Inv, VerdictsMatchErrors

LEMMA InvStep == Inv /\ [Next]_vars => Inv'
<1> SUFFICES ASSUME Inv, [Next]_vars PROVE Inv'
  OBVIOUS
<1>1. section \in Sections /\ pending \in Pending
  BY DEF Inv, TypeOK
<1>2. CASE Begin
  BY <1>2 DEF Begin, Inv, TypeOK, VerdictsMatchErrors, Current, Pending
<1>3. CASE Fail
  <2>1. /\ pending \in {"idle", "reading"} /\ pending' = "failed"
        /\ errors' = errors \cup {Current} /\ verdicts' = verdicts
        /\ section' \in Sections /\ ended' \in BOOLEAN
    BY <1>1, <1>3, AfterType DEF Fail, Inv, TypeOK
  <2>. QED
    BY <2>1, ErrorStep
<1>4. CASE Finish
  <2>1. Current \notin errors
    BY <1>4 DEF Finish, Inv, VerdictsMatchErrors
  <2>2. /\ verdicts' = Append(verdicts, "handled")
        /\ errors' = errors
        /\ "handled" = "failed" <=> Current \in errors'
        /\ pending' = "idle" /\ section' \in Sections /\ ended' \in BOOLEAN
    BY <1>1, <1>4, <2>1, AfterType DEF Finish, Inv, TypeOK
  <2>. QED
    BY <2>2, EndLineStep DEF Verdicts
<1>5. CASE FailOnNewline
  <2>1. /\ verdicts' = Append(verdicts, "failed")
        /\ errors' = errors \cup {Current}
        /\ "failed" = "failed" <=> Current \in errors'
        /\ pending' = "idle" /\ section' \in Sections /\ ended' \in BOOLEAN
    BY <1>1, <1>5, AfterType DEF FailOnNewline, Inv, TypeOK
  <2>. QED
    BY <2>1, EndLineStep DEF Verdicts
<1>6. CASE SkipEnd
  <2>1. Current \in errors
    BY <1>6 DEF SkipEnd, Inv, VerdictsMatchErrors
  <2>2. /\ verdicts' = Append(verdicts, "failed")
        /\ errors' = errors
        /\ "failed" = "failed" <=> Current \in errors'
        /\ pending' = "idle" /\ section' \in Sections /\ ended' \in BOOLEAN
    BY <1>1, <1>6, <2>1 DEF SkipEnd, Inv, TypeOK
  <2>. QED
    BY <2>2, EndLineStep DEF Verdicts
<1>7. CASE End
  <2>1. CASE EofFails
    BY <1>1, <1>7, <2>1, AfterType, ErrorStep DEF End
  <2>2. CASE ~EofFails
    BY <1>7, <2>2 DEF End, Inv, TypeOK, VerdictsMatchErrors, Current
  <2>. QED
    BY <2>1, <2>2
<1>8. CASE Stopped \/ UNCHANGED vars
  BY <1>8 DEF Stopped, vars, Inv, TypeOK, VerdictsMatchErrors, Current
<1>. QED
  BY <1>2, <1>3, <1>4, <1>5, <1>6, <1>7, <1>8 DEF Next

\* Every finished line failed exactly when it got a grammar error, in every
\* behaviour of the contract.
THEOREM VerdictsMatchErrorsHolds == Spec => [](TypeOK /\ VerdictsMatchErrors)
<1>1. Inv => TypeOK /\ VerdictsMatchErrors
  BY DEF Inv
<1>. QED
  BY <1>1, InvInit, InvStep, PTL DEF Spec

\* No step of the contract goes back to an earlier section.
THEOREM SectionsInOrderHolds == Spec => SectionsInOrder
<1>1. Inv /\ [Next]_vars => [Rank(section') >= Rank(section)]_vars
  <2> SUFFICES ASSUME Inv, [Next]_vars
               PROVE  [Rank(section') >= Rank(section)]_vars
    OBVIOUS
  <2>1. section \in Sections
    BY DEF Inv, TypeOK
  <2>2. \A s \in Sections : \A t \in After(s) : Rank(t) >= Rank(s)
    BY DEF After, Rank, Sections
  <2>3. section' \in After(section) \/ section' = section
    BY DEF Next, Begin, Fail, Finish, FailOnNewline, SkipEnd, End, Stopped,
           vars
  <2>4. CASE section' = section
    BY <2>1, <2>4 DEF Rank, Sections
  <2>5. CASE section' \in After(section)
    BY <2>1, <2>2, <2>5
  <2>. QED
    BY <2>3, <2>4, <2>5
<1>. QED
  BY <1>1, InvInit, InvStep, PTL DEF Spec, SectionsInOrder

=============================================================================
