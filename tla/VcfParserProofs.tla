-------------------------- MODULE VcfParserProofs --------------------------
(***************************************************************************)
(* Proofs, for every value of the constants, of the type invariant of the  *)
(* validator model and of two of its safety properties.                    *)
(***************************************************************************)
EXTENDS VcfParser, SequenceTheorems, TLAPS

USE PosAssumption, BoundsAssumption

(***************************************************************************)
(* TypeOK is not inductive by itself: n_lines <= MaxLines + 1 holds only   *)
(* because every step that increments n_lines also consumes one of the     *)
(* MaxLines newline bytes, so the line counter stays one above nl.         *)
(***************************************************************************)
LineCount == n_lines = nl + 1

TypeInv == TypeOK /\ LineCount

\* Every diagnostic the error policy records is well formed.
LEMMA ErrorIsDiag ==
  ASSUME NEW sec \in Sections, NEW kind \in Kinds, n_lines \in Nat
  PROVE  Error(sec, kind) \in Diag
BY DEF Error, Diag

\* optional_check_body_entry reports at most one well-formed warning.
LEMMA CheckBodyEntryType ==
  ASSUME NEW r \in BodyLines, n_lines \in Nat
  PROVE  CheckBodyEntry(r) \in Seq(Diag)
<1>1. /\ Warning("ploidy", {}) \in Diag
      /\ Warning("unsorted", {}) \in Diag
      /\ Warning("contig", {r.chrom}) \in Diag
  BY DEF Warning, Diag, Kinds, Sections, BodyLines
<1>2. <<>> \in Seq(Diag)
  OBVIOUS
<1>. QED
  BY <1>1, <1>2 DEF CheckBodyEntry

\* The newline action: the line counter and the newline count move
\* together, and the next state is one of the scanner's states.
LEMMA NewlineType ==
  ASSUME NEW next \in States, Newline(next),
         nl \in 0..MaxLines, nl < MaxLines, LineCount
  PROVE  /\ cs' \in States
         /\ line' \in Contents \cup {NoLine}
         /\ n_lines' \in 1..MaxLines + 1
         /\ nl' \in 0..MaxLines
         /\ midLine' \in BOOLEAN
         /\ LineCount'
         /\ n_lines \in 1..MaxLines
<1>1. cs' \in States /\ line' \in Contents \cup {NoLine} /\ midLine' \in BOOLEAN
  BY DEF Newline
<1>2. /\ n_lines' \in 1..MaxLines + 1
      /\ nl' \in 0..MaxLines
      /\ LineCount'
      /\ n_lines \in 1..MaxLines
  BY DEF LineCount, Newline
<1>. QED
  BY <1>1, <1>2

\* The first bytes of a line: the accumulator holds a content token.
LEMMA AccumulateType ==
  ASSUME diags \in Seq(Diag), NEW next \in States, NEW t \in Contents,
         Accumulate(next, t)
  PROVE  /\ cs' \in States
         /\ line' \in Contents \cup {NoLine}
         /\ diags' \in Seq(Diag)
         /\ midLine' \in BOOLEAN
         /\ UNCHANGED <<n_lines, nl>>
BY DEF Accumulate

\* An error on a content byte leaves the scanner in a skip state.
LEMMA FailInLineType ==
  ASSUME diags \in Seq(Diag), n_lines \in Nat, NEW sec \in Sections,
         FailInLine(sec)
  PROVE  /\ cs' \in States
         /\ line' \in Contents \cup {NoLine}
         /\ diags' \in Seq(Diag)
         /\ midLine' \in BOOLEAN
         /\ UNCHANGED <<n_lines, nl>>
<1>1. Error(sec, "grammar") \in Diag
  BY ErrorIsDiag DEF Kinds
<1>2. SkipOf(sec) \in States
  BY DEF SkipOf, States, SkipStates
<1>. QED
  BY <1>1, <1>2 DEF FailInLine

\* An error on the newline byte: the skip state consumes the newline.
LEMMA FailOnNewlineType ==
  ASSUME diags \in Seq(Diag), NEW sec \in Sections, FailOnNewline(sec),
         nl \in 0..MaxLines, nl < MaxLines, LineCount
  PROVE  /\ cs' \in States
         /\ line' \in Contents \cup {NoLine}
         /\ diags' \in Seq(Diag)
         /\ n_lines' \in 1..MaxLines + 1
         /\ nl' \in 0..MaxLines
         /\ midLine' \in BOOLEAN
         /\ LineCount'
<1>1. Error(sec, "grammar") \in Diag
  BY ErrorIsDiag DEF Kinds, LineCount
<1>2. Resume(SkipOf(sec)) \in States
  BY DEF Resume, SkipOf, States, LineStartStates
<1>3. Newline(Resume(SkipOf(sec)))
  BY DEF FailOnNewline, SkipToNewline
<1>. QED
  BY <1>1, <1>2, <1>3, NewlineType DEF FailOnNewline

-----------------------------------------------------------------------------
\* The initial state satisfies the inductive invariant.
LEMMA TypeInvInit == Init => TypeInv
<1> SUFFICES ASSUME Init PROVE TypeInv
  OBVIOUS
<1>1. cs \in States /\ line \in Contents \cup {NoLine}
  BY DEF Init, States, LineStartStates
<1>2. records \in Seq(Record) /\ diags \in Seq(Diag) /\ history \in Seq(Record)
  BY DEF Init
<1>3. n_lines \in 1..MaxLines + 1 /\ nl \in 0..MaxLines /\ LineCount
  BY DEF Init, LineCount
<1>4. /\ calls \in 0..MaxCalls /\ handled \subseteq 1..MaxLines
      /\ contigs \subseteq Chroms /\ bad_defined_contigs \subseteq Chroms
  BY DEF Init
<1>. QED
  BY <1>1, <1>2, <1>3, <1>4 DEF Init, TypeInv, TypeOK

\* Every step preserves the inductive invariant.
LEMMA TypeInvStep == TypeInv /\ [Next]_vars => TypeInv'
<1> SUFFICES ASSUME TypeInv, [Next]_vars PROVE TypeInv'
  OBVIOUS
<1>0. n_lines \in Nat
  BY DEF TypeInv, TypeOK
<1>T. /\ diags \in Seq(Diag) /\ nl \in 0..MaxLines /\ LineCount
      /\ records \in Seq(Record) /\ history \in Seq(Record)
      /\ contigs \subseteq Chroms /\ bad_defined_contigs \subseteq Chroms
      /\ handled \subseteq 1..MaxLines
  BY DEF TypeInv, TypeOK
<1>1. CASE Parse
  BY <1>1 DEF Parse, ghost, TypeInv, TypeOK, LineCount
<1>2. CASE ParseReturn
  BY <1>2 DEF ParseReturn, parser, ghost, TypeInv, TypeOK, LineCount
<1>3. CASE ScanContent
  <2>0. UNCHANGED <<records, contigs, bad_defined_contigs, inCall, ended,
                    crashed, calls, handled, history>>
    BY <1>3 DEF ScanContent
  <2>1. PICK t \in Contents :
          ScanFileformat(t) \/ ScanMeta(t) \/ ScanBody(t)
    BY <1>3 DEF ScanContent
  <2>2. /\ cs' \in States
        /\ line' \in Contents \cup {NoLine}
        /\ diags' \in Seq(Diag)
        /\ midLine' \in BOOLEAN
        /\ UNCHANGED <<n_lines, nl>>
    <3>1. CASE ScanFileformat(t)
      BY <3>1, <1>T, <1>0, AccumulateType, FailInLineType
         DEF ScanFileformat, States, InLineStates, Sections
    <3>2. CASE ScanMeta(t)
      <4>1. StartErrorSection[cs] \in Sections
        BY <3>2 DEF ScanMeta, StartErrorSection, Sections
      <4>. QED
        BY <3>2, <4>1, <1>T, <1>0, AccumulateType, FailInLineType
           DEF ScanMeta, States, InLineStates, Sections
    <3>3. CASE ScanBody(t)
      <4>1. StartErrorSection[cs] \in Sections
        BY <3>3 DEF ScanBody, StartErrorSection, Sections
      <4>. QED
        BY <3>3, <4>1, <1>T, <1>0, AccumulateType, FailInLineType
           DEF ScanBody, States, InLineStates, Sections
    <3>. QED
      BY <2>1, <3>1, <3>2, <3>3
  <2>. QED
    BY <2>0, <2>2 DEF TypeInv, TypeOK, LineCount
<1>4. CASE ScanNewline
  <2>0. /\ nl < MaxLines
        /\ UNCHANGED <<records, bad_defined_contigs, inCall, ended, crashed,
                       calls, history>>
    BY <1>4 DEF ScanNewline
  <2>a. n_lines \in 1..MaxLines
    BY <2>0 DEF TypeInv, TypeOK, LineCount
  \* What every newline step establishes; handled and contigs apart.
  <2> DEFINE Step == /\ cs' \in States
                     /\ line' \in Contents \cup {NoLine}
                     /\ diags' \in Seq(Diag)
                     /\ n_lines' \in 1..MaxLines + 1
                     /\ nl' \in 0..MaxLines
                     /\ midLine' \in BOOLEAN
                     /\ LineCount'
  <2>b. Step /\ contigs' \subseteq Chroms /\ handled' \subseteq 1..MaxLines
    <3>1. CASE EmptyLine
      <4>1. StartErrorSection[cs] \in Sections
        BY <3>1 DEF EmptyLine, StartErrorSection, LineStartStates, Sections
      <4>. QED
        BY <3>1, <4>1, <2>0, <1>T, FailOnNewlineType DEF EmptyLine
    <3>2. CASE SkipNewline
      <4>1. Resume(cs) \in States
        BY <3>2 DEF SkipNewline, Resume, States, LineStartStates
      <4>. QED
        BY <3>2, <4>1, <2>0, <1>T, NewlineType
           DEF SkipNewline, SkipToNewline
    <3>3. CASE EndOfFileformatLine
      <4>1. "AfterFileformat" \in States
        BY DEF States, LineStartStates
      <4>. QED
        BY <3>3, <4>1, <2>0, <2>a, <1>T, NewlineType
           DEF EndOfFileformatLine
    <3>4. CASE EndOfMetaLine
      <4>1. "Meta" \in States
        BY DEF States, LineStartStates
      <4>2. Error("meta", "policy") \in Diag
        BY <1>0, ErrorIsDiag DEF Sections, Kinds
      <4>3. contigs' \subseteq Chroms /\ diags' \in Seq(Diag)
        <5>1. CASE DuplicateId(line)
          <6>1. diags' = Append(diags, Error("meta", "policy"))
                /\ contigs' = contigs
            BY <3>4, <5>1 DEF EndOfMetaLine, HandleMetaLine
          <6>. QED
            BY <6>1, <4>2, <1>T, AppendProperties
        <5>2. CASE ~DuplicateId(line)
          BY <3>4, <5>2, <1>T DEF EndOfMetaLine, HandleMetaLine
        <5>. QED
          BY <5>1, <5>2
      <4>. QED
        BY <3>4, <4>1, <4>3, <2>0, <2>a, <1>T, NewlineType
           DEF EndOfMetaLine
    <3>5. CASE EndOfHeaderLine
      <4>1. "HeaderDone" \in States /\ "header" \in Sections
        BY DEF States, LineStartStates, Sections
      <4>. QED
        BY <3>5, <4>1, <2>0, <2>a, <1>T, NewlineType, FailOnNewlineType
           DEF EndOfHeaderLine
    <3>6. CASE EndOfShortBodyLine
      <4>1. "body" \in Sections
        BY DEF Sections
      <4>. QED
        BY <3>6, <4>1, <2>0, <1>T, FailOnNewlineType
           DEF EndOfShortBodyLine
    <3>. QED
      BY <1>4, <3>1, <3>2, <3>3, <3>4, <3>5, <3>6 DEF ScanNewline
  <2>. QED
    BY <2>0, <2>b DEF TypeInv, TypeOK
<1>5. CASE EndOfBodyLine
  <2>0. /\ nl < MaxLines /\ line \in BodyLines /\ Newline("Body")
        /\ UNCHANGED <<contigs, inCall, ended, crashed, calls>>
    BY <1>5 DEF EndOfBodyLine
  <2>1. CheckBodyEntry(line) \in Seq(Diag) /\ Error("body", "policy") \in Diag
    BY <2>0, <1>0, CheckBodyEntryType, ErrorIsDiag DEF Sections, Kinds
  <2>2. RecordOf(line) \in Record
    BY <2>0 DEF RecordOf, Record, BodyLines
  <2>3. diags' \in Seq(Diag) /\ records' \in Seq(Record) /\ history' \in Seq(Record)
    <3>1. CASE line.ok
      <4>1. /\ records' = Append(records, RecordOf(line))
            /\ history' = Append(history, RecordOf(line))
            /\ diags' = diags \o CheckBodyEntry(line)
        BY <1>5, <3>1 DEF EndOfBodyLine
      <4>. QED
        BY <4>1, <2>1, <2>2, <1>T, AppendProperties, ConcatProperties
    <3>2. CASE ~line.ok
      <4>1. /\ UNCHANGED <<records, history>>
            /\ diags' = (diags \o CheckBodyEntry(line)) \o <<Error("body", "policy")>>
        BY <1>5, <3>2 DEF EndOfBodyLine
      <4>2. diags \o CheckBodyEntry(line) \in Seq(Diag)
        BY <2>1, <1>T, ConcatProperties
      <4>3. <<Error("body", "policy")>> \in Seq(Diag)
        BY <2>1
      <4>. QED
        BY <4>1, <4>2, <4>3, <1>T, ConcatProperties
    <3>. QED
      BY <3>1, <3>2
  <2>4. bad_defined_contigs' \subseteq Chroms
    BY <1>5, <2>0, <1>T DEF EndOfBodyLine, AddBadDefinedContig, BodyLines
  <2>5. "Body" \in States
    BY DEF States, LineStartStates
  <2>6. /\ cs' \in States
        /\ line' \in Contents \cup {NoLine}
        /\ n_lines' \in 1..MaxLines + 1
        /\ nl' \in 0..MaxLines
        /\ midLine' \in BOOLEAN
        /\ LineCount'
        /\ n_lines \in 1..MaxLines
    BY <2>0, <2>5, <1>T, NewlineType
  <2>7. handled' \subseteq 1..MaxLines
    BY <1>5, <2>6, <1>T DEF EndOfBodyLine
  <2>. QED
    BY <2>0, <2>3, <2>4, <2>6, <2>7 DEF TypeInv, TypeOK
<1>6. CASE BodyLineOverflow
  BY <1>6 DEF BodyLineOverflow, parser, ghost, TypeInv, TypeOK, LineCount
<1>7. CASE End
  <2>0. UNCHANGED <<line, n_lines, contigs, bad_defined_contigs, inCall,
                    crashed, calls, nl, midLine, handled, history>>
        /\ records' = <<>> /\ ended' = TRUE
    BY <1>7 DEF End, ghost
  <2>1. cs' \in States /\ diags' \in Seq(Diag)
    <3>1. CASE cs \in DOMAIN EofSection
      <4>1. EofSection[cs] \in Sections
        BY <3>1 DEF EofSection, Sections
      <4>2. Error(EofSection[cs], "grammar") \in Diag
        BY <4>1, <1>0, ErrorIsDiag DEF Kinds
      <4>3. SkipOf(EofSection[cs]) \in States
        BY DEF SkipOf, States, SkipStates
      <4>4. diags' = Append(diags, Error(EofSection[cs], "grammar"))
            /\ cs' = SkipOf(EofSection[cs])
        BY <1>7, <3>1 DEF End
      <4>. QED
        BY <4>2, <4>3, <4>4, <1>T, AppendProperties
    <3>2. CASE cs \notin DOMAIN EofSection
      BY <1>7, <3>2, <1>T DEF End, TypeInv, TypeOK
    <3>. QED
      BY <3>1, <3>2
  <2>. QED
    BY <2>0, <2>1 DEF TypeInv, TypeOK, LineCount
<1>8. CASE Stopped
  BY <1>8 DEF Stopped, vars, parser, ghost, TypeInv, TypeOK, LineCount
<1>9. CASE UNCHANGED vars
  BY <1>9 DEF vars, parser, ghost, TypeInv, TypeOK, LineCount
<1>. QED
  BY <1>1, <1>2, <1>3, <1>4, <1>5, <1>6, <1>7, <1>8, <1>9 DEF Next

\* The model of the parser never leaves its types: the Ragel state stays
\* among the scanner's state groups, the line counter within one above
\* the newline bytes fed, every diagnostic is well formed.
THEOREM TypeCorrect == Spec => []TypeOK
<1>1. Init => TypeInv
  BY TypeInvInit
<1>2. TypeInv /\ [Next]_vars => TypeInv'
  BY TypeInvStep
<1>3. TypeInv => TypeOK
  BY DEF TypeInv
<1>. QED
  BY <1>1, <1>2, <1>3, PTL DEF Spec

-----------------------------------------------------------------------------
(***************************************************************************)
(* Once a body record has been accepted the scanner never again leaves the *)
(* body section: every error action of the body jumps to st622, which      *)
(* resumes at st624, and end() from a body state stays in it.  So the meta *)
(* handler, the only step that adds a contig, cannot run.                  *)
(***************************************************************************)
BodySection == {"Body", "BodyLine", "BodySkip"}

InBody == history # <<>> => cs \in BodySection

\* Every step taken from a body state lands in a body state.
LEMMA BodyClosed ==
  ASSUME cs \in BodySection, [Next]_vars, history' # <<>>,
         ~EndOfBodyLine
  PROVE  cs' \in BodySection
<1>1. CASE ScanContent
  <2>1. PICK t \in Contents : ScanFileformat(t) \/ ScanMeta(t) \/ ScanBody(t)
    BY <1>1 DEF ScanContent
  <2>2. ~ScanFileformat(t) /\ ~ScanMeta(t)
    BY DEF ScanFileformat, ScanMeta, BodySection
  <2>3. CASE ScanBody(t) /\ cs = "Body"
    <3>1. StartErrorSection[cs] = "body"
      BY <2>3 DEF StartErrorSection
    <3>. QED
      BY <2>3, <3>1 DEF ScanBody, Accumulate, FailInLine, SkipOf, BodySection
  <2>4. CASE ScanBody(t) /\ cs # "Body"
    BY <2>4 DEF ScanBody, BodySection
  <2>. QED
    BY <2>1, <2>2, <2>3, <2>4
<1>2. CASE ScanNewline
  <2>1. CASE EmptyLine
    <3>1. cs = "Body"
      BY <2>1 DEF EmptyLine, LineStartStates, BodySection
    <3>2. StartErrorSection[cs] = "body"
      BY <3>1 DEF StartErrorSection
    <3>. QED
      BY <2>1, <3>2 DEF EmptyLine, FailOnNewline, SkipToNewline, Newline,
                       Resume, SkipOf, BodySection
  <2>2. CASE SkipNewline
    BY <2>2 DEF SkipNewline, SkipToNewline, Newline, Resume, BodySection,
                SkipStates
  <2>3. CASE EndOfShortBodyLine
    BY <2>3 DEF EndOfShortBodyLine, FailOnNewline, SkipToNewline, Newline,
                Resume, SkipOf, BodySection
  <2>4. ~EndOfFileformatLine /\ ~EndOfMetaLine /\ ~EndOfHeaderLine
    BY DEF EndOfFileformatLine, EndOfMetaLine, EndOfHeaderLine, BodySection
  <2>. QED
    BY <1>2, <2>1, <2>2, <2>3, <2>4, <1>2 DEF ScanNewline
<1>3. CASE End
  <2>1. CASE cs = "BodyLine"
    <3>1. cs \in DOMAIN EofSection /\ EofSection[cs] = "body"
      BY <2>1 DEF EofSection
    <3>. QED
      BY <1>3, <3>1 DEF End, SkipOf, BodySection
  <2>2. CASE cs # "BodyLine"
    <3>1. cs \notin DOMAIN EofSection
      BY <2>2 DEF EofSection, BodySection
    <3>. QED
      BY <1>3, <3>1 DEF End
  <2>. QED
    BY <2>1, <2>2
<1>4. CASE Parse \/ ParseReturn \/ BodyLineOverflow \/ Stopped \/ UNCHANGED vars
  BY <1>4 DEF Parse, ParseReturn, BodyLineOverflow, Stopped, vars, parser
<1>. QED
  BY <1>1, <1>2, <1>3, <1>4 DEF Next

\* Spec section 3: after the first accepted body record, no step adds a
\* meta entry (here, a contig) -- whatever errors, chunk boundaries or an
\* end() call come after it.
THEOREM MetaFrozenHolds == Spec => MetaFrozen
<1>1. Init => InBody
  BY DEF Init, InBody
<1>2. InBody /\ [Next]_vars => InBody'
  <2> SUFFICES ASSUME InBody, [Next]_vars, history' # <<>>
               PROVE  cs' \in BodySection
    BY DEF InBody
  <2>1. CASE EndOfBodyLine
    BY <2>1 DEF EndOfBodyLine, Newline, BodySection
  <2>2. CASE ~EndOfBodyLine
    <3>1. history' = history
      BY <2>2 DEF Next, Parse, ParseReturn, ScanContent, ScanNewline,
                  BodyLineOverflow, End, Stopped, vars, ghost
    <3>2. cs \in BodySection
      BY <3>1 DEF InBody
    <3>. QED
      BY <2>2, <3>2, BodyClosed
  <2>. QED
    BY <2>1, <2>2
<1>3. InBody /\ [Next]_vars => [history # <<>> => contigs' = contigs]_vars
  <2> SUFFICES ASSUME InBody, [Next]_vars, history # <<>>
               PROVE  contigs' = contigs
    OBVIOUS
  <2>1. cs \in BodySection
    BY DEF InBody
  <2>2. ~EndOfMetaLine
    BY <2>1 DEF EndOfMetaLine, BodySection
  <2>. QED
    BY <2>2 DEF Next, Parse, ParseReturn, ScanContent, ScanNewline,
                EmptyLine, SkipNewline, EndOfFileformatLine, EndOfHeaderLine,
                EndOfShortBodyLine, EndOfBodyLine, BodyLineOverflow, End,
                Stopped, vars, parser
<1>. QED
  BY <1>1, <1>2, <1>3, PTL DEF Spec, MetaFrozen

-----------------------------------------------------------------------------
(***************************************************************************)
(* The missing-contig warning is given at most once per chromosome because *)
(* optional_check_body_entry records the chromosome in bad_defined_contigs *)
(* just before it throws the warning, and warns only about chromosomes not *)
(* yet in that set.  The invariant: every contig warning so far is about   *)
(* one chromosome, and that chromosome is in bad_defined_contigs.          *)
(***************************************************************************)
WarnedIn(s, B) ==
  \A i \in DOMAIN s : s[i].kind = "contig" => \E c \in B : s[i].about = {c}

OnceIn(s) ==
  \A i, j \in DOMAIN s :
    (i # j /\ s[i].kind = "contig" /\ s[j].kind = "contig")
      => s[i].about # s[j].about

NoContig(t) == \A k \in DOMAIN t : t[k].kind # "contig"

ContigInv == TypeInv /\ WarnedIn(diags, bad_defined_contigs) /\ OnceIn(diags)

\* Diagnostics that are not contig warnings keep both facts.
LEMMA ConcatNoContig ==
  ASSUME NEW s \in Seq(Diag), NEW t \in Seq(Diag), NEW B, NEW B2,
         NoContig(t), WarnedIn(s, B), OnceIn(s), B \subseteq B2
  PROVE  WarnedIn(s \o t, B2) /\ OnceIn(s \o t)
<1>1. /\ Len(s \o t) = Len(s) + Len(t)
      /\ \A i \in 1..Len(s) + Len(t) :
           (s \o t)[i] = IF i <= Len(s) THEN s[i] ELSE t[i - Len(s)]
  BY ConcatProperties
<1>2. \A i \in DOMAIN (s \o t) : (s \o t)[i].kind = "contig" => i \in DOMAIN s /\ (s \o t)[i] = s[i]
  BY <1>1 DEF NoContig
<1>3. WarnedIn(s \o t, B2)
  BY <1>2 DEF WarnedIn
<1>4. OnceIn(s \o t)
  BY <1>2 DEF OnceIn
<1>. QED
  BY <1>3, <1>4

\* A contig warning about a chromosome not yet recorded, with the
\* chromosome then recorded, keeps both facts.
LEMMA AppendContig ==
  ASSUME NEW s \in Seq(Diag), NEW w \in Diag, NEW B, NEW c,
         w.kind = "contig", w.about = {c}, c \notin B,
         WarnedIn(s, B), OnceIn(s)
  PROVE  WarnedIn(s \o <<w>>, B \cup {c}) /\ OnceIn(s \o <<w>>)
<1>1. <<w>> \in Seq(Diag)
  OBVIOUS
<1>2. /\ Len(s \o <<w>>) = Len(s) + 1
      /\ \A i \in 1..Len(s) + 1 :
           (s \o <<w>>)[i] = IF i <= Len(s) THEN s[i] ELSE w
  BY <1>1, ConcatProperties
<1>3. \A i \in DOMAIN s : s[i].kind = "contig" => s[i].about # {c}
  BY DEF WarnedIn
<1>4. WarnedIn(s \o <<w>>, B \cup {c})
  BY <1>2 DEF WarnedIn
<1>5. OnceIn(s \o <<w>>)
  BY <1>2, <1>3 DEF OnceIn
<1>. QED
  BY <1>4, <1>5

\* What optional_check_body_entry appends and records, case by case.
LEMMA CheckBodyEntryContig ==
  ASSUME n_lines \in Nat, NEW r \in BodyLines, bad_defined_contigs \subseteq Chroms
  PROVE  \/ /\ NoContig(CheckBodyEntry(r))
            /\ AddBadDefinedContig(r) = bad_defined_contigs
         \/ /\ CheckBodyEntry(r) = <<Warning("contig", {r.chrom})>>
            /\ r.chrom \notin bad_defined_contigs
            /\ AddBadDefinedContig(r) = bad_defined_contigs \cup {r.chrom}
<1>1. CASE PloidyMismatch(r.gt) \/ Unsorted(r) \/ ~ContigMissing(r)
  <2>1. NoContig(CheckBodyEntry(r))
    BY <1>1 DEF CheckBodyEntry, NoContig, Warning
  <2>2. AddBadDefinedContig(r) = bad_defined_contigs
    BY <1>1 DEF AddBadDefinedContig
  <2>. QED
    BY <2>1, <2>2
<1>2. CASE ~PloidyMismatch(r.gt) /\ ~Unsorted(r) /\ ContigMissing(r)
  BY <1>2 DEF CheckBodyEntry, AddBadDefinedContig, ContigMissing
<1>. QED
  BY <1>1, <1>2

\* One error appended.
LEMMA AppendError ==
  ASSUME NEW s \in Seq(Diag), NEW e \in Diag, e.kind # "contig", NEW B, NEW B2,
         WarnedIn(s, B), OnceIn(s), B \subseteq B2
  PROVE  /\ WarnedIn(Append(s, e), B2) /\ OnceIn(Append(s, e))
<1>1. Append(s, e) = s \o <<e>> /\ <<e>> \in Seq(Diag) /\ NoContig(<<e>>)
  BY DEF NoContig
<1>. QED
  BY <1>1, ConcatNoContig


\* Every step other than the end of a body line leaves the suppression set
\* alone and appends at most one error.
LEMMA NonBodyStepDiags ==
  ASSUME TypeInv, [Next]_vars, ~EndOfBodyLine
  PROVE  /\ bad_defined_contigs' = bad_defined_contigs
         /\ \/ diags' = diags
            \/ \E sec \in Sections, k \in {"grammar", "policy"} :
                 diags' = Append(diags, Error(sec, k))
<1>1. CASE Parse \/ ParseReturn \/ BodyLineOverflow \/ Stopped \/ UNCHANGED vars
  BY <1>1 DEF Parse, ParseReturn, BodyLineOverflow, Stopped, vars, parser
<1>2. CASE ScanContent
  <2>0. bad_defined_contigs' = bad_defined_contigs
    BY <1>2 DEF ScanContent
  <2>1. PICK t \in Contents : ScanFileformat(t) \/ ScanMeta(t) \/ ScanBody(t)
    BY <1>2 DEF ScanContent
  <2>2. CASE ScanFileformat(t)
    BY <2>0, <2>2 DEF ScanFileformat, Accumulate, FailInLine, Sections
  <2>3. CASE ScanMeta(t)
    <3>1. StartErrorSection[cs] \in Sections
      BY <2>3 DEF ScanMeta, StartErrorSection, Sections
    <3>. QED
      BY <2>0, <2>3, <3>1 DEF ScanMeta, Accumulate, FailInLine, Sections
  <2>4. CASE ScanBody(t)
    <3>1. StartErrorSection[cs] \in Sections
      BY <2>4 DEF ScanBody, StartErrorSection, Sections
    <3>. QED
      BY <2>0, <2>4, <3>1 DEF ScanBody, Accumulate, FailInLine, Sections
  <2>. QED
    BY <2>1, <2>2, <2>3, <2>4
<1>3. CASE ScanNewline
  <2>0. bad_defined_contigs' = bad_defined_contigs
    BY <1>3 DEF ScanNewline
  <2>1. CASE EmptyLine
    <3>1. StartErrorSection[cs] \in Sections
      BY <2>1 DEF EmptyLine, StartErrorSection, LineStartStates, Sections
    <3>. QED
      BY <2>0, <2>1, <3>1 DEF EmptyLine, FailOnNewline
  <2>2. CASE SkipNewline \/ EndOfFileformatLine
    BY <2>0, <2>2 DEF SkipNewline, EndOfFileformatLine
  <2>3. CASE EndOfMetaLine
    BY <2>0, <2>3 DEF EndOfMetaLine, HandleMetaLine, Sections
  <2>4. CASE EndOfHeaderLine \/ EndOfShortBodyLine
    BY <2>0, <2>4 DEF EndOfHeaderLine, EndOfShortBodyLine, FailOnNewline,
                      Sections
  <2>. QED
    BY <1>3, <2>1, <2>2, <2>3, <2>4 DEF ScanNewline
<1>4. CASE End
  <2>1. CASE cs \in DOMAIN EofSection
    <3>1. EofSection[cs] \in Sections
      BY <2>1 DEF EofSection, Sections
    <3>. QED
      BY <1>4, <2>1, <3>1 DEF End
  <2>2. CASE cs \notin DOMAIN EofSection
    BY <1>4, <2>2 DEF End
  <2>. QED
    BY <2>1, <2>2
<1>. QED
  BY <1>1, <1>2, <1>3, <1>4 DEF Next

\* Spec S6 and the suppression set bad_defined_contigs: over any sequence
\* of parse() chunks, errors and end(), the missing-contig warning is given
\* at most once per chromosome.
THEOREM ContigWarnedOnceHolds == Spec => []ContigWarnedOnce
<1>1. Init => ContigInv
  BY TypeInvInit DEF Init, ContigInv, WarnedIn, OnceIn
<1>2. ContigInv /\ [Next]_vars => ContigInv'
  <2> SUFFICES ASSUME ContigInv, [Next]_vars PROVE ContigInv'
    OBVIOUS
  <2>0. /\ TypeInv'
        /\ diags \in Seq(Diag) /\ n_lines \in Nat
        /\ bad_defined_contigs \subseteq Chroms
        /\ WarnedIn(diags, bad_defined_contigs) /\ OnceIn(diags)
    BY TypeInvStep DEF ContigInv, TypeInv, TypeOK
  <2>1. CASE EndOfBodyLine
    <3>0. /\ line \in BodyLines
          /\ bad_defined_contigs' = AddBadDefinedContig(line)
          /\ \/ diags' = diags \o CheckBodyEntry(line)
             \/ diags' = (diags \o CheckBodyEntry(line)) \o <<Error("body", "policy")>>
      BY <2>1 DEF EndOfBodyLine
    <3>1. CheckBodyEntry(line) \in Seq(Diag) /\ Error("body", "policy") \in Diag
      BY <3>0, <2>0, CheckBodyEntryType, ErrorIsDiag DEF Sections, Kinds
    <3>2. /\ diags \o CheckBodyEntry(line) \in Seq(Diag)
          /\ WarnedIn(diags \o CheckBodyEntry(line), bad_defined_contigs')
          /\ OnceIn(diags \o CheckBodyEntry(line))
      <4>1. CASE /\ NoContig(CheckBodyEntry(line))
                 /\ AddBadDefinedContig(line) = bad_defined_contigs
        BY <4>1, <3>0, <3>1, <2>0, ConcatNoContig, ConcatProperties
      <4>2. CASE /\ CheckBodyEntry(line) = <<Warning("contig", {line.chrom})>>
                 /\ line.chrom \notin bad_defined_contigs
                 /\ AddBadDefinedContig(line) = bad_defined_contigs \cup {line.chrom}
        <5>1. Warning("contig", {line.chrom}) \in Diag
          BY <3>0, <2>0 DEF Warning, Diag, Kinds, Sections, BodyLines
        <5>2. Warning("contig", {line.chrom}).kind = "contig"
              /\ Warning("contig", {line.chrom}).about = {line.chrom}
          BY DEF Warning
        <5> DEFINE W == Warning("contig", {line.chrom})
        <5>3. /\ WarnedIn(diags \o <<W>>, bad_defined_contigs \cup {line.chrom})
              /\ OnceIn(diags \o <<W>>)
          BY <4>2, <5>1, <5>2, <2>0, AppendContig
        <5>4. diags \o CheckBodyEntry(line) \in Seq(Diag)
          BY <3>1, <2>0, ConcatProperties
        <5>. QED
          BY <4>2, <3>0, <5>3, <5>4
      <4>. QED
        BY <3>0, <2>0, <4>1, <4>2, CheckBodyEntryContig
    <3>3. /\ WarnedIn(diags', bad_defined_contigs')
          /\ OnceIn(diags')
      <4>1. Error("body", "policy").kind # "contig"
        BY DEF Error
      <4>2. /\ WarnedIn(Append(diags \o CheckBodyEntry(line), Error("body", "policy")), bad_defined_contigs')
            /\ OnceIn(Append(diags \o CheckBodyEntry(line), Error("body", "policy")))
        BY <3>1, <3>2, <4>1, AppendError
      <4>3. (diags \o CheckBodyEntry(line)) \o <<Error("body", "policy")>>
              = Append(diags \o CheckBodyEntry(line), Error("body", "policy"))
        BY <3>2, AppendIsConcat
      <4>. QED
        BY <3>0, <3>2, <4>2, <4>3
    <3>. QED
      BY <2>0, <3>3 DEF ContigInv
  <2>2. CASE ~EndOfBodyLine
    <3>1. /\ bad_defined_contigs' = bad_defined_contigs
          /\ \/ diags' = diags
             \/ \E sec \in Sections, k \in {"grammar", "policy"} :
                  diags' = Append(diags, Error(sec, k))
      BY <2>2, NonBodyStepDiags DEF ContigInv
    <3>2. CASE diags' = diags
      BY <3>1, <3>2, <2>0 DEF ContigInv
    <3>3. CASE \E sec \in Sections, k \in {"grammar", "policy"} :
                 diags' = Append(diags, Error(sec, k))
      <4>1. PICK sec \in Sections, k \in {"grammar", "policy"} :
                 diags' = Append(diags, Error(sec, k))
        BY <3>3
      <4>2. Error(sec, k) \in Diag /\ Error(sec, k).kind # "contig"
        BY <2>0, ErrorIsDiag DEF Kinds, Error
      <4>3. WarnedIn(diags', bad_defined_contigs') /\ OnceIn(diags')
        BY <4>1, <4>2, <3>1, <2>0, AppendError
      <4>. QED
        BY <4>3, <2>0 DEF ContigInv
    <3>. QED
      BY <3>1, <3>2, <3>3
  <2>. QED
    BY <2>1, <2>2
<1>3. ContigInv => ContigWarnedOnce
  BY DEF ContigInv, OnceIn, ContigWarnedOnce
<1>. QED
  BY <1>1, <1>2, <1>3, PTL DEF Spec

=============================================================================
