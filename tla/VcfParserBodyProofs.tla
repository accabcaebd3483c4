------------------------ MODULE VcfParserBodyProofs ------------------------
(***************************************************************************)
(* Proofs, for every value of the constants, of the two action properties  *)
(* of the body checks of optional_check_body_entry that the core run      *)
(* checks: the ploidy warning (PloidyWarned) and the soundness of the     *)
(* position-order warning (SortWarningSound).                              *)
(***************************************************************************)
EXTENDS VcfParserProofs, FiniteSetTheorems

(***************************************************************************)
(* The previous record the order check reads is Last(records), a record   *)
(* of the current parse() call.  Every such record was accepted earlier    *)
(* in the file, so it is in history: Parse and End clear records, and     *)
(* tr592 appends the same record to both.                                  *)
(***************************************************************************)
RecordsInHistory ==
  \A i \in DOMAIN records : \E j \in DOMAIN history : history[j] = records[i]

BodyInv == TypeInv /\ RecordsInHistory

\* Before the first parse() call no record has been read.
LEMMA BodyInvInit == Init => BodyInv
<1> SUFFICES ASSUME Init PROVE BodyInv
  OBVIOUS
<1>1. TypeInv
  BY TypeInvInit
<1>. QED
  BY <1>1 DEF Init, BodyInv, RecordsInHistory

\* clear_records() empties records; tr592 appends one record to both
\* sequences; every other action leaves them alone.
LEMMA BodyInvStep == BodyInv /\ [Next]_vars => BodyInv'
<1> SUFFICES ASSUME BodyInv, [Next]_vars PROVE BodyInv'
  OBVIOUS
<1>0. /\ TypeInv' /\ RecordsInHistory
      /\ records \in Seq(Record) /\ history \in Seq(Record)
  BY TypeInvStep DEF BodyInv, TypeInv, TypeOK
<1>1. CASE Parse \/ End
  <2>1. records' = << >>
    BY <1>1 DEF Parse, End
  <2>. QED
    BY <1>0, <2>1 DEF BodyInv, RecordsInHistory
<1>2. CASE EndOfBodyLine
  <2>1. RecordOf(line) \in Record
    BY <1>2 DEF EndOfBodyLine, RecordOf, Record, BodyLines
  <2>2. CASE line.ok
    <3> DEFINE r == RecordOf(line)
    <3>1. records' = Append(records, r) /\ history' = Append(history, r)
      BY <1>2, <2>2 DEF EndOfBodyLine
    <3>2. /\ Len(records') = Len(records) + 1
          /\ \A i \in 1..Len(records) : records'[i] = records[i]
          /\ records'[Len(records) + 1] = r
          /\ Len(history') = Len(history) + 1
          /\ \A j \in 1..Len(history) : history'[j] = history[j]
          /\ history'[Len(history) + 1] = r
          /\ records' \in Seq(Record) /\ history' \in Seq(Record)
      BY <1>0, <2>1, <3>1, AppendProperties
    <3>3. ASSUME NEW i \in DOMAIN records'
          PROVE  \E j \in DOMAIN history' : history'[j] = records'[i]
      <4>1. CASE i <= Len(records)
        <5>1. PICK j \in DOMAIN history : history[j] = records[i]
          BY <4>1, <1>0, <3>2 DEF RecordsInHistory
        <5>2. i \in 1..Len(records) /\ j \in 1..Len(history)
          BY <4>1, <1>0, <3>2
        <5>3. j \in DOMAIN history' /\ history'[j] = records'[i]
          BY <5>1, <5>2, <1>0, <3>2
        <5>. QED
          BY <5>3
      <4>2. CASE i > Len(records)
        <5>1. i = Len(records) + 1
          BY <4>2, <1>0, <3>2
        <5>2. Len(history) + 1 \in DOMAIN history'
              /\ history'[Len(history) + 1] = records'[i]
          BY <5>1, <1>0, <3>2
        <5>. QED
          BY <5>2
      <4>. QED
        BY <4>1, <4>2, <1>0, <3>2
    <3>. QED
      BY <1>0, <3>3 DEF BodyInv, RecordsInHistory
  <2>3. CASE ~line.ok
    BY <1>0, <1>2, <2>3 DEF EndOfBodyLine, BodyInv, RecordsInHistory
  <2>. QED
    BY <2>2, <2>3
<1>3. CASE ParseReturn \/ ScanContent \/ ScanNewline \/ BodyLineOverflow
           \/ Stopped \/ UNCHANGED vars
  <2>1. records' = records /\ history' = history
    BY <1>3 DEF ParseReturn, ScanContent, ScanNewline, BodyLineOverflow,
                Stopped, vars, parser, ghost
  <2>. QED
    BY <1>0, <2>1 DEF BodyInv, RecordsInHistory
<1>. QED
  BY <1>1, <1>2, <1>3 DEF Next

\* Samples that all have as many alleles as the first one make a range of
\* at most one allele count.
LEMMA SamePloidy ==
  ASSUME NEW gt \in Seq(Nat \ {0}), ~PloidyMismatch(gt)
  PROVE  Cardinality(Range(gt)) \in 0..1
<1>1. CASE Len(gt) = 0
  <2>1. Range(gt) = {}
    BY <1>1 DEF Range
  <2>. QED
    BY <2>1, FS_EmptySet
<1>2. CASE Len(gt) > 0
  <2>1. Range(gt) \subseteq {gt[1]}
    BY <1>2 DEF Range, PloidyMismatch
  <2>2. IsFiniteSet({gt[1]}) /\ Cardinality({gt[1]}) = 1
    BY FS_Singleton
  <2>3. IsFiniteSet(Range(gt)) /\ Cardinality(Range(gt)) <= 1
    BY <2>1, <2>2, FS_Subset
  <2>4. Cardinality(Range(gt)) \in Nat
    BY <2>3, FS_CardinalityType
  <2>. QED
    BY <2>3, <2>4
<1>. QED
  BY <1>1, <1>2

\* The only warning optional_check_body_entry gives for mixed ploidy is
\* the ploidy warning, and the order warning comes with its cause.
LEMMA CheckBodyEntryCases ==
  ASSUME NEW r \in BodyLines
  PROVE  /\ PloidyMismatch(r.gt) => CheckBodyEntry(r) = <<Warning("ploidy", {})>>
         /\ \A k \in DOMAIN CheckBodyEntry(r) :
              CheckBodyEntry(r)[k].kind = "unsorted" => Unsorted(r)
<1>1. PloidyMismatch(r.gt) => CheckBodyEntry(r) = <<Warning("ploidy", {})>>
  BY DEF CheckBodyEntry
<1>2. ASSUME NEW k \in DOMAIN CheckBodyEntry(r),
             CheckBodyEntry(r)[k].kind = "unsorted"
      PROVE  Unsorted(r)
  <2>1. CASE PloidyMismatch(r.gt)
    BY <2>1, <1>2 DEF CheckBodyEntry, Warning
  <2>2. CASE ~PloidyMismatch(r.gt) /\ ~Unsorted(r)
    <3>1. CheckBodyEntry(r) = IF ContigMissing(r)
                                THEN <<Warning("contig", {r.chrom})>> ELSE << >>
      BY <2>2 DEF CheckBodyEntry
    <3>. QED
      BY <3>1, <1>2 DEF Warning
  <2>. QED
    BY <2>1, <2>2
<1>. QED
  BY <1>1, <1>2


(***************************************************************************)
(* Only tr592 leaves a complete body line for the body state: the short    *)
(* line fails on its newline (tr517 path), end() jumps to the skip state,  *)
(* the overflow escapes, and every other action needs another state.       *)
(***************************************************************************)
LEMMA OnlyEndOfBodyLineEnds ==
  ASSUME [Next]_vars, BodyLineEnds
  PROVE  EndOfBodyLine
<1>0. cs = "BodyLine" /\ line \in BodyLines /\ cs' = "Body"
  BY DEF BodyLineEnds
<1>1. CASE Parse \/ ParseReturn \/ BodyLineOverflow \/ Stopped \/ UNCHANGED vars
  BY <1>0, <1>1 DEF Parse, ParseReturn, BodyLineOverflow, Stopped, vars, parser
<1>2. CASE ScanContent
  <2>1. PICK t \in Contents : ScanFileformat(t) \/ ScanMeta(t) \/ ScanBody(t)
    BY <1>2 DEF ScanContent
  <2>. QED
    BY <1>0, <2>1 DEF ScanFileformat, ScanMeta, ScanBody
<1>3. CASE ScanNewline
  <2>1. ShortBody \notin BodyLines
    BY DEF ShortBody, BodyLines
  <2>. QED
    BY <1>0, <1>3, <2>1 DEF ScanNewline, EmptyLine, SkipNewline,
       EndOfFileformatLine, EndOfMetaLine, EndOfHeaderLine, EndOfShortBodyLine,
       LineStartStates, SkipStates
<1>4. CASE End
  <2>1. cs \in DOMAIN EofSection /\ EofSection[cs] = "body"
    BY <1>0 DEF EofSection
  <2>2. cs' = SkipOf("body")
    BY <1>4, <2>1 DEF End
  <2>. QED
    BY <1>0, <2>2 DEF SkipOf
<1>5. CASE EndOfBodyLine
  BY <1>5
<1>. QED
  BY <1>1, <1>2, <1>3, <1>4, <1>5 DEF Next

\* The ploidy warning is the first entry tr592 appends for the line.
LEMMA PloidyStep ==
  ASSUME TypeInv, [Next]_vars
  PROVE  BodyLineEnds /\ Cardinality(Range(line.gt)) > 1
           => \E i \in DOMAIN diags' : diags'[i] = Warning("ploidy", {})
<1> SUFFICES ASSUME BodyLineEnds, Cardinality(Range(line.gt)) > 1
             PROVE  \E i \in DOMAIN diags' : diags'[i] = Warning("ploidy", {})
  OBVIOUS
<1>1. EndOfBodyLine
  BY OnlyEndOfBodyLineEnds
<1>2. line \in BodyLines /\ line.gt \in Seq(Nat \ {0})
  BY <1>1, GenotypesAssumption DEF EndOfBodyLine, BodyLines
<1>3. PloidyMismatch(line.gt)
  <2> SUFFICES ASSUME ~PloidyMismatch(line.gt) PROVE FALSE
    OBVIOUS
  <2>1. Cardinality(Range(line.gt)) \in 0..1
    BY <1>2, SamePloidy
  <2>. QED
    BY <2>1
<1>4. CheckBodyEntry(line) = <<Warning("ploidy", {})>>
  BY <1>2, <1>3, CheckBodyEntryCases
<1>5. diags \in Seq(Diag) /\ n_lines \in Nat
  BY DEF TypeInv, TypeOK
<1>6. Warning("ploidy", {}) \in Diag
  BY <1>5 DEF Warning, Diag, Kinds, Sections
<1> DEFINE w == Warning("ploidy", {})
<1>7. diags \o <<w>> \in Seq(Diag) /\ Len(diags \o <<w>>) = Len(diags) + 1
      /\ (diags \o <<w>>)[Len(diags) + 1] = w
  BY <1>5, <1>6, ConcatProperties
<1>8. CASE line.ok
  <2>1. diags' = diags \o <<w>>
    BY <1>1, <1>4, <1>8 DEF EndOfBodyLine
  <2>. QED
    BY <2>1, <1>5, <1>7
<1>9. CASE ~line.ok
  <2>1. diags' = (diags \o <<w>>) \o <<Error("body", "policy")>>
    BY <1>1, <1>4, <1>9 DEF EndOfBodyLine
  <2>2. Error("body", "policy") \in Diag
    BY <1>5, ErrorIsDiag DEF Sections, Kinds
  <2>3. /\ Len(diags') = Len(diags) + 2
        /\ diags'[Len(diags) + 1] = w
    BY <2>1, <2>2, <1>5, <1>7, ConcatProperties
  <2>. QED
    BY <2>3, <1>5
<1>. QED
  BY <1>8, <1>9


\* The entries appended by one step: what the new indices of diags' hold.
NewDiags == {diags'[i] : i \in (DOMAIN diags') \ (DOMAIN diags)}

\* The entries tr592 appends are those of optional_check_body_entry and,
\* when handle_body_line throws, the body policy error.
LEMMA EndOfBodyLineDiags ==
  ASSUME TypeInv, EndOfBodyLine
  PROVE  \A d \in NewDiags :
           d = Error("body", "policy")
           \/ \E k \in DOMAIN CheckBodyEntry(line) : d = CheckBodyEntry(line)[k]
<1> DEFINE C == CheckBodyEntry(line)
<1>1. diags \in Seq(Diag) /\ n_lines \in Nat /\ line \in BodyLines
  BY DEF TypeInv, TypeOK, EndOfBodyLine
<1>2. C \in Seq(Diag) /\ Error("body", "policy") \in Diag
  BY <1>1, CheckBodyEntryType, ErrorIsDiag DEF Sections, Kinds
<1>3. /\ diags \o C \in Seq(Diag)
      /\ Len(diags \o C) = Len(diags) + Len(C)
      /\ \A i \in (Len(diags) + 1)..(Len(diags) + Len(C)) :
           (diags \o C)[i] = C[i - Len(diags)]
  BY <1>1, <1>2, ConcatProperties
<1>4. ASSUME NEW i \in (DOMAIN (diags \o C)) \ (DOMAIN diags)
      PROVE  \E k \in DOMAIN C : (diags \o C)[i] = C[k]
  <2>1. i \in (Len(diags) + 1)..(Len(diags) + Len(C))
    BY <1>1, <1>3, <1>4
  <2>2. i - Len(diags) \in DOMAIN C
    BY <2>1, <1>1, <1>2
  <2>. QED
    BY <2>1, <2>2, <1>3
<1>5. CASE line.ok
  <2>1. diags' = diags \o C
    BY <1>5 DEF EndOfBodyLine
  <2>. QED
    BY <2>1, <1>4 DEF NewDiags
<1>6. CASE ~line.ok
  <2> DEFINE D == diags \o C
  <2>1. diags' = D \o <<Error("body", "policy")>>
    BY <1>6 DEF EndOfBodyLine
  <2>2. /\ Len(diags') = Len(D) + 1
        /\ \A i \in 1..Len(D) : diags'[i] = D[i]
        /\ diags'[Len(D) + 1] = Error("body", "policy")
    BY <2>1, <1>2, <1>3, ConcatProperties
  <2>3. ASSUME NEW i \in (DOMAIN diags') \ (DOMAIN diags)
        PROVE  \/ diags'[i] = Error("body", "policy")
               \/ \E k \in DOMAIN C : diags'[i] = C[k]
    <3>1. CASE i = Len(D) + 1
      BY <3>1, <2>2
    <3>2. CASE i # Len(D) + 1
      <4>1. i \in (DOMAIN D) \ (DOMAIN diags) /\ diags'[i] = D[i]
        <5>1. diags' \in Seq(Diag)
          BY <2>1, <1>2, <1>3, ConcatProperties
        <5>2. i \in 1..Len(D) /\ i \notin 1..Len(diags)
          BY <2>3, <3>2, <5>1, <2>2, <1>1
        <5>. QED
          BY <5>2, <2>2, <1>3
      <4>. QED
        BY <4>1, <1>4
    <3>. QED
      BY <3>1, <3>2
  <2>. QED
    BY <2>3 DEF NewDiags
<1>. QED
  BY <1>5, <1>6

\* Every step keeps the order warning to lines that follow, on the same
\* chromosome, a record at a greater position.
LEMMA SortStep ==
  ASSUME BodyInv, [Next]_vars
  PROVE  \A i \in (DOMAIN diags') \ (DOMAIN diags) :
           diags'[i].kind = "unsorted"
             => \E j \in DOMAIN history :
                  history[j].chrom = line.chrom /\ history[j].pos > line.pos
<1> SUFFICES ASSUME NEW i \in (DOMAIN diags') \ (DOMAIN diags),
                    diags'[i].kind = "unsorted"
             PROVE  \E j \in DOMAIN history :
                      history[j].chrom = line.chrom /\ history[j].pos > line.pos
  OBVIOUS
<1>0. TypeInv /\ RecordsInHistory /\ diags \in Seq(Diag)
      /\ records \in Seq(Record)
  BY DEF BodyInv, TypeInv, TypeOK
<1>1. diags'[i] \in NewDiags
  BY DEF NewDiags
<1>2. CASE EndOfBodyLine
  <2>1. line \in BodyLines
    BY <1>2 DEF EndOfBodyLine
  <2>2. Error("body", "policy").kind # "unsorted"
    BY DEF Error
  <2>3. PICK k \in DOMAIN CheckBodyEntry(line) :
          diags'[i] = CheckBodyEntry(line)[k]
    BY <1>0, <1>1, <1>2, <2>2, EndOfBodyLineDiags
  <2>4. Unsorted(line)
    BY <2>1, <2>3, CheckBodyEntryCases
  <2>5. Len(records) \in DOMAIN records
        /\ Last(records).chrom = line.chrom /\ Last(records).pos > line.pos
        /\ Last(records) = records[Len(records)]
    BY <2>4, <1>0 DEF Unsorted, Last
  <2>6. PICK j \in DOMAIN history : history[j] = records[Len(records)]
    BY <2>5, <1>0 DEF RecordsInHistory
  <2>. QED
    BY <2>5, <2>6
<1>3. CASE ~EndOfBodyLine
  <2>1. CASE diags' = diags
    BY <2>1
  <2>2. CASE \E sec \in Sections, k \in {"grammar", "policy"} :
               diags' = Append(diags, Error(sec, k))
    <3>1. PICK sec \in Sections, k \in {"grammar", "policy"} :
                 diags' = Append(diags, Error(sec, k))
      BY <2>2
    <3>2. Len(diags') = Len(diags) + 1
          /\ diags'[Len(diags) + 1] = Error(sec, k)
      BY <3>1, <1>0, AppendProperties
    <3>3. i = Len(diags) + 1
      BY <3>1, <3>2, <1>0
    <3>. QED
      BY <3>2, <3>3 DEF Error
  <2>. QED
    BY <1>0, <1>3, <2>1, <2>2, NonBodyStepDiags
<1>. QED
  BY <1>2, <1>3


(***************************************************************************)
(* Spec P6: whenever tr592 ends a body line whose samples do not all have  *)
(* the same number of alleles, optional_check_body_entry has given the     *)
(* ploidy warning, whatever the chunking of parse() and end().             *)
(***************************************************************************)
THEOREM PloidyWarnedHolds == Spec => PloidyWarned
<1>1. Init => TypeInv
  BY TypeInvInit
<1>2. TypeInv /\ [Next]_vars => TypeInv'
  BY TypeInvStep
<1>3. TypeInv /\ [Next]_vars
        => [BodyLineEnds /\ Cardinality(Range(line.gt)) > 1
              => \E i \in DOMAIN diags' : diags'[i] = Warning("ploidy", {})]_vars
  BY PloidyStep
<1>. QED
  BY <1>1, <1>2, <1>3, PTL DEF Spec, PloidyWarned

(***************************************************************************)
(* The order warning of optional_check_body_entry is never raised without  *)
(* cause: the line that gets it follows, on the same chromosome, a record  *)
(* of the file with a greater position.  It rests on RecordsInHistory:     *)
(* the previous record the check reads, Last(records), is one that tr592   *)
(* accepted earlier, although records is cleared by every parse() call.    *)
(***************************************************************************)
THEOREM SortWarningSoundHolds == Spec => SortWarningSound
<1>1. Init => BodyInv
  BY BodyInvInit
<1>2. BodyInv /\ [Next]_vars => BodyInv'
  BY BodyInvStep
<1>3. BodyInv /\ [Next]_vars
        => [\A i \in (DOMAIN diags') \ (DOMAIN diags) :
              diags'[i].kind = "unsorted"
                => \E j \in DOMAIN history :
                     history[j].chrom = line.chrom
                     /\ history[j].pos > line.pos]_vars
  BY SortStep
<1>. QED
  BY <1>1, <1>2, <1>3, PTL DEF Spec, SortWarningSound


=============================================================================
