------------------------ MODULE VcfParserRefinement ------------------------
(***************************************************************************)
(* Proofs, for every value of the constants, that the scanner model        *)
(* VcfParser resynchronises line by line (LineVerdicts) and implements the *)
(* line-level specification VcfLines under the refinement mapping of      *)
(* VcfParser (LinesRefined).                                               *)
(***************************************************************************)
EXTENDS VcfParserProofs

(***************************************************************************)
(* The grammar errors, the error lines and the verdicts as functions of    *)
(* diags and handled, so that lemmas can speak of their values after an   *)
(* Append or a concatenation.                                              *)
(***************************************************************************)
GLines(ds) == {ds[i].line : i \in {j \in DOMAIN ds : ds[j].kind = "grammar"}}

\* Two errors of the error policy never carry the same line.
DistinctErrors(ds) ==
  \A i, j \in DOMAIN ds :
    (i < j /\ ds[i].sev = "error" /\ ds[j].sev = "error") => ds[i].line # ds[j].line

\* What the diagnostics say about the lines up to n, the line being read,
\* and whether it is being skipped.
DiagsInv(ds, n, skip) ==
  /\ \A i \in DOMAIN ds : ds[i].line \in 1..n
  /\ \A i \in DOMAIN ds : ds[i].kind = "grammar" => ds[i].sev = "error"
  /\ \A i \in DOMAIN ds :
       ds[i].sev = "error" /\ ds[i].line = n => ds[i].kind = "grammar" /\ skip
  /\ skip => n \in GLines(ds)
  /\ DistinctErrors(ds)

\* The m finished lines: each one is handled or has a grammar error.
VerdictInv(H, m, ds) ==
  /\ H \subseteq 1..m
  /\ \A k \in 1..m : k \in H <=> k \notin GLines(ds)

(***************************************************************************)
(* The inductive invariant.  The line being read (n_lines) has a grammar   *)
(* error exactly when the scanner is in a skip state, and no other error:  *)
(* that is what lets a line-start error, the error of a short line and the *)
(* EOF error be the first error of their line.  A finished line is handled *)
(* or has a grammar error, never both: the end-of-line handler runs only   *)
(* on a line read without error.  cs and midLine agree, and a running      *)
(* parse() call means end() has not run.                                   *)
(***************************************************************************)
SyncInv ==
  /\ inCall => ~ended
  /\ cs \in InLineStates => midLine
  /\ cs \in LineStartStates => ~midLine
  /\ DiagsInv(diags, n_lines, cs \in SkipStates)
  /\ VerdictInv(handled, nl, diags)

LinesInv == TypeInv /\ SyncInv

-----------------------------------------------------------------------------
(***************************************************************************)
(* Lemmas on extending the diagnostics: new entries, all about line n, of  *)
(* which at most one is an error, and none if line n is being skipped.     *)
(***************************************************************************)
\* ds2 extends ds by diagnostics about the current line n, with at most
\* one error, and none when the line is already failed.
Extends(ds, ds2, n, skip) ==
  /\ DiagsInv(ds, n, skip)
  /\ Len(ds) <= Len(ds2)
  /\ \A i \in 1..Len(ds) : ds2[i] = ds[i]
  /\ \A i \in (Len(ds) + 1)..Len(ds2) :
       ds2[i].line = n /\ (ds2[i].kind = "grammar" => ds2[i].sev = "error")
  /\ \A i, j \in (Len(ds) + 1)..Len(ds2) :
       ds2[i].sev = "error" /\ ds2[j].sev = "error" => i = j
  /\ (\E i \in (Len(ds) + 1)..Len(ds2) : ds2[i].sev = "error") => ~skip

\* What such an extension keeps, and the grammar lines it adds.
Extended(ds, ds2, n) ==
  /\ \A i \in DOMAIN ds2 : ds2[i].line \in 1..n
  /\ \A i \in DOMAIN ds2 : ds2[i].kind = "grammar" => ds2[i].sev = "error"
  /\ DistinctErrors(ds2)
  /\ GLines(ds2) = GLines(ds) \cup
       {ds2[i].line : i \in {j \in (Len(ds) + 1)..Len(ds2) :
                              ds2[j].kind = "grammar"}}

\* Extending the diagnostics keeps DiagsInv's content.
LEMMA Extend ==
  ASSUME NEW ds \in Seq(Diag), NEW ds2 \in Seq(Diag), NEW n \in Nat \ {0},
         NEW skip \in BOOLEAN,
         Extends(ds, ds2, n, skip)
  PROVE  Extended(ds, ds2, n)
<1> USE DEF Extends, Extended
<1>1. \A i \in DOMAIN ds2 : ds2[i].line \in 1..n
  BY DEF DiagsInv
<1>2. \A i \in DOMAIN ds2 : ds2[i].kind = "grammar" => ds2[i].sev = "error"
  BY DEF DiagsInv
<1>3. DistinctErrors(ds2)
  <2> SUFFICES ASSUME NEW i \in DOMAIN ds2, NEW j \in DOMAIN ds2, i < j,
                      ds2[i].sev = "error", ds2[j].sev = "error"
               PROVE  ds2[i].line # ds2[j].line
    BY DEF DistinctErrors
  <2>1. CASE j <= Len(ds)
    BY <2>1 DEF DiagsInv, DistinctErrors
  <2>2. CASE i > Len(ds)
    BY <2>2
  <2>3. CASE i <= Len(ds) /\ j > Len(ds)
    <3>1. ~skip /\ ds2[j].line = n
      BY <2>3
    <3>2. ds[i].sev = "error" /\ ds2[i] = ds[i]
      BY <2>3
    <3>. QED
      BY <3>1, <3>2, <2>3 DEF DiagsInv
  <2>. QED
    BY <2>1, <2>2, <2>3
<1>4. GLines(ds2) = GLines(ds) \cup
        {ds2[i].line : i \in {j \in (Len(ds) + 1)..Len(ds2) : ds2[j].kind = "grammar"}}
  <2> DEFINE New == {ds2[i].line : i \in {j \in (Len(ds) + 1)..Len(ds2) :
                                            ds2[j].kind = "grammar"}}
  <2>1. ASSUME NEW x \in GLines(ds2) PROVE x \in GLines(ds) \cup New
    <3>1. PICK i \in DOMAIN ds2 : ds2[i].kind = "grammar" /\ x = ds2[i].line
      BY DEF GLines
    <3>2. CASE i <= Len(ds)
      <4>1. i \in DOMAIN ds /\ ds2[i] = ds[i]
        BY <3>1, <3>2
      <4>. QED
        BY <3>1, <4>1 DEF GLines
    <3>3. CASE i > Len(ds)
      <4>1. i \in (Len(ds) + 1)..Len(ds2)
        BY <3>3
      <4>. QED
        BY <3>1, <4>1
    <3>. QED
      BY <3>2, <3>3
  <2>2. ASSUME NEW x \in GLines(ds) PROVE x \in GLines(ds2)
    <3>1. PICK i \in DOMAIN ds : ds[i].kind = "grammar" /\ x = ds[i].line
      BY DEF GLines
    <3>2. i \in DOMAIN ds2 /\ ds2[i] = ds[i]
      BY <3>1
    <3>. QED
      BY <3>1, <3>2 DEF GLines
  <2>3. ASSUME NEW x \in New PROVE x \in GLines(ds2)
    <3>1. PICK i \in (Len(ds) + 1)..Len(ds2) :
            ds2[i].kind = "grammar" /\ x = ds2[i].line
      OBVIOUS
    <3>2. i \in DOMAIN ds2
      BY <3>1
    <3>. QED
      BY <3>1, <3>2 DEF GLines
  <2>. QED
    BY <2>1, <2>2, <2>3
<1>. QED
  BY <1>1, <1>2, <1>3, <1>4


\* A grammar error on the line being read, which was not being skipped:
\* the line is now skipped and has its error.
LEMMA ErrorAppend ==
  ASSUME NEW ds \in Seq(Diag), NEW d \in Diag, NEW n \in Nat \ {0},
         d.line = n, d.kind = "grammar", d.sev = "error",
         DiagsInv(ds, n, FALSE)
  PROVE  /\ DiagsInv(Append(ds, d), n, TRUE)
         /\ GLines(Append(ds, d)) = GLines(ds) \cup {n}
<1> DEFINE ds2 == Append(ds, d)
<1>1. /\ ds2 \in Seq(Diag) /\ Len(ds2) = Len(ds) + 1
      /\ \A i \in 1..Len(ds) : ds2[i] = ds[i]
      /\ ds2[Len(ds) + 1] = d
  BY AppendProperties
<1>2. Extends(ds, ds2, n, FALSE)
  <2>1. (Len(ds) + 1)..Len(ds2) = {Len(ds) + 1}
    BY <1>1
  <2>2. ds2[Len(ds) + 1].line = n /\ ds2[Len(ds) + 1].sev = "error"
    BY <1>1
  <2>3. \A i \in (Len(ds) + 1)..Len(ds2) :
          ds2[i].line = n /\ (ds2[i].kind = "grammar" => ds2[i].sev = "error")
    BY <2>1, <2>2
  <2>4. \A i, j \in (Len(ds) + 1)..Len(ds2) :
          ds2[i].sev = "error" /\ ds2[j].sev = "error" => i = j
    BY <2>1
  <2>5. Len(ds) <= Len(ds2) /\ \A i \in 1..Len(ds) : ds2[i] = ds[i]
    BY <1>1
  <2>. QED
    BY <2>3, <2>4, <2>5, Zenon DEF Extends
<1>3. Extended(ds, ds2, n)
  BY <1>1, <1>2, Extend
<1>4. GLines(ds2) = GLines(ds) \cup {n}
  <2>1. {j \in (Len(ds) + 1)..Len(ds2) : ds2[j].kind = "grammar"} = {Len(ds) + 1}
    BY <1>1
  <2>. QED
    BY <1>1, <1>3, <2>1 DEF Extended
<1>5. \A i \in DOMAIN ds2 :
        ds2[i].sev = "error" /\ ds2[i].line = n => ds2[i].kind = "grammar" /\ TRUE
  BY <1>1 DEF DiagsInv
<1>6. n \in GLines(ds2)
  BY <1>4
<1>. QED
  BY <1>3, <1>5, <1>6 DEF DiagsInv, Extended

\* The newline: every diagnostic is about a finished line.
LEMMA NewlineDiags ==
  ASSUME NEW ds \in Seq(Diag), NEW n \in Nat \ {0}, NEW skip \in BOOLEAN,
         DiagsInv(ds, n, skip)
  PROVE  DiagsInv(ds, n + 1, FALSE)
BY DEF DiagsInv

\* A grammar error on the newline: the line is finished and failed.
LEMMA FailOnNewlineStep ==
  ASSUME NEW ds \in Seq(Diag), NEW d \in Diag, NEW n \in Nat \ {0}, NEW H,
         d.line = n, d.kind = "grammar", d.sev = "error",
         DiagsInv(ds, n, FALSE), VerdictInv(H, n - 1, ds)
  PROVE  DiagsInv(Append(ds, d), n + 1, FALSE) /\ VerdictInv(H, n, Append(ds, d))
<1>1. DiagsInv(Append(ds, d), n, TRUE) /\ GLines(Append(ds, d)) = GLines(ds) \cup {n}
  BY ErrorAppend
<1>2. Append(ds, d) \in Seq(Diag)
  BY AppendProperties
<1>3. DiagsInv(Append(ds, d), n + 1, FALSE)
  BY <1>1, <1>2, NewlineDiags
<1>4. VerdictInv(H, n, Append(ds, d))
  BY <1>1 DEF VerdictInv
<1>. QED
  BY <1>3, <1>4

\* The newline of a skipped line: the line is finished and failed.
LEMMA SkipNewlineStep ==
  ASSUME NEW ds \in Seq(Diag), NEW n \in Nat \ {0}, NEW H,
         DiagsInv(ds, n, TRUE), VerdictInv(H, n - 1, ds)
  PROVE  DiagsInv(ds, n + 1, FALSE) /\ VerdictInv(H, n, ds)
<1>1. DiagsInv(ds, n + 1, FALSE)
  BY NewlineDiags
<1>2. n \in GLines(ds)
  BY DEF DiagsInv
<1>3. H \subseteq 1..n
  BY DEF VerdictInv
<1>4. ASSUME NEW k \in 1..n PROVE k \in H <=> k \notin GLines(ds)
  <2>1. CASE k = n
    BY <2>1, <1>2 DEF VerdictInv
  <2>2. CASE k # n
    BY <2>2 DEF VerdictInv
  <2>. QED
    BY <2>1, <2>2
<1>. QED
  BY <1>1, <1>3, <1>4 DEF VerdictInv

\* The end of a line read without error: its handler runs and may report
\* warnings and one policy error about it, but no grammar error.
LEMMA HandledEndStep ==
  ASSUME NEW ds \in Seq(Diag), NEW ds2 \in Seq(Diag), NEW n \in Nat \ {0},
         NEW H,
         DiagsInv(ds, n, FALSE), VerdictInv(H, n - 1, ds),
         Len(ds) <= Len(ds2),
         \A i \in 1..Len(ds) : ds2[i] = ds[i],
         \A i \in (Len(ds) + 1)..Len(ds2) :
           ds2[i].line = n /\ ds2[i].kind # "grammar",
         \A i, j \in (Len(ds) + 1)..Len(ds2) :
           ds2[i].sev = "error" /\ ds2[j].sev = "error" => i = j
  PROVE  DiagsInv(ds2, n + 1, FALSE) /\ VerdictInv(H \cup {n}, n, ds2)
<1>1. Extends(ds, ds2, n, FALSE)
  BY DEF Extends
<1>2. Extended(ds, ds2, n)
  BY <1>1, Extend
<1>3. GLines(ds2) = GLines(ds)
  BY <1>2 DEF Extended
<1>4. n \notin GLines(ds)
  BY DEF DiagsInv, GLines
<1>5. DiagsInv(ds2, n + 1, FALSE)
  BY <1>2 DEF DiagsInv, Extended
<1>6. VerdictInv(H \cup {n}, n, ds2)
  BY <1>3, <1>4 DEF VerdictInv
<1>. QED
  BY <1>5, <1>6


\* An error inside a line, or at the end of the input, on a line not yet
\* failed: the line is now skipped and the finished lines keep their verdicts.
LEMMA ErrorInLineStep ==
  ASSUME NEW ds \in Seq(Diag), NEW d \in Diag, NEW n \in Nat \ {0}, NEW H,
         d.line = n, d.kind = "grammar", d.sev = "error",
         DiagsInv(ds, n, FALSE), VerdictInv(H, n - 1, ds)
  PROVE  DiagsInv(Append(ds, d), n, TRUE) /\ VerdictInv(H, n - 1, Append(ds, d))
<1>1. DiagsInv(Append(ds, d), n, TRUE) /\ GLines(Append(ds, d)) = GLines(ds) \cup {n}
  BY ErrorAppend
<1>2. \A k \in 1..n - 1 : k \in GLines(Append(ds, d)) <=> k \in GLines(ds)
  BY <1>1
<1>. QED
  BY <1>1, <1>2 DEF VerdictInv

\* What an end-of-line handler reports: diagnostics about line n, none of
\* them a grammar error, at most one of them an error.
LineNotes(w, n) ==
  /\ \A i \in DOMAIN w : w[i].line = n /\ w[i].kind # "grammar"
  /\ \A i, j \in DOMAIN w : w[i].sev = "error" /\ w[j].sev = "error" => i = j

\* HandledEndStep for diagnostics appended as one sequence.
LEMMA HandledEnd ==
  ASSUME NEW ds \in Seq(Diag), NEW w \in Seq(Diag), NEW n \in Nat \ {0}, NEW H,
         DiagsInv(ds, n, FALSE), VerdictInv(H, n - 1, ds), LineNotes(w, n)
  PROVE  DiagsInv(ds \o w, n + 1, FALSE) /\ VerdictInv(H \cup {n}, n, ds \o w)
<1>1. /\ ds \o w \in Seq(Diag)
      /\ Len(ds \o w) = Len(ds) + Len(w)
      /\ \A i \in 1..Len(ds) + Len(w) :
           (ds \o w)[i] = IF i <= Len(ds) THEN ds[i] ELSE w[i - Len(ds)]
  BY ConcatProperties
<1>2. /\ Len(ds) <= Len(ds \o w)
      /\ \A i \in 1..Len(ds) : (ds \o w)[i] = ds[i]
  BY <1>1
<1>3. \A i \in (Len(ds) + 1)..Len(ds \o w) :
        (ds \o w)[i].line = n /\ (ds \o w)[i].kind # "grammar"
  BY <1>1 DEF LineNotes
<1>4. \A i, j \in (Len(ds) + 1)..Len(ds \o w) :
        (ds \o w)[i].sev = "error" /\ (ds \o w)[j].sev = "error" => i = j
  <2> SUFFICES ASSUME NEW i \in (Len(ds) + 1)..Len(ds \o w),
                      NEW j \in (Len(ds) + 1)..Len(ds \o w),
                      (ds \o w)[i].sev = "error", (ds \o w)[j].sev = "error"
               PROVE  i = j
    OBVIOUS
  <2>1. w[i - Len(ds)].sev = "error" /\ w[j - Len(ds)].sev = "error"
        /\ i - Len(ds) \in DOMAIN w /\ j - Len(ds) \in DOMAIN w
    BY <1>1
  <2>. QED
    BY <2>1 DEF LineNotes
<1>. QED
  BY <1>1, <1>2, <1>3, <1>4, HandledEndStep

\* optional_check_body_entry reports at most one warning, about the line.
LEMMA CheckBodyEntryNotes ==
  ASSUME n_lines \in Nat, NEW r \in BodyLines
  PROVE  /\ CheckBodyEntry(r) \in Seq(Diag)
         /\ \A i \in DOMAIN CheckBodyEntry(r) :
              /\ CheckBodyEntry(r)[i].line = n_lines
              /\ CheckBodyEntry(r)[i].kind # "grammar"
              /\ CheckBodyEntry(r)[i].sev = "warning"
<1>1. \A k \in {"ploidy", "unsorted", "contig"}, a \in SUBSET Chroms :
        /\ Warning(k, a).line = n_lines /\ Warning(k, a).kind # "grammar"
        /\ Warning(k, a).sev = "warning"
  BY DEF Warning
<1>2. {r.chrom} \in SUBSET Chroms
  BY DEF BodyLines
<1>. QED
  BY <1>1, <1>2, CheckBodyEntryType DEF CheckBodyEntry


-----------------------------------------------------------------------------
(***************************************************************************)
(* The newline steps of the scanner, at the level of SyncInv.              *)
(***************************************************************************)
\* An error action on the newline byte (EmptyLine, the short header, the
\* short body line): the line fails and the next one starts clean.
LEMMA FailOnNewlineSync ==
  ASSUME diags \in Seq(Diag), n_lines \in Nat \ {0}, nl = n_lines - 1,
         NEW sec \in Sections,
         DiagsInv(diags, n_lines, FALSE), VerdictInv(handled, nl, diags),
         FailOnNewline(sec), handled' = handled
  PROVE  /\ DiagsInv(diags', n_lines', cs' \in SkipStates)
         /\ VerdictInv(handled', nl', diags')
         /\ cs' \in LineStartStates /\ ~midLine'
<1>1. /\ diags' = Append(diags, Error(sec, "grammar"))
      /\ cs' = Resume(SkipOf(sec)) /\ n_lines' = n_lines + 1
      /\ nl' = nl + 1 /\ ~midLine'
  BY DEF FailOnNewline, SkipToNewline, Newline
<1>2. (cs' \in SkipStates) = FALSE /\ cs' \in LineStartStates
  BY <1>1 DEF Resume, SkipOf, SkipStates, LineStartStates
<1>3. /\ Error(sec, "grammar") \in Diag
      /\ Error(sec, "grammar").line = n_lines
      /\ Error(sec, "grammar").kind = "grammar"
      /\ Error(sec, "grammar").sev = "error"
  BY ErrorIsDiag DEF Error, Kinds
<1>4. /\ DiagsInv(Append(diags, Error(sec, "grammar")), n_lines + 1, FALSE)
      /\ VerdictInv(handled, n_lines, Append(diags, Error(sec, "grammar")))
  BY <1>3, FailOnNewlineStep
<1>5. nl' = n_lines
  BY <1>1
<1>. QED
  BY <1>1, <1>2, <1>4, <1>5, Zenon

\* An end-of-line handler that ran: the line is handled, whatever
\* warnings and policy error it reported about it.
LEMMA HandledSync ==
  ASSUME diags \in Seq(Diag), n_lines \in Nat \ {0}, nl = n_lines - 1,
         DiagsInv(diags, n_lines, FALSE), VerdictInv(handled, nl, diags),
         NEW w \in Seq(Diag), LineNotes(w, n_lines), diags' = diags \o w,
         NEW next \in LineStartStates, Newline(next),
         handled' = handled \cup {n_lines}
  PROVE  /\ DiagsInv(diags', n_lines', cs' \in SkipStates)
         /\ VerdictInv(handled', nl', diags')
         /\ cs' \in LineStartStates /\ ~midLine'
<1>1. /\ cs' = next /\ n_lines' = n_lines + 1 /\ nl' = nl + 1 /\ ~midLine'
  BY DEF Newline
<1>2. (cs' \in SkipStates) = FALSE
  BY <1>1 DEF SkipStates, LineStartStates
<1>3. /\ DiagsInv(diags \o w, n_lines + 1, FALSE)
      /\ VerdictInv(handled \cup {n_lines}, n_lines, diags \o w)
  BY HandledEnd
<1>4. nl' = n_lines
  BY <1>1
<1>. QED
  BY <1>1, <1>2, <1>3, <1>4, Zenon


-----------------------------------------------------------------------------
(***************************************************************************)
(* LinesInv is inductive.                                                  *)
(***************************************************************************)
LEMMA LinesInvInit == Init => LinesInv
<1> SUFFICES ASSUME Init PROVE LinesInv
  OBVIOUS
<1>1. TypeInv
  BY TypeInvInit
<1>2. GLines(diags) = {} /\ DOMAIN diags = {}
  BY DEF Init, GLines
<1>. QED
  BY <1>1, <1>2 DEF Init, LinesInv, SyncInv, DiagsInv, DistinctErrors,
                    VerdictInv, InLineStates, LineStartStates, SkipStates

\* A content byte of a line: accepted (the line is being read) or rejected
\* by an error action (the line is failed and skipped).
LEMMA ScanContentSync ==
  ASSUME LinesInv, ScanContent PROVE SyncInv'
<1>0. /\ diags \in Seq(Diag) /\ n_lines \in Nat \ {0} /\ nl = n_lines - 1
      /\ VerdictInv(handled, nl, diags)
      /\ inCall' = inCall /\ ended' = ended /\ handled' = handled
      /\ (inCall => ~ended)
  BY DEF LinesInv, SyncInv, TypeInv, TypeOK, LineCount, ScanContent
<1>1. PICK t \in Contents : ScanFileformat(t) \/ ScanMeta(t) \/ ScanBody(t)
  BY DEF ScanContent
<1>2. cs \in LineStartStates /\ (cs \in SkipStates) = FALSE
  BY <1>1 DEF ScanFileformat, ScanMeta, ScanBody, LineStartStates, SkipStates
<1>3. DiagsInv(diags, n_lines, FALSE)
  BY <1>2, Zenon DEF LinesInv, SyncInv
<1>4. (\E next \in InLineStates : Accumulate(next, t))
      \/ (\E sec \in Sections : FailInLine(sec))
  <2>1. CASE ScanFileformat(t)
    BY <2>1 DEF ScanFileformat, InLineStates, Sections
  <2>2. CASE ScanMeta(t)
    <3>1. StartErrorSection[cs] \in Sections
      BY <2>2 DEF ScanMeta, StartErrorSection, Sections
    <3>. QED
      BY <2>2, <3>1 DEF ScanMeta, InLineStates, Sections
  <2>3. CASE ScanBody(t)
    <3>1. StartErrorSection[cs] \in Sections
      BY <2>3 DEF ScanBody, StartErrorSection, Sections
    <3>. QED
      BY <2>3, <3>1 DEF ScanBody, InLineStates, Sections
  <2>. QED
    BY <1>1, <2>1, <2>2, <2>3
<1>5. CASE \E next \in InLineStates : Accumulate(next, t)
  <2>1. PICK next \in InLineStates : Accumulate(next, t)
    BY <1>5
  <2>2. /\ cs' \in InLineStates /\ midLine' /\ (cs' \in SkipStates) = FALSE
        /\ cs' \notin LineStartStates
        /\ diags' = diags /\ n_lines' = n_lines /\ nl' = nl
    BY <2>1 DEF Accumulate, InLineStates, SkipStates, LineStartStates
  <2>. QED
    BY <1>0, <1>3, <2>2, Zenon DEF SyncInv
<1>6. CASE \E sec \in Sections : FailInLine(sec)
  <2>1. PICK sec \in Sections : FailInLine(sec)
    BY <1>6
  <2>2. /\ diags' = Append(diags, Error(sec, "grammar"))
        /\ cs' \in SkipStates /\ (cs' \in SkipStates) = TRUE
        /\ cs' \notin InLineStates /\ cs' \notin LineStartStates
        /\ n_lines' = n_lines /\ nl' = nl /\ nl = n_lines - 1
    BY <1>0, <2>1 DEF FailInLine, SkipOf, SkipStates, InLineStates, LineStartStates
  <2>3. /\ Error(sec, "grammar") \in Diag
        /\ Error(sec, "grammar").line = n_lines
        /\ Error(sec, "grammar").kind = "grammar"
        /\ Error(sec, "grammar").sev = "error"
    BY <1>0, ErrorIsDiag DEF Error, Kinds
  <2>4. /\ DiagsInv(Append(diags, Error(sec, "grammar")), n_lines, TRUE)
        /\ VerdictInv(handled, n_lines - 1, Append(diags, Error(sec, "grammar")))
    BY <1>0, <1>3, <2>3, ErrorInLineStep
  <2>. QED
    BY <1>0, <2>2, <2>4, Zenon DEF SyncInv
<1>. QED
  BY <1>4, <1>5, <1>6


\* The newline byte, in each group of states: the line gets its verdict,
\* and the scanner is at the start of the next one.
LEMMA ScanNewlineSync ==
  ASSUME LinesInv, ScanNewline PROVE SyncInv'
<1>0. /\ diags \in Seq(Diag) /\ n_lines \in Nat \ {0} /\ nl = n_lines - 1
      /\ VerdictInv(handled, nl, diags)
      /\ DiagsInv(diags, n_lines, cs \in SkipStates)
      /\ inCall' = inCall /\ ended' = ended /\ (inCall => ~ended)
  BY DEF LinesInv, SyncInv, TypeInv, TypeOK, LineCount, ScanNewline
<1>1. cs \notin SkipStates => DiagsInv(diags, n_lines, FALSE)
  <2>1. cs \notin SkipStates => (cs \in SkipStates) = FALSE
    OBVIOUS
  <2>. QED
    BY <1>0, <2>1, Zenon
<1>2. SUFFICES /\ DiagsInv(diags', n_lines', cs' \in SkipStates)
               /\ VerdictInv(handled', nl', diags')
               /\ cs' \in LineStartStates /\ ~midLine'
  <2>1. cs' \in LineStartStates => cs' \notin InLineStates
    BY DEF LineStartStates, InLineStates
  <2>. QED
    BY <1>0, <2>1, Zenon DEF SyncInv
\* A handler that reports nothing.
<1>3. ASSUME NEW next \in LineStartStates, cs \notin SkipStates,
             Newline(next), diags' = diags, handled' = handled \cup {n_lines}
      PROVE  /\ DiagsInv(diags', n_lines', cs' \in SkipStates)
             /\ VerdictInv(handled', nl', diags')
             /\ cs' \in LineStartStates /\ ~midLine'
  <2>1. diags' = diags \o << >> /\ LineNotes(<< >>, n_lines) /\ << >> \in Seq(Diag)
    BY <1>0, <1>3, ConcatEmptySeq DEF LineNotes
  <2>. QED
    BY <1>0, <1>1, <1>3, <2>1, HandledSync
<1>4. CASE EmptyLine
  <2>1. cs \in LineStartStates /\ cs \notin SkipStates
    BY <1>4 DEF EmptyLine, LineStartStates, SkipStates
  <2>2. StartErrorSection[cs] \in Sections
    BY <2>1 DEF StartErrorSection, LineStartStates, Sections
  <2>. QED
    BY <1>0, <1>1, <1>4, <2>1, <2>2, FailOnNewlineSync DEF EmptyLine
<1>5. CASE SkipNewline
  <2>1. /\ cs \in SkipStates /\ (cs \in SkipStates) = TRUE
        /\ cs' = Resume(cs) /\ cs' \in LineStartStates
        /\ n_lines' = n_lines + 1 /\ nl' = n_lines /\ ~midLine'
        /\ diags' = diags /\ handled' = handled
    BY <1>0, <1>5 DEF SkipNewline, SkipToNewline, Newline, Resume, SkipStates,
                     LineStartStates
  <2>2. DiagsInv(diags, n_lines, TRUE)
    BY <1>0, <2>1, Zenon
  <2>3. DiagsInv(diags, n_lines + 1, FALSE) /\ VerdictInv(handled, n_lines, diags)
    BY <1>0, <2>2, SkipNewlineStep
  <2>4. (cs' \in SkipStates) = FALSE
    BY <2>1 DEF LineStartStates, SkipStates
  <2>. QED
    BY <2>1, <2>3, <2>4, Zenon
<1>6. CASE EndOfFileformatLine
  <2>1. "AfterFileformat" \in LineStartStates /\ cs \notin SkipStates
    BY <1>6 DEF EndOfFileformatLine, LineStartStates, SkipStates
  <2>. QED
    BY <1>6, <2>1, <1>3 DEF EndOfFileformatLine
<1>7. CASE EndOfMetaLine
  <2>1. "Meta" \in LineStartStates /\ cs \notin SkipStates /\ Newline("Meta")
        /\ handled' = handled \cup {n_lines}
    BY <1>7 DEF EndOfMetaLine, LineStartStates, SkipStates
  <2>2. CASE DuplicateId(line)
    <3> DEFINE e == Error("meta", "policy")
    <3>1. diags' = Append(diags, e)
      BY <1>7, <2>2 DEF EndOfMetaLine, HandleMetaLine
    <3>2. e \in Diag /\ e.line = n_lines /\ e.kind = "policy"
      BY <1>0, ErrorIsDiag DEF Error, Sections, Kinds
    <3>3. diags' = diags \o <<e>> /\ <<e>> \in Seq(Diag)
      BY <1>0, <3>1, <3>2, AppendIsConcat
    <3>4. LineNotes(<<e>>, n_lines)
      BY <3>2 DEF LineNotes
    <3>. QED
      BY <1>0, <1>1, <2>1, <3>3, <3>4, HandledSync
  <2>3. CASE ~DuplicateId(line)
    <3>1. diags' = diags
      BY <1>7, <2>3 DEF EndOfMetaLine, HandleMetaLine
    <3>. QED
      BY <2>1, <3>1, <1>3
  <2>. QED
    BY <2>2, <2>3
<1>8. CASE EndOfHeaderLine
  <2>1. cs \notin SkipStates /\ "HeaderDone" \in LineStartStates
        /\ "header" \in Sections
    BY <1>8 DEF EndOfHeaderLine, SkipStates, LineStartStates, Sections
  <2>2. CASE line = Header
    BY <1>8, <2>1, <2>2, <1>3 DEF EndOfHeaderLine, Header, ShortHeader
  <2>3. CASE line # Header
    <3>1. FailOnNewline("header") /\ handled' = handled
      BY <1>8, <2>3 DEF EndOfHeaderLine
    <3>. QED
      BY <1>0, <1>1, <2>1, <3>1, FailOnNewlineSync
  <2>. QED
    BY <2>2, <2>3
<1>9. CASE EndOfShortBodyLine
  <2>1. cs \notin SkipStates /\ "body" \in Sections
        /\ FailOnNewline("body") /\ handled' = handled
    BY <1>9 DEF EndOfShortBodyLine, SkipStates, Sections
  <2>. QED
    BY <1>0, <1>1, <2>1, FailOnNewlineSync
<1>. QED
  BY <1>4, <1>5, <1>6, <1>7, <1>8, <1>9 DEF ScanNewline


\* The warnings of optional_check_body_entry, and the policy error that
\* may follow them, are notes on the line.
LEMMA BodyNotes ==
  ASSUME NEW w \in Seq(Diag), NEW n \in Nat \ {0}, NEW e \in Diag,
         \A i \in DOMAIN w : w[i].line = n /\ w[i].kind # "grammar"
                             /\ w[i].sev = "warning",
         e.line = n, e.kind # "grammar"
  PROVE  LineNotes(w, n) /\ LineNotes(w \o <<e>>, n)
<1>1. LineNotes(w, n)
  BY DEF LineNotes
<1>2. /\ <<e>> \in Seq(Diag)
      /\ w \o <<e>> \in Seq(Diag)
      /\ Len(w \o <<e>>) = Len(w) + 1
      /\ \A i \in 1..Len(w) + 1 :
           (w \o <<e>>)[i] = IF i <= Len(w) THEN w[i] ELSE e
  BY ConcatProperties
<1>3. \A i \in DOMAIN (w \o <<e>>) :
        (w \o <<e>>)[i].line = n /\ (w \o <<e>>)[i].kind # "grammar"
  BY <1>2
<1>4. \A i, j \in DOMAIN (w \o <<e>>) :
        (w \o <<e>>)[i].sev = "error" /\ (w \o <<e>>)[j].sev = "error" => i = j
  BY <1>2
<1>. QED
  BY <1>1, <1>3, <1>4 DEF LineNotes

\* tr592 appends the warning of optional_check_body_entry, if any, and
\* the policy error of handle_body_line, if it throws.
LEMMA BodyLineNotes ==
  ASSUME LinesInv, EndOfBodyLine
  PROVE  \E v \in Seq(Diag) : LineNotes(v, n_lines) /\ diags' = diags \o v
<1>0. /\ diags \in Seq(Diag) /\ n_lines \in Nat \ {0} /\ line \in BodyLines
  BY DEF LinesInv, TypeInv, TypeOK, LineCount, EndOfBodyLine
<1> DEFINE w == CheckBodyEntry(line)
           e == Error("body", "policy")
<1>1. /\ w \in Seq(Diag) /\ e \in Diag /\ e.line = n_lines /\ e.kind # "grammar"
      /\ \A i \in DOMAIN w : w[i].line = n_lines /\ w[i].kind # "grammar"
                             /\ w[i].sev = "warning"
  BY <1>0, CheckBodyEntryNotes, ErrorIsDiag DEF Error, Sections, Kinds
<1>2. LineNotes(w, n_lines) /\ LineNotes(w \o <<e>>, n_lines)
  BY <1>0, <1>1, BodyNotes
<1>. QED
  <2>1. CASE line.ok
    BY <1>2, <1>1, <2>1 DEF EndOfBodyLine
  <2>2. CASE ~line.ok
    <3>1. diags' = (diags \o w) \o <<e>>
      BY <2>2 DEF EndOfBodyLine
    <3>2. (diags \o w) \o <<e>> = diags \o (w \o <<e>>)
          /\ w \o <<e>> \in Seq(Diag)
      BY <1>0, <1>1, ConcatAssociative, ConcatProperties
    <3>. QED
      BY <1>2, <3>1, <3>2
  <2>. QED
    BY <2>1, <2>2

\* tr592: the checks and handle_body_line end a handled line.
LEMMA EndOfBodyLineSync ==
  ASSUME LinesInv, EndOfBodyLine PROVE SyncInv'
<1>0. /\ diags \in Seq(Diag) /\ n_lines \in Nat \ {0} /\ nl = n_lines - 1
      /\ VerdictInv(handled, nl, diags)
      /\ DiagsInv(diags, n_lines, cs \in SkipStates)
      /\ inCall' = inCall /\ ended' = ended /\ (inCall => ~ended)
      /\ cs = "BodyLine" /\ line \in BodyLines /\ Newline("Body")
      /\ handled' = handled \cup {n_lines}
  BY DEF LinesInv, SyncInv, TypeInv, TypeOK, LineCount, EndOfBodyLine
<1>1. DiagsInv(diags, n_lines, FALSE)
  <2>1. (cs \in SkipStates) = FALSE
    BY <1>0 DEF SkipStates
  <2>. QED
    BY <1>0, <2>1, Zenon
<1>2. \E v \in Seq(Diag) : LineNotes(v, n_lines) /\ diags' = diags \o v
  BY BodyLineNotes
<1>3. PICK v \in Seq(Diag) : LineNotes(v, n_lines) /\ diags' = diags \o v
  BY <1>2
<1>4. /\ DiagsInv(diags', n_lines', cs' \in SkipStates)
      /\ VerdictInv(handled', nl', diags')
      /\ cs' \in LineStartStates /\ ~midLine'
  <2>1. "Body" \in LineStartStates
    BY DEF LineStartStates
  <2>. QED
    BY <1>0, <1>1, <1>3, <2>1, HandledSync
<1>5. cs' \in LineStartStates => cs' \notin InLineStates
  BY DEF LineStartStates, InLineStates
<1>. QED
  BY <1>0, <1>4, <1>5, Zenon DEF SyncInv

\* end(): the EOF action fails an unfinished line or a file without a
\* header line, which the scanner then skips; no parse() call runs after.
LEMMA EndSync ==
  ASSUME LinesInv, End PROVE SyncInv'
<1>0. /\ diags \in Seq(Diag) /\ n_lines \in Nat \ {0} /\ nl = n_lines - 1
      /\ VerdictInv(handled, nl, diags) /\ SyncInv
      /\ ~inCall /\ inCall' = inCall /\ ended' = TRUE
      /\ n_lines' = n_lines /\ nl' = nl /\ midLine' = midLine
      /\ handled' = handled
  BY DEF LinesInv, SyncInv, TypeInv, TypeOK, LineCount, End, ghost
<1>1. CASE cs \in DOMAIN EofSection
  <2> DEFINE d == Error(EofSection[cs], "grammar")
  <2>1. /\ diags' = Append(diags, d) /\ cs' = SkipOf(EofSection[cs])
        /\ EofSection[cs] \in Sections
    BY <1>1 DEF End, EofSection, Sections
  <2>2. /\ (cs \in SkipStates) = FALSE
        /\ (cs' \in SkipStates) = TRUE
        /\ cs' \notin InLineStates /\ cs' \notin LineStartStates
    BY <1>1, <2>1 DEF EofSection, SkipStates, SkipOf, InLineStates,
                      LineStartStates
  <2>3. DiagsInv(diags, n_lines, FALSE)
    BY <1>0, <2>2, Zenon DEF SyncInv
  <2>4. d \in Diag /\ d.line = n_lines /\ d.kind = "grammar" /\ d.sev = "error"
    BY <1>0, <2>1, ErrorIsDiag DEF Error, Kinds
  <2>5. DiagsInv(Append(diags, d), n_lines, TRUE)
        /\ VerdictInv(handled, n_lines - 1, Append(diags, d))
    BY <1>0, <2>3, <2>4, ErrorInLineStep
  <2>. QED
    BY <1>0, <2>1, <2>2, <2>5, Zenon DEF SyncInv
<1>2. CASE cs \notin DOMAIN EofSection
  <2>1. cs' = cs /\ diags' = diags
    BY <1>2 DEF End
  <2>. QED
    BY <1>0, <2>1, Zenon DEF SyncInv
<1>. QED
  BY <1>1, <1>2

LEMMA LinesInvStep == LinesInv /\ [Next]_vars => LinesInv'
<1> SUFFICES ASSUME LinesInv, [Next]_vars PROVE LinesInv'
  OBVIOUS
<1>0. TypeInv'
  BY TypeInvStep DEF LinesInv
<1>1. SyncInv'
  <2>1. CASE Parse
    BY <2>1 DEF LinesInv, SyncInv, Parse, ghost
  <2>2. CASE ParseReturn
    BY <2>2 DEF LinesInv, SyncInv, ParseReturn, parser, ghost
  <2>3. CASE ScanContent
    BY <2>3, ScanContentSync
  <2>4. CASE ScanNewline
    BY <2>4, ScanNewlineSync
  <2>5. CASE EndOfBodyLine
    BY <2>5, EndOfBodyLineSync
  <2>6. CASE BodyLineOverflow
    BY <2>6 DEF LinesInv, SyncInv, BodyLineOverflow, parser, ghost
  <2>7. CASE End
    BY <2>7, EndSync
  <2>8. CASE Stopped \/ UNCHANGED vars
    BY <2>8 DEF LinesInv, SyncInv, Stopped, vars, parser, ghost
  <2>. QED
    BY <2>1, <2>2, <2>3, <2>4, <2>5, <2>6, <2>7, <2>8 DEF Next
<1>. QED
  BY <1>0, <1>1 DEF LinesInv

\* LineVerdicts: the scanner resynchronises at every newline.  Every line
\* it has consumed reached its end-of-line handler or got a grammar error,
\* and no line gets two errors, for all bounds and contents: the p-- of the
\* error actions, the skip states counting the newline they swallow, and
\* the EOF action reporting only on a line without an error.
THEOREM LineVerdictsHolds == Spec => []LineVerdicts
<1>1. Init => LinesInv
  BY LinesInvInit
<1>2. LinesInv /\ [Next]_vars => LinesInv'
  BY LinesInvStep
<1>3. LinesInv => LineVerdicts
  <2> SUFFICES ASSUME LinesInv PROVE LineVerdicts
    OBVIOUS
  <2>1. /\ \A k \in 1..nl : k \in handled \/ k \in GLines(diags)
        /\ DistinctErrors(diags)
    BY DEF LinesInv, SyncInv, VerdictInv, DiagsInv
  <2>. QED
    BY <2>1 DEF LineVerdicts, GLines, DistinctErrors
<1>. QED
  BY <1>1, <1>2, <1>3, PTL DEF Spec


-----------------------------------------------------------------------------
(***************************************************************************)
(* LinesRefined: the scanner implements VcfLines.                         *)
(***************************************************************************)
\* The verdicts of the first m lines, given the handled ones.
Verdicts(H, m) == [k \in 1..m |-> IF k \in H THEN "handled" ELSE "failed"]

\* The notes of an end-of-line handler add no grammar error line.
LEMMA NotesKeepErrors ==
  ASSUME NEW ds \in Seq(Diag), NEW w \in Seq(Diag), NEW n,
         LineNotes(w, n)
  PROVE  GLines(ds \o w) = GLines(ds)
<1>1. /\ Len(ds \o w) = Len(ds) + Len(w)
      /\ \A i \in 1..Len(ds) + Len(w) :
           (ds \o w)[i] = IF i <= Len(ds) THEN ds[i] ELSE w[i - Len(ds)]
  BY ConcatProperties
<1>2. \A i \in DOMAIN (ds \o w) :
        (ds \o w)[i].kind = "grammar" => i \in DOMAIN ds /\ (ds \o w)[i] = ds[i]
  BY <1>1 DEF LineNotes
<1>3. \A i \in DOMAIN ds : (ds \o w)[i] = ds[i] /\ i \in DOMAIN (ds \o w)
  BY <1>1
<1>. QED
  BY <1>2, <1>3 DEF GLines

\* The verdicts are a sequence with one entry per consumed line.
LEMMA VerdictsSeq ==
  ASSUME NEW m \in Nat, NEW H
  PROVE  Verdicts(H, m) \in Seq({"handled", "failed"}) /\ Len(Verdicts(H, m)) = m
BY DEF Verdicts

\* A newline appends the verdict of the line it ends, and changes none of
\* the earlier ones.
LEMMA VerdictsAppend ==
  ASSUME NEW m \in Nat, NEW H, NEW H2,
         \A k \in 1..m : k \in H2 <=> k \in H
  PROVE  Verdicts(H2, m + 1) =
           Append(Verdicts(H, m), IF m + 1 \in H2 THEN "handled" ELSE "failed")
<1> DEFINE v == IF m + 1 \in H2 THEN "handled" ELSE "failed"
<1>1. Verdicts(H, m) \in Seq({"handled", "failed"}) /\ Len(Verdicts(H, m)) = m
  BY VerdictsSeq
<1>2. /\ Len(Append(Verdicts(H, m), v)) = m + 1
      /\ \A i \in 1..m : Append(Verdicts(H, m), v)[i] = Verdicts(H, m)[i]
      /\ Append(Verdicts(H, m), v)[m + 1] = v
      /\ Append(Verdicts(H, m), v) \in Seq({"handled", "failed"})
  BY <1>1, AppendProperties
<1>3. DOMAIN Append(Verdicts(H, m), v) = 1..m + 1
  BY <1>2
<1>. QED
  BY <1>2, <1>3 DEF Verdicts

\* The refinement mapping in terms of the lemmas' operators.
LEMMA MappingFacts ==
  /\ VerdictsOf = Verdicts(handled, nl)
  /\ VerdictsOf' = Verdicts(handled', nl')
  /\ GrammarErrorLines = GLines(diags)
  /\ GrammarErrorLines' = GLines(diags')
BY DEF VerdictsOf, Verdicts, GrammarErrorLines, GLines


\* The initial state is the abstract initial state.
LEMMA RefInit == Init => Lines!Init
<1> SUFFICES ASSUME Init PROVE Lines!Init
  OBVIOUS
<1>1. VerdictsOf = << >> /\ GrammarErrorLines = {}
  BY DEF Init, VerdictsOf, GrammarErrorLines
<1>. QED
  BY <1>1 DEF Init, Lines!Init, SectionOf, PendingOf, SkipStates

\* Steps that leave every variable of the line-level view alone.
LEMMA RefStutter ==
  ASSUME cs' = cs, midLine' = midLine, nl' = nl, handled' = handled,
         diags' = diags, ended' = ended
  PROVE  UNCHANGED Lines!vars
BY DEF Lines!vars, SectionOf, PendingOf, VerdictsOf, GrammarErrorLines


\* The section of each scanner state.
LEMMA SectionOfValues ==
  /\ SectionOf("Start") = "fileformat" /\ SectionOf("FileformatLine") = "fileformat"
  /\ SectionOf("AfterFileformat") = "meta" /\ SectionOf("Meta") = "meta"
  /\ SectionOf("MetaLine") = "meta" /\ SectionOf("HeaderLine") = "meta"
  /\ SectionOf("MetaSkip") = "meta"
  /\ SectionOf("HeaderDone") = "body" /\ SectionOf("Body") = "body"
  /\ SectionOf("BodyLine") = "body" /\ SectionOf("BodySkip") = "body"
BY DEF SectionOf

\* What LinesInv says of the line-level view.
LEMMA RefFacts ==
  ASSUME LinesInv
  PROVE  /\ diags \in Seq(Diag) /\ n_lines \in Nat \ {0} /\ nl = n_lines - 1
         /\ nl \in Nat /\ Len(VerdictsOf) = nl
         /\ handled \subseteq 1..nl
         /\ inCall => ~ended
         /\ cs \notin SkipStates => DiagsInv(diags, n_lines, FALSE)
         /\ cs \in SkipStates => DiagsInv(diags, n_lines, TRUE)
         /\ cs \in LineStartStates => PendingOf = "idle"
         /\ cs \in InLineStates => PendingOf = "reading"
         /\ cs \in SkipStates => PendingOf = "failed"
<1>1. /\ diags \in Seq(Diag) /\ n_lines \in Nat \ {0} /\ nl = n_lines - 1
      /\ nl \in Nat /\ handled \subseteq 1..nl
  BY DEF LinesInv, TypeInv, TypeOK, LineCount, SyncInv, VerdictInv
<1>2. Len(VerdictsOf) = nl
  BY <1>1, VerdictsSeq, MappingFacts
<1>3. /\ cs \notin SkipStates => DiagsInv(diags, n_lines, FALSE)
      /\ cs \in SkipStates => DiagsInv(diags, n_lines, TRUE)
  <2>1. DiagsInv(diags, n_lines, cs \in SkipStates)
    BY DEF LinesInv, SyncInv
  <2>2. (cs \notin SkipStates => (cs \in SkipStates) = FALSE)
        /\ (cs \in SkipStates => (cs \in SkipStates) = TRUE)
    OBVIOUS
  <2>. QED
    BY <2>1, <2>2, Zenon
<1>4. /\ cs \in LineStartStates => PendingOf = "idle"
      /\ cs \in InLineStates => PendingOf = "reading"
      /\ cs \in SkipStates => PendingOf = "failed"
  BY DEF LinesInv, SyncInv, PendingOf, LineStartStates, InLineStates, SkipStates
<1>. QED
  BY <1>1, <1>2, <1>3, <1>4 DEF LinesInv, SyncInv

\* A content byte either starts the line in its section or is an error
\* whose skip state lies in a section the line-level view allows.
LEMMA ScanContentShape ==
  ASSUME ScanContent
  PROVE  /\ cs \in LineStartStates
         /\ \/ \E next \in InLineStates, t \in Contents :
                 Accumulate(next, t) /\ SectionOf(next) = SectionOf(cs)
            \/ \E sec \in Sections :
                 FailInLine(sec) /\ SectionOf(SkipOf(sec)) \in Lines!After(SectionOf(cs))
<1>1. PICK t \in Contents : ScanFileformat(t) \/ ScanMeta(t) \/ ScanBody(t)
  BY DEF ScanContent
<1>2. CASE ScanFileformat(t)
  BY <1>2, SectionOfValues DEF ScanFileformat, LineStartStates, InLineStates,
     Sections, SkipOf, Lines!After
<1>3. CASE ScanMeta(t)
  <2>1. StartErrorSection[cs] \in {"fileformat", "meta"}
    BY <1>3 DEF ScanMeta, StartErrorSection
  <2>. QED
    BY <1>3, <2>1, SectionOfValues DEF ScanMeta, LineStartStates, InLineStates,
       Sections, SkipOf, Lines!After
<1>4. CASE ScanBody(t)
  <2>1. StartErrorSection[cs] \in {"header", "body"}
    BY <1>4 DEF ScanBody, StartErrorSection
  <2>. QED
    BY <1>4, <2>1, SectionOfValues DEF ScanBody, LineStartStates, InLineStates,
       Sections, SkipOf, Lines!After
<1>. QED
  BY <1>1, <1>2, <1>3, <1>4

\* A content byte is Begin or Fail of VcfLines.
LEMMA RefScanContent ==
  ASSUME LinesInv, ScanContent PROVE Lines!Begin \/ Lines!Fail
<1>0. /\ ~ended /\ ended' = ended /\ handled' = handled
      /\ cs \in LineStartStates /\ PendingOf = "idle"
  BY RefFacts, ScanContentShape DEF ScanContent, Scanning
<1>R. /\ diags \in Seq(Diag) /\ n_lines \in Nat \ {0} /\ nl = n_lines - 1
      /\ Len(VerdictsOf) = nl /\ DiagsInv(diags, n_lines, FALSE)
  <2>1. cs \notin SkipStates
    BY <1>0 DEF LineStartStates, SkipStates
  <2>. QED
    BY <2>1, RefFacts
<1>1. CASE \E next \in InLineStates, t \in Contents :
             Accumulate(next, t) /\ SectionOf(next) = SectionOf(cs)
  <2>1. PICK next \in InLineStates, t \in Contents :
               Accumulate(next, t) /\ SectionOf(next) = SectionOf(cs)
    BY <1>1
  <2>2. /\ SectionOf(cs') = SectionOf(cs) /\ PendingOf' = "reading"
        /\ VerdictsOf' = VerdictsOf /\ GrammarErrorLines' = GrammarErrorLines
    BY <2>1, <1>0 DEF Accumulate, PendingOf, InLineStates, SkipStates,
                      VerdictsOf, GrammarErrorLines
  <2>. QED
    BY <1>0, <2>2 DEF Lines!Begin
<1>2. CASE \E sec \in Sections :
             FailInLine(sec) /\ SectionOf(SkipOf(sec)) \in Lines!After(SectionOf(cs))
  <2>1. PICK sec \in Sections :
               FailInLine(sec) /\ SectionOf(SkipOf(sec)) \in Lines!After(SectionOf(cs))
    BY <1>2
  <2> DEFINE d == Error(sec, "grammar")
  <2>2. /\ diags' = Append(diags, d) /\ cs' = SkipOf(sec)
        /\ nl' = nl /\ handled' = handled
    BY <2>1, <1>0 DEF FailInLine
  <2>3. d \in Diag /\ d.line = n_lines /\ d.kind = "grammar" /\ d.sev = "error"
    BY <1>R, ErrorIsDiag DEF Error, Kinds
  <2>4. GLines(Append(diags, d)) = GLines(diags) \cup {n_lines}
    BY <1>R, <2>3, ErrorAppend
  <2>5. GrammarErrorLines' = GrammarErrorLines \cup {Len(VerdictsOf) + 1}
    BY <1>R, <2>2, <2>4, MappingFacts
  <2>6. /\ PendingOf' = "failed" /\ VerdictsOf' = VerdictsOf
        /\ SectionOf(cs') \in Lines!After(SectionOf(cs))
    BY <2>1, <2>2 DEF PendingOf, SkipOf, SkipStates, VerdictsOf
  <2>. QED
    BY <1>0, <2>5, <2>6 DEF Lines!Fail, Lines!Current
<1>. QED
  BY <1>1, <1>2, ScanContentShape


\* A newline after which the next line starts clean, seen at line level.
NewlineView ==
  /\ ~ended /\ ended' = ended
  /\ nl' = nl + 1 /\ PendingOf' = "idle"

\* The end of a line read without error is Finish.
LEMMA RefFinish ==
  ASSUME LinesInv, NewlineView, PendingOf = "reading",
         handled' = handled \cup {nl + 1}, GLines(diags') = GLines(diags),
         SectionOf(cs') \in Lines!After(SectionOf(cs))
  PROVE  Lines!Finish
<1>1. nl \in Nat /\ handled \subseteq 1..nl
  BY RefFacts
<1>2. VerdictsOf' = Append(VerdictsOf, "handled")
  <2>1. Verdicts(handled', nl + 1) =
          Append(Verdicts(handled, nl),
                 IF nl + 1 \in handled' THEN "handled" ELSE "failed")
    BY <1>1, VerdictsAppend
  <2>. QED
    BY <2>1, MappingFacts DEF NewlineView
<1>3. GrammarErrorLines' = GrammarErrorLines
  BY MappingFacts
<1>. QED
  BY <1>2, <1>3 DEF NewlineView, Lines!Finish

\* A line that fails on its newline is FailOnNewline.
LEMMA RefFailOnNewline ==
  ASSUME LinesInv, NewlineView, PendingOf \in {"idle", "reading"},
         handled' = handled, GLines(diags') = GLines(diags) \cup {n_lines},
         SectionOf(cs') \in Lines!After(SectionOf(cs))
  PROVE  Lines!FailOnNewline
<1>1. nl \in Nat /\ handled \subseteq 1..nl /\ Len(VerdictsOf) = nl
      /\ nl = n_lines - 1 /\ n_lines \in Nat
  BY RefFacts
<1>2. VerdictsOf' = Append(VerdictsOf, "failed")
  <2>1. Verdicts(handled', nl + 1) =
          Append(Verdicts(handled, nl),
                 IF nl + 1 \in handled' THEN "handled" ELSE "failed")
    BY <1>1, VerdictsAppend
  <2>2. nl + 1 \notin handled'
    BY <1>1
  <2>. QED
    BY <2>1, <2>2, MappingFacts DEF NewlineView
<1>3. GrammarErrorLines' = GrammarErrorLines \cup {Len(VerdictsOf) + 1}
  BY <1>1, MappingFacts
<1>. QED
  BY <1>2, <1>3 DEF NewlineView, Lines!FailOnNewline, Lines!Current

\* The newline of a skipped line is SkipEnd.
LEMMA RefSkipEnd ==
  ASSUME LinesInv, NewlineView, PendingOf = "failed",
         handled' = handled, diags' = diags, SectionOf(cs') = SectionOf(cs)
  PROVE  Lines!SkipEnd
<1>1. nl \in Nat /\ handled \subseteq 1..nl
  BY RefFacts
<1>2. VerdictsOf' = Append(VerdictsOf, "failed")
  <2>1. Verdicts(handled', nl + 1) =
          Append(Verdicts(handled, nl),
                 IF nl + 1 \in handled' THEN "handled" ELSE "failed")
    BY <1>1, VerdictsAppend
  <2>2. nl + 1 \notin handled'
    BY <1>1
  <2>. QED
    BY <2>1, <2>2, MappingFacts DEF NewlineView
<1>3. GrammarErrorLines' = GrammarErrorLines
  BY MappingFacts
<1>. QED
  BY <1>2, <1>3 DEF NewlineView, Lines!SkipEnd


\* The scanner's error action on a newline byte is FailOnNewline.
LEMMA RefFailOnNewlineAt ==
  ASSUME LinesInv, ~ended, ended' = ended, NEW sec \in Sections,
         FailOnNewline(sec), handled' = handled, cs \notin SkipStates,
         PendingOf \in {"idle", "reading"},
         SectionOf(Resume(SkipOf(sec))) \in Lines!After(SectionOf(cs))
  PROVE  Lines!FailOnNewline
<1>0. /\ diags \in Seq(Diag) /\ n_lines \in Nat \ {0}
      /\ DiagsInv(diags, n_lines, FALSE)
  BY RefFacts
<1> DEFINE d == Error(sec, "grammar")
<1>1. /\ diags' = Append(diags, d) /\ cs' = Resume(SkipOf(sec))
      /\ nl' = nl + 1 /\ ~midLine'
  BY DEF FailOnNewline, SkipToNewline, Newline
<1>2. PendingOf' = "idle"
  BY <1>1 DEF PendingOf, Resume, SkipOf, SkipStates
<1>3. d \in Diag /\ d.line = n_lines /\ d.kind = "grammar" /\ d.sev = "error"
  BY <1>0, ErrorIsDiag DEF Error, Kinds
<1>4. GLines(diags') = GLines(diags) \cup {n_lines}
  BY <1>0, <1>1, <1>3, ErrorAppend
<1>. QED
  BY <1>1, <1>2, <1>4, RefFailOnNewline DEF NewlineView

\* A newline that runs the end-of-line handler is Finish.
LEMMA RefHandledAt ==
  ASSUME LinesInv, ~ended, ended' = ended, NEW next \in LineStartStates,
         Newline(next), cs \in InLineStates, handled' = handled \cup {n_lines},
         NEW w \in Seq(Diag), LineNotes(w, n_lines), diags' = diags \o w,
         SectionOf(next) \in Lines!After(SectionOf(cs))
  PROVE  Lines!Finish
<1>0. /\ diags \in Seq(Diag) /\ nl = n_lines - 1 /\ n_lines \in Nat \ {0}
      /\ PendingOf = "reading"
  BY RefFacts
<1>1. /\ cs' = next /\ nl' = nl + 1 /\ ~midLine'
      /\ PendingOf' = "idle"
      /\ handled' = handled \cup {nl + 1}
  BY <1>0 DEF Newline, PendingOf, LineStartStates, SkipStates
<1>2. GLines(diags') = GLines(diags)
  BY <1>0, NotesKeepErrors
<1>. QED
  BY <1>0, <1>1, <1>2, RefFinish DEF NewlineView

\* A handler that reports nothing appends the empty sequence.
LEMMA NoNotes ==
  ASSUME diags \in Seq(Diag), diags' = diags, NEW n
  PROVE  << >> \in Seq(Diag) /\ LineNotes(<< >>, n) /\ diags' = diags \o << >>
BY ConcatEmptySeq DEF LineNotes

\* The newline byte is Finish, FailOnNewline or SkipEnd.
LEMMA RefScanNewline ==
  ASSUME LinesInv, ScanNewline
  PROVE  Lines!Finish \/ Lines!FailOnNewline \/ Lines!SkipEnd
<1>0. /\ ~ended /\ ended' = ended /\ diags \in Seq(Diag)
      /\ n_lines \in Nat \ {0} /\ nl = n_lines - 1
  BY RefFacts DEF ScanNewline, Scanning
<1>1. CASE EmptyLine
  <2>1. /\ cs \in LineStartStates /\ cs \notin SkipStates /\ PendingOf = "idle"
        /\ StartErrorSection[cs] \in Sections
        /\ SectionOf(Resume(SkipOf(StartErrorSection[cs])))
             \in Lines!After(SectionOf(cs))
    BY <1>1, RefFacts, SectionOfValues
       DEF EmptyLine, LineStartStates, SkipStates, StartErrorSection, Sections,
           Resume, SkipOf, Lines!After
  <2>. QED
    BY <1>0, <1>1, <2>1, RefFailOnNewlineAt DEF EmptyLine
<1>2. CASE SkipNewline
  <2>1. /\ cs \in SkipStates /\ PendingOf = "failed"
        /\ cs' = Resume(cs) /\ nl' = nl + 1 /\ ~midLine'
        /\ diags' = diags /\ handled' = handled
    BY <1>2, RefFacts DEF SkipNewline, SkipToNewline, Newline
  <2>2. PendingOf' = "idle" /\ SectionOf(cs') = SectionOf(cs)
    BY <2>1, SectionOfValues DEF PendingOf, Resume, SkipStates
  <2>. QED
    BY <1>0, <2>1, <2>2, RefSkipEnd DEF NewlineView
<1>3. CASE EndOfFileformatLine
  <2>1. /\ "AfterFileformat" \in LineStartStates /\ cs \in InLineStates
        /\ SectionOf("AfterFileformat") \in Lines!After(SectionOf(cs))
    BY <1>3, SectionOfValues DEF EndOfFileformatLine, LineStartStates,
                                 InLineStates, Lines!After
  <2>2. << >> \in Seq(Diag) /\ LineNotes(<< >>, n_lines) /\ diags' = diags \o << >>
    BY <1>0, <1>3, NoNotes DEF EndOfFileformatLine
  <2>. QED
    BY <1>0, <1>3, <2>1, <2>2, RefHandledAt DEF EndOfFileformatLine
<1>4. CASE EndOfMetaLine
  <2>1. /\ "Meta" \in LineStartStates /\ cs \in InLineStates
        /\ SectionOf("Meta") \in Lines!After(SectionOf(cs))
        /\ Newline("Meta") /\ handled' = handled \cup {n_lines}
    BY <1>4, SectionOfValues DEF EndOfMetaLine, LineStartStates,
                                 InLineStates, Lines!After
  <2>2. \E w \in Seq(Diag) : LineNotes(w, n_lines) /\ diags' = diags \o w
    <3>1. CASE DuplicateId(line)
      <4> DEFINE e == Error("meta", "policy")
      <4>1. diags' = Append(diags, e)
        BY <1>4, <3>1 DEF EndOfMetaLine, HandleMetaLine
      <4>2. e \in Diag /\ e.line = n_lines /\ e.kind = "policy"
        BY <1>0, ErrorIsDiag DEF Error, Sections, Kinds
      <4>3. diags' = diags \o <<e>> /\ <<e>> \in Seq(Diag)
        BY <1>0, <4>1, <4>2, AppendIsConcat
      <4>4. LineNotes(<<e>>, n_lines)
        BY <4>2 DEF LineNotes
      <4>. QED
        BY <4>3, <4>4
    <3>2. CASE ~DuplicateId(line)
      <4>1. diags' = diags
        BY <1>4, <3>2 DEF EndOfMetaLine, HandleMetaLine
      <4>. QED
        BY <1>0, <4>1, NoNotes
    <3>. QED
      BY <3>1, <3>2
  <2>. QED
    BY <1>0, <2>1, <2>2, RefHandledAt
<1>5. CASE EndOfHeaderLine
  <2>1. /\ cs = "HeaderLine" /\ cs \in InLineStates /\ cs \notin SkipStates
        /\ PendingOf = "reading"
        /\ "HeaderDone" \in LineStartStates /\ "header" \in Sections
        /\ SectionOf("HeaderDone") \in Lines!After(SectionOf(cs))
        /\ SectionOf(Resume(SkipOf("header"))) \in Lines!After(SectionOf(cs))
    BY <1>5, RefFacts, SectionOfValues
       DEF EndOfHeaderLine, InLineStates, SkipStates, LineStartStates,
           Sections, Resume, SkipOf, Lines!After
  <2>2. CASE line = Header
    <3>1. Newline("HeaderDone") /\ handled' = handled \cup {n_lines}
          /\ diags' = diags
      BY <1>5, <2>2 DEF EndOfHeaderLine, Header, ShortHeader
    <3>2. << >> \in Seq(Diag) /\ LineNotes(<< >>, n_lines) /\ diags' = diags \o << >>
      BY <1>0, <3>1, NoNotes
    <3>. QED
      BY <1>0, <2>1, <3>1, <3>2, RefHandledAt
  <2>3. CASE line # Header
    <3>1. FailOnNewline("header") /\ handled' = handled
      BY <1>5, <2>3 DEF EndOfHeaderLine
    <3>. QED
      BY <1>0, <2>1, <3>1, RefFailOnNewlineAt
  <2>. QED
    BY <2>2, <2>3
<1>6. CASE EndOfShortBodyLine
  <2>1. /\ cs = "BodyLine" /\ cs \notin SkipStates /\ PendingOf = "reading"
        /\ "body" \in Sections
        /\ SectionOf(Resume(SkipOf("body"))) \in Lines!After(SectionOf(cs))
        /\ FailOnNewline("body") /\ handled' = handled
    BY <1>6, RefFacts, SectionOfValues
       DEF EndOfShortBodyLine, InLineStates, SkipStates, Sections, Resume,
           SkipOf, Lines!After
  <2>. QED
    BY <1>0, <2>1, RefFailOnNewlineAt
<1>. QED
  BY <1>1, <1>2, <1>3, <1>4, <1>5, <1>6 DEF ScanNewline


\* tr592 is Finish.
LEMMA RefEndOfBodyLine ==
  ASSUME LinesInv, EndOfBodyLine PROVE Lines!Finish
<1>0. /\ ~ended /\ ended' = ended /\ cs = "BodyLine" /\ cs \in InLineStates
      /\ Newline("Body") /\ handled' = handled \cup {n_lines}
      /\ "Body" \in LineStartStates
      /\ SectionOf("Body") \in Lines!After(SectionOf(cs))
  BY RefFacts, SectionOfValues
     DEF EndOfBodyLine, Scanning, InLineStates, LineStartStates, Lines!After
<1>1. PICK v \in Seq(Diag) : LineNotes(v, n_lines) /\ diags' = diags \o v
  BY BodyLineNotes
<1>. QED
  BY <1>0, <1>1, RefHandledAt

\* end() is End of VcfLines: the EOF action fires exactly where the
\* line-level contract has end of input fail.
LEMMA RefEnd ==
  ASSUME LinesInv, End PROVE Lines!End
<1>0. /\ ~ended /\ ended' = TRUE /\ cs \in States
      /\ diags \in Seq(Diag) /\ n_lines \in Nat \ {0}
      /\ Len(VerdictsOf) = nl /\ nl = n_lines - 1
      /\ nl' = nl /\ handled' = handled /\ midLine' = midLine
  BY RefFacts DEF End, ghost, LinesInv, TypeInv, TypeOK
<1>V. VerdictsOf' = VerdictsOf
  BY <1>0 DEF VerdictsOf
<1>1. CASE cs \in DOMAIN EofSection
  <2> DEFINE d == Error(EofSection[cs], "grammar")
  <2>1. /\ diags' = Append(diags, d) /\ cs' = SkipOf(EofSection[cs])
        /\ EofSection[cs] \in Sections
    BY <1>1 DEF End, EofSection, Sections
  <2>2. /\ cs \notin SkipStates
        /\ Lines!EofFails
        /\ PendingOf' = "failed"
        /\ SectionOf(cs') \in Lines!After(SectionOf(cs))
    BY <1>1, <2>1, RefFacts, SectionOfValues
       DEF EofSection, SkipStates, SkipOf, PendingOf, InLineStates,
           LineStartStates, Lines!EofFails, Lines!After
  <2>3. DiagsInv(diags, n_lines, FALSE)
    BY <2>2, RefFacts
  <2>4. d \in Diag /\ d.line = n_lines /\ d.kind = "grammar" /\ d.sev = "error"
    BY <1>0, <2>1, ErrorIsDiag DEF Error, Kinds
  <2>5. GrammarErrorLines' = GrammarErrorLines \cup {Len(VerdictsOf) + 1}
    <3>1. GLines(Append(diags, d)) = GLines(diags) \cup {n_lines}
      BY <1>0, <2>3, <2>4, ErrorAppend
    <3>. QED
      BY <1>0, <2>1, <3>1, MappingFacts
  <2>. QED
    BY <1>0, <1>V, <2>2, <2>5 DEF Lines!End, Lines!Current
<1>2. CASE cs \notin DOMAIN EofSection
  <2>1. cs' = cs /\ diags' = diags
    BY <1>2 DEF End
  <2>2. ~Lines!EofFails
    BY <1>0, <1>2, RefFacts, SectionOfValues
       DEF EofSection, States, SkipStates, LineStartStates, InLineStates,
           Lines!EofFails
  <2>3. PendingOf' = PendingOf /\ GrammarErrorLines' = GrammarErrorLines
    BY <1>0, <2>1 DEF PendingOf, GrammarErrorLines
  <2>. QED
    BY <1>0, <1>V, <2>1, <2>2, <2>3 DEF Lines!End
<1>. QED
  BY <1>1, <1>2

\* Every step of the scanner is a step of VcfLines or a stutter of the
\* line-level view.
LEMMA RefStep == LinesInv /\ [Next]_vars => [Lines!Next]_Lines!vars
<1> SUFFICES ASSUME LinesInv, [Next]_vars PROVE [Lines!Next]_Lines!vars
  OBVIOUS
<1>1. CASE Parse \/ ParseReturn \/ BodyLineOverflow \/ Stopped \/ UNCHANGED vars
  <2>1. /\ cs' = cs /\ midLine' = midLine /\ nl' = nl /\ handled' = handled
        /\ diags' = diags /\ ended' = ended
    BY <1>1 DEF Parse, ParseReturn, BodyLineOverflow, Stopped, vars, parser,
                ghost
  <2>. QED
    BY <2>1, RefStutter
<1>2. CASE ScanContent
  BY <1>2, RefScanContent DEF Lines!Next
<1>3. CASE ScanNewline
  BY <1>3, RefScanNewline DEF Lines!Next
<1>4. CASE EndOfBodyLine
  BY <1>4, RefEndOfBodyLine DEF Lines!Next
<1>5. CASE End
  BY <1>5, RefEnd DEF Lines!Next
<1>. QED
  BY <1>1, <1>2, <1>3, <1>4, <1>5 DEF Next

\* LinesRefined: the scanner implements the line-level contract VcfLines,
\* for all bounds and contents.  Under the mapping, every consumed line
\* has one verdict, handled exactly when its end-of-line handler ran, the
\* errors are the lines of the grammar errors, the sections are entered
\* in order, and end() fails exactly on an unfinished line or a file
\* that has not reached its body.
THEOREM LinesRefinedHolds == Spec => LinesRefined
<1>1. Init => LinesInv /\ Lines!Init
  BY LinesInvInit, RefInit
<1>2. LinesInv /\ [Next]_vars => LinesInv'
  BY LinesInvStep
<1>3. LinesInv /\ [Next]_vars => [Lines!Next]_Lines!vars
  BY RefStep
<1>. QED
  BY <1>1, <1>2, <1>3, PTL DEF Spec, LinesRefined, Lines!Spec


=============================================================================
