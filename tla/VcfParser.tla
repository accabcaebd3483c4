----------------------------- MODULE VcfParser -----------------------------
(***************************************************************************)
(* The VCF v4.1 validator of cpp/src/bioformats/vcf/validator_detail.hpp:  *)
(* the Ragel-generated scanner (Parser::parse_buffer), its entry points    *)
(* parse(), end() and is_valid(), its error-recovery protocol (report,     *)
(* hold the offending byte with p--, skip to the next newline) and the     *)
(* semantic checks of optional_check_body_entry().                         *)
(*                                                                         *)
(* The input is abstracted to lines.  A line is a content token (the bytes *)
(* before its newline, classified by how the scanner reacts to them) and   *)
(* a newline byte NL, fed separately so that a chunk boundary may fall     *)
(* between them and so that an error raised ON the newline (a line that   *)
(* ends too early) is told apart from an error inside the line.  The 626   *)
(* Ragel states are grouped into the states below; within a group every    *)
(* state reacts in the same way to the abstract bytes.                     *)
(***************************************************************************)
EXTENDS Naturals, Sequences, SequencesExt, FiniteSets

CONSTANTS
  Chroms,     \* chromosome names used in CHROM columns and contig IDs
  MaxPos,     \* POS values are 1..MaxPos
  IntMax,     \* largest value std::stoi can return (INT_MAX, scaled down)
  Genotypes,  \* allele counts of the samples of a body line, one per sample
  MaxLines,   \* bound: newline bytes the caller feeds
  MaxCalls    \* bound: parse() calls the caller makes

ASSUME ChromsAssumption == Chroms # {}
ASSUME PosAssumption == MaxPos \in Nat \ {0} /\ IntMax \in Nat \ {0}
\* boost::split always yields at least one allele, so every count is >= 1.
ASSUME GenotypesAssumption == Genotypes \subseteq Seq(Nat \ {0})
ASSUME BoundsAssumption == MaxLines \in Nat /\ MaxCalls \in Nat

Positions == 1..MaxPos

(***************************************************************************)
(* Line contents.  "short" lines are valid prefixes that end too early     *)
(* (the error fires on the newline byte); "bad" lines fail inside the      *)
(* line after a valid first byte.  A body line carries what the checks     *)
(* read: CHROM, POS, the allele count of each sample, and whether the      *)
(* parse policy's handle_body_line accepts the assembled record.           *)
(***************************************************************************)
FF          == [type |-> "fileformat"]   \* ##fileformat=VCFv4.1
BadMeta     == [type |-> "badmeta"]      \* ##INFO=<ID=DP,Number=x,...>
Header      == [type |-> "header"]       \* #CHROM POS ID REF ALT QUAL FILTER INFO
ShortHeader == [type |-> "shortheader"]  \* #CHROM POS
BadBody     == [type |-> "badbody"]      \* 1 x . A C . . .
ShortBody   == [type |-> "shortbody"]    \* 1 100 .
Contig(c)   == [type |-> "contig", chrom |-> c]   \* ##contig=<ID=c>
BodyLines   == [type: {"body"}, chrom: Chroms, pos: Positions,
                gt: Genotypes, ok: BOOLEAN]
Contents    == {FF, BadMeta, Header, ShortHeader, BadBody, ShortBody}
                 \cup {Contig(c) : c \in Chroms} \cup BodyLines
NoLine      == [type |-> "none"]

\* Contents whose first byte is '#': the body states reject them at once.
HashLines   == {FF, BadMeta, Header, ShortHeader} \cup {Contig(c) : c \in Chroms}
MetaLines   == {FF} \cup {Contig(c) : c \in Chroms}

(***************************************************************************)
(* Scanner states (cs), grouped:                                           *)
(*   Start 1, FileformatLine 2-15, AfterFileformat 16, Meta 20,            *)
(*   MetaLine 17-19 and 21-353, HeaderLine 354-399, HeaderDone 623,        *)
(*   Body 624, BodyLine 400-422 and 423-620, MetaSkip 621, BodySkip 622.   *)
(***************************************************************************)
LineStartStates == {"Start", "AfterFileformat", "Meta", "HeaderDone", "Body"}
InLineStates    == {"FileformatLine", "MetaLine", "HeaderLine", "BodyLine"}
SkipStates      == {"MetaSkip", "BodySkip"}
States          == LineStartStates \cup InLineStates \cup SkipStates

Sections == {"fileformat", "meta", "header", "body"}

\* The error action a byte that cannot start a line triggers in each state.
StartErrorSection == [Start |-> "fileformat", AfterFileformat |-> "fileformat",
                      Meta |-> "meta", HeaderDone |-> "header", Body |-> "body"]

\* Seeded fault: end() in st623, after a header and before any body line,
\* reported as a header error.
EofSectionWithHeaderDone ==
  [Start |-> "fileformat", FileformatLine |-> "fileformat",
   AfterFileformat |-> "fileformat", Meta |-> "meta", MetaLine |-> "meta",
   HeaderLine |-> "header", HeaderDone |-> "header", BodyLine |-> "body"]

\* The EOF action of each non-final state (the switch after _test_eof).
EofSection == [Start |-> "fileformat", FileformatLine |-> "fileformat",
               AfterFileformat |-> "fileformat", Meta |-> "meta",
               MetaLine |-> "meta", HeaderLine |-> "header", BodyLine |-> "body"]

\* The error actions of the fileformat and meta sections jump to st621,
\* those of the header and body sections to st622.
SkipOf(sec) == IF sec \in {"fileformat", "meta"} THEN "MetaSkip" ELSE "BodySkip"

\* Seeded fault: a skip state that always resumes the meta section.
ResumeAlwaysMeta(skip) == "Meta"

\* st621 returns to the meta section (st20), st622 to the body (st624).
Resume(skip) == IF skip = "MetaSkip" THEN "Meta" ELSE "Body"

Record == [chrom: Chroms, pos: Positions]
Kinds  == {"grammar", "policy", "ploidy", "unsorted", "contig"}
Diag   == [line: Nat, sev: {"error", "warning"}, sec: Sections,
           kind: Kinds, about: SUBSET Chroms]

VARIABLES
  cs,                   \* the Ragel state
  line,                 \* the parse policy's accumulator for the current line
  n_lines,              \* ParsingState line counter (1-based)
  records,              \* ParsingState::records: records of this parse() call
  contigs,              \* IDs of the contig entries of source->meta_entries
  bad_defined_contigs,  \* chromosomes already warned about
  diags,                \* what the error policy has reported, in order
  inCall,               \* a parse() call is running
  ended,                \* end() has run
  crashed,              \* an exception escaped parse()
  calls,                \* parse() calls made so far
  \* history, not program state:
  nl,                   \* newline bytes consumed
  midLine,              \* the content of the current line has been fed
  handled,              \* lines whose end-of-line handler ran
  history               \* every record appended to records, never cleared

parser == <<cs, line, n_lines, records, contigs, bad_defined_contigs, diags>>
ghost  == <<nl, midLine, handled, history>>
vars   == <<parser, inCall, ended, crashed, calls, ghost>>

Init ==
  /\ cs = "Start"
  /\ line = NoLine
  /\ n_lines = 1
  /\ records = <<>>
  /\ contigs = {}
  /\ bad_defined_contigs = {}
  /\ diags = <<>>
  /\ inCall = FALSE
  /\ ended = FALSE
  /\ crashed = FALSE
  /\ calls = 0
  /\ nl = 0
  /\ midLine = FALSE
  /\ handled = {}
  /\ history = <<>>

-----------------------------------------------------------------------------
(* Building blocks of the scanner's actions.                               *)

Error(sec, kind) ==
  [line |-> n_lines, sev |-> "error", sec |-> sec, kind |-> kind, about |-> {}]

Warning(kind, about) ==
  [line |-> n_lines, sev |-> "warning", sec |-> "body", kind |-> kind,
   about |-> about]

\* Seeded fault: a newline counted twice.
NewlineCountedTwice(next) ==
  /\ cs' = next
  /\ line' = NoLine
  /\ n_lines' = n_lines + 2
  /\ nl' = nl + 1
  /\ midLine' = FALSE

\* Seeded fault: a skip state that swallows the newline without counting it.
SkipWithoutCount(skip) ==
  /\ cs' = Resume(skip)
  /\ line' = NoLine
  /\ nl' = nl + 1
  /\ midLine' = FALSE
  /\ UNCHANGED n_lines

\* The newline action (++n_lines, n_columns = 1) followed by the jump to
\* the state that starts the next line.
Newline(next) ==
  /\ cs' = next
  /\ line' = NoLine
  /\ n_lines' = n_lines + 1
  /\ nl' = nl + 1
  /\ midLine' = FALSE

\* A skip state consuming the newline: st621/st622 on '\n'.
SkipToNewline(skip) == Newline(Resume(skip))

\* An error action on a content byte: report, p--, goto the skip state,
\* which swallows the rest of the line.
FailInLine(sec) ==
  /\ diags' = Append(diags, Error(sec, "grammar"))
  /\ cs' = SkipOf(sec)
  /\ line' = NoLine
  /\ midLine' = TRUE
  /\ UNCHANGED <<n_lines, nl>>

\* An error action on the newline byte: report, p-- holds the newline, and
\* the skip state consumes it at once.
FailOnNewline(sec) ==
  /\ diags' = Append(diags, Error(sec, "grammar"))
  /\ SkipToNewline(SkipOf(sec))

\* The first bytes of a line that the current state accepts.
Accumulate(next, t) ==
  /\ cs' = next
  /\ line' = t
  /\ midLine' = TRUE
  /\ UNCHANGED <<n_lines, nl, diags>>

Scanning == inCall /\ ~crashed

-----------------------------------------------------------------------------
(***************************************************************************)
(* parse(text): clear_records(), then parse_buffer over the chunk.  The    *)
(* loop over the chunk is the Scan actions below, one abstract byte per    *)
(* step; ParseReturn is the loop reaching pe with eof = nullptr, which     *)
(* leaves cs as it is for the next call.                                   *)
(***************************************************************************)
Parse ==
  /\ ~inCall /\ ~ended /\ ~crashed
  /\ calls < MaxCalls
  /\ inCall' = TRUE
  /\ calls' = calls + 1
  /\ records' = <<>>
  /\ UNCHANGED <<cs, line, n_lines, contigs, bad_defined_contigs, diags>>
  /\ UNCHANGED <<ended, crashed, ghost>>

ParseReturn ==
  /\ Scanning
  /\ inCall' = FALSE
  /\ UNCHANGED <<parser, ended, crashed, calls, ghost>>

(***************************************************************************)
(* The content of a line, in each group of line-start states.              *)
(***************************************************************************)
\* st1: only "##fileformat=" and a version string; tr0 on anything else.
ScanFileformat(t) ==
  /\ cs = "Start"
  /\ \/ t = FF /\ Accumulate("FileformatLine", t)
     \/ t # FF /\ FailInLine("fileformat")

\* st16 and st20: '#' then '#' (a meta entry) or 'C' (the header line).
\* A line not starting with '#' is a fileformat error on line 2 (tr18)
\* and a meta error later (tr20).
ScanMeta(t) ==
  /\ cs \in {"AfterFileformat", "Meta"}
  /\ \/ t \in MetaLines /\ Accumulate("MetaLine", t)
     \/ t \in {Header, ShortHeader} /\ Accumulate("HeaderLine", t)
     \/ t = BadMeta /\ FailInLine("meta")
     \/ t \notin HashLines /\ FailInLine(StartErrorSection[cs])

\* st623 and st624: a CHROM column starts with '<' or an alphanumeric.  A
\* first byte that does not is a header error on the first body line (tr808)
\* and a body error on later ones (tr529).
ScanBody(t) ==
  /\ cs \in {"HeaderDone", "Body"}
  /\ \/ t \in BodyLines \cup {ShortBody} /\ Accumulate("BodyLine", t)
     \/ t = BadBody /\ FailInLine("body")
     \/ t \in HashLines /\ FailInLine(StartErrorSection[cs])

ScanContent ==
  /\ Scanning
  /\ ~midLine
  /\ \E t \in Contents : ScanFileformat(t) \/ ScanMeta(t) \/ ScanBody(t)
  /\ UNCHANGED <<records, contigs, bad_defined_contigs>>
  /\ UNCHANGED <<inCall, ended, crashed, calls, handled, history>>

(***************************************************************************)
(* The newline byte.                                                       *)
(***************************************************************************)
\* A newline where a line should start: an empty line.
EmptyLine ==
  /\ cs \in LineStartStates
  /\ FailOnNewline(StartErrorSection[cs])
  /\ UNCHANGED <<contigs, handled>>

\* st621 / st622 on '\n'.
SkipNewline ==
  /\ cs \in SkipStates
  /\ SkipToNewline(cs)
  /\ UNCHANGED <<contigs, diags, handled>>

\* tr16: handle_fileformat, then the newline action.
EndOfFileformatLine ==
  /\ cs = "FileformatLine"
  /\ Newline("AfterFileformat")
  /\ handled' = handled \cup {n_lines}
  /\ UNCHANGED <<contigs, diags>>

\* The parse policy's handle_meta_line appends the entry to
\* source->meta_entries; a structured entry whose ID is already declared
\* in its category throws ParsingError, reported as a meta error (tr35).
DuplicateId(t) == t.type = "contig" /\ t.chrom \in contigs

HandleMetaLine(t) ==
  \/ /\ DuplicateId(t)
     /\ diags' = Append(diags, Error("meta", "policy"))
     /\ UNCHANGED contigs
  \/ /\ ~DuplicateId(t)
     /\ contigs' = contigs \cup {c \in Chroms : t = Contig(c)}
     /\ UNCHANGED diags

EndOfMetaLine ==
  /\ cs = "MetaLine"
  /\ HandleMetaLine(line)
  /\ Newline("Meta")
  /\ handled' = handled \cup {n_lines}

\* tr516/tr527: handle_header_line, newline, st623; a header that ends
\* before INFO fails on the newline (tr517).
EndOfHeaderLine ==
  /\ cs = "HeaderLine"
  /\ UNCHANGED contigs
  /\ \/ /\ line = Header
        /\ Newline("HeaderDone")
        /\ handled' = handled \cup {n_lines}
        /\ UNCHANGED diags
     \/ /\ line = ShortHeader
        /\ FailOnNewline("header")
        /\ UNCHANGED handled

\* A body line that ends before its mandatory columns fails on the newline.
EndOfShortBodyLine ==
  /\ cs = "BodyLine"
  /\ line = ShortBody
  /\ FailOnNewline("body")
  /\ UNCHANGED <<contigs, handled>>

ScanNewline ==
  /\ Scanning
  /\ nl < MaxLines
  /\ \/ EmptyLine
     \/ SkipNewline
     \/ EndOfFileformatLine
     \/ EndOfMetaLine
     \/ EndOfHeaderLine
     \/ EndOfShortBodyLine
  /\ UNCHANGED <<records, bad_defined_contigs, inCall, ended, crashed, calls, history>>

(***************************************************************************)
(* optional_check_body_entry(): three checks, each of which throws a       *)
(* ParsingWarning, so the first warning ends the function.                 *)
(***************************************************************************)
\* Seeded fault: the comparison loop starts one sample too late.
PloidyMismatchFromThird(gt) == \E i \in 3..Len(gt) : gt[i] # gt[1]

\* Every sample must have as many alleles as the first one.
PloidyMismatch(gt) == \E i \in 2..Len(gt) : gt[i] # gt[1]

\* std::stoi(POS) is evaluated only when records is not empty, and throws
\* std::out_of_range above INT_MAX.
StoiOverflows(r) == records # <<>> /\ r.pos > IntMax

\* Seeded fault: the chromosome comparison is left out.
UnsortedAnyChrom(r) == records # <<>> /\ Last(records).pos > r.pos

\* The previous record of this parse() call, same chromosome, greater POS.
Unsorted(r) ==
  /\ records # <<>>
  /\ Last(records).chrom = r.chrom
  /\ Last(records).pos > r.pos

ContigMissing(r) ==
  /\ r.chrom \notin bad_defined_contigs
  /\ r.chrom \notin contigs

\* The warning the function throws, if any.
CheckBodyEntry(r) ==
  IF PloidyMismatch(r.gt) THEN <<Warning("ploidy", {})>>
  ELSE IF Unsorted(r) THEN <<Warning("unsorted", {})>>
  ELSE IF ContigMissing(r) THEN <<Warning("contig", {r.chrom})>>
  ELSE <<>>

\* Seeded fault: the warned chromosome is never remembered.
AddBadDefinedContigForgotten(r) == bad_defined_contigs

\* add_bad_defined_contig, called just before the contig warning is thrown.
AddBadDefinedContig(r) ==
  IF ~PloidyMismatch(r.gt) /\ ~Unsorted(r) /\ ContigMissing(r)
  THEN bad_defined_contigs \cup {r.chrom}
  ELSE bad_defined_contigs

RecordOf(r) == [chrom |-> r.chrom, pos |-> r.pos]

\* tr592 (action 166 then the newline action): the checks, then the parse
\* policy's handle_body_line, which appends the record or throws a
\* ParsingError reported as a body error.
EndOfBodyLine ==
  /\ Scanning
  /\ nl < MaxLines
  /\ cs = "BodyLine"
  /\ line \in BodyLines
  /\ ~(~PloidyMismatch(line.gt) /\ StoiOverflows(line))
  /\ bad_defined_contigs' = AddBadDefinedContig(line)
  /\ \/ /\ line.ok
        /\ records' = Append(records, RecordOf(line))
        /\ history' = Append(history, RecordOf(line))
        /\ diags' = diags \o CheckBodyEntry(line)
     \/ /\ ~line.ok
        /\ diags' = (diags \o CheckBodyEntry(line))
                      \o <<Error("body", "policy")>>
        /\ UNCHANGED <<records, history>>
  /\ Newline("Body")
  /\ handled' = handled \cup {n_lines}
  /\ UNCHANGED <<contigs, inCall, ended, crashed, calls>>

\* The std::out_of_range of std::stoi is not a ParsingWarning: it leaves
\* optional_check_body_entry, the action and parse() itself.
BodyLineOverflow ==
  /\ Scanning
  /\ nl < MaxLines
  /\ cs = "BodyLine"
  /\ line \in BodyLines
  /\ ~PloidyMismatch(line.gt) /\ StoiOverflows(line)
  /\ crashed' = TRUE
  /\ UNCHANGED <<parser, inCall, ended, calls, ghost>>

(***************************************************************************)
(* end(): clear_records(), then parse_buffer with p = pe = eof, which runs *)
(* the EOF action of the current state: an error, p--, goto the skip state *)
(* (which immediately meets pe again).  Final and skip states have none.   *)
(***************************************************************************)
End ==
  /\ ~inCall /\ ~ended /\ ~crashed
  /\ ended' = TRUE
  /\ records' = <<>>
  /\ \/ /\ cs \in DOMAIN EofSection
        /\ diags' = Append(diags, Error(EofSection[cs], "grammar"))
        /\ cs' = SkipOf(EofSection[cs])
     \/ /\ cs \notin DOMAIN EofSection
        /\ UNCHANGED <<cs, diags>>
  /\ UNCHANGED <<line, n_lines, contigs, bad_defined_contigs>>
  /\ UNCHANGED <<inCall, crashed, calls, ghost>>

\* is_valid(): cs >= vcf_first_final (623).
IsValid == cs \in {"HeaderDone", "Body"}

\* After end() or an escaped exception the caller stops.
Stopped == (ended \/ crashed) /\ UNCHANGED vars

Next ==
  \/ Parse \/ ParseReturn
  \/ ScanContent \/ ScanNewline
  \/ EndOfBodyLine \/ BodyLineOverflow
  \/ End \/ Stopped

Spec == Init /\ [][Next]_vars

-----------------------------------------------------------------------------
(***************************************************************************)
(* Properties.                                                             *)
(***************************************************************************)
TypeOK ==
  /\ cs \in States
  /\ line \in Contents \cup {NoLine}
  /\ n_lines \in 1..MaxLines + 1
  /\ records \in Seq(Record)
  /\ contigs \subseteq Chroms
  /\ bad_defined_contigs \subseteq Chroms
  /\ diags \in Seq(Diag)
  /\ inCall \in BOOLEAN
  /\ ended \in BOOLEAN
  /\ crashed \in BOOLEAN
  /\ calls \in 0..MaxCalls
  /\ nl \in 0..MaxLines
  /\ midLine \in BOOLEAN
  /\ handled \subseteq 1..MaxLines
  /\ history \in Seq(Record)

\* Resynchronisation (spec P2 and the line_number rule of section 3): every
\* line the scanner has consumed up to its newline, numbered as the error
\* policy numbers it, either reached its end-of-line handler or got a
\* grammar error, and no line gets two errors.  It rests on the p-- of
\* every error action, on the skip states counting the newline they
\* swallow, and on each error action leaving the section's state.
LineVerdicts ==
  /\ \A k \in 1..nl :
       \/ k \in handled
       \/ \E i \in DOMAIN diags : diags[i].line = k /\ diags[i].kind = "grammar"
  /\ \A i, j \in DOMAIN diags :
       (i < j /\ diags[i].sev = "error" /\ diags[j].sev = "error")
         => diags[i].line # diags[j].line

\* Source invariant of section 3: once a body record has been accepted, no
\* meta entry is added.  Broken if any error path of the body section led
\* back to the meta section.
MetaFrozen == [][history # <<>> => contigs' = contigs]_vars

\* The missing-contig warning of optional_check_body_entry is reported at
\* most once per chromosome (spec S6, bad_defined_contigs).
ContigWarnedOnce ==
  \A i, j \in DOMAIN diags :
    (i # j /\ diags[i].kind = "contig" /\ diags[j].kind = "contig")
      => diags[i].about # diags[j].about

\* A body line whose samples do not all have the same number of alleles
\* gets the ploidy warning on that line (spec P6).
BodyLineEnds == cs = "BodyLine" /\ line \in BodyLines /\ cs' = "Body"

PloidyWarned ==
  [][BodyLineEnds /\ Cardinality(Range(line.gt)) > 1
       => \E i \in DOMAIN diags' : diags'[i] = Warning("ploidy", {})]_vars

\* The position-order warning is never raised without cause: when a line
\* gets it, an earlier record of the file lies on the same chromosome at a
\* greater position.
SortWarningSound ==
  [][\A i \in (DOMAIN diags') \ (DOMAIN diags) :
       diags'[i].kind = "unsorted"
         => \E j \in DOMAIN history :
              history[j].chrom = line.chrom /\ history[j].pos > line.pos]_vars

(***************************************************************************)
(* What the spec says and the code does not do (checked by violation runs) *)
(***************************************************************************)
\* The record before this one in the file, if any.
PreviousRecord == Last(history)

\* Spec P1 (diagnostics do not depend on how the bytes are split among
\* parse() calls) applied to the position-order check: a body line whose
\* samples agree and whose previous record in the file is on the same
\* chromosome at a greater position gets the warning, whatever the chunking.
UnsortedWarnedAcrossChunks ==
  [][(/\ BodyLineEnds
      /\ Cardinality(Range(line.gt)) <= 1
      /\ history # <<>>
      /\ PreviousRecord.chrom = line.chrom
      /\ PreviousRecord.pos > line.pos)
       => \E i \in DOMAIN diags' : diags'[i] = Warning("unsorted", {})]_vars

\* Spec S6: a chromosome used by an accepted body record and declared by
\* no contig entry has been warned about.
ContigWarnedAtFirstUse ==
  \A j \in DOMAIN history :
    history[j].chrom \notin contigs
      => \E i \in DOMAIN diags :
           diags[i].kind = "contig" /\ history[j].chrom \in diags[i].about

\* Spec section 9 and 7: no exception crosses the byte loop; every problem
\* is reported through the error policy and parsing continues.
NoEscapedException == ~crashed

\* Spec section 4.1: is_accepting() is true iff the whole input conforms to
\* the grammar, so after end() a valid parser has reported no grammar error.
ValidMeansNoErrors ==
  (ended /\ IsValid)
    => \A i \in DOMAIN diags : diags[i].kind # "grammar"


-----------------------------------------------------------------------------
(***************************************************************************)
(* Refinement of the line-level specification VcfLines.  The section is   *)
(* read off the group of cs; the current line is being skipped in st621   *)
(* and st622, in progress when its content has been fed; a consumed line  *)
(* failed unless its end-of-line handler ran; the errors are the lines of *)
(* the grammar errors.  Parse, ParseReturn and the escaped exception are  *)
(* stutters at this level.                                                 *)
(***************************************************************************)
SectionOf(s) ==
  CASE s \in {"Start", "FileformatLine"} -> "fileformat"
    [] s \in {"AfterFileformat", "Meta", "MetaLine", "HeaderLine",
              "MetaSkip"} -> "meta"
    [] s \in {"HeaderDone", "Body", "BodyLine", "BodySkip"} -> "body"

PendingOf ==
  IF cs \in SkipStates THEN "failed"
  ELSE IF midLine THEN "reading" ELSE "idle"

VerdictsOf == [k \in 1..nl |-> IF k \in handled THEN "handled" ELSE "failed"]

GrammarErrorLines ==
  {diags[i].line : i \in {j \in DOMAIN diags : diags[j].kind = "grammar"}}

Lines == INSTANCE VcfLines WITH section <- SectionOf(cs), pending <- PendingOf,
                                verdicts <- VerdictsOf,
                                errors <- GrammarErrorLines, ended <- ended

\* The scanner implements the line-level contract: every step of it is a
\* step of VcfLines or leaves the line-level view unchanged, so lines get
\* one verdict each, the sections are never re-entered, and end() fails
\* exactly on an unfinished line or a file without a header (the EOF
\* switch of parse_buffer, the error actions and the skip states).
LinesRefined == Lines!Spec

=============================================================================
