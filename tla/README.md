# TLA+ models of the VCF validator

This directory models the streaming VCF v4.1 validator of
`src/cpp/src/bioformats/vcf/validator_detail.hpp`. It holds the models, the
TLC configurations that check them, and the TLAPS proofs about them.

## The system

The validator is a Ragel-generated byte automaton, `Parser::parse_buffer`
(626 states). Above it sit two policy classes and the semantic checks.

| Part | Code | Role |
|---|---|---|
| Entry points | `parse()` (l. 51-71), `end()` (73-78), `is_valid()` (80-88) | `parse()` clears `records` and scans one chunk; `end()` clears `records` and runs the EOF action of the current state; `is_valid()` is `cs >= 623` |
| Section automaton | st1-st15 (fileformat), st16/st20 + st17-st353 (meta), st354-st399 (header), st623/st624 + st400-st620 (body) | consumes one byte per step, emits token and line events |
| Recovery | error actions `tr0 ... tr808` (l. 104-1409), skip states st621/st622 (14199-14253) | report through `ErrorPolicy`, `p--`, jump to st621 (fileformat/meta) or st622 (header/body); the skip state swallows bytes up to `\n`, counts the line and resumes in st20 or st624 |
| EOF actions | `_test_eof` switch (14880 ff.) | every non-final, non-skip state reports its section error at end of input |
| Body checks | `optional_check_body_entry` (16735-16789), called from `tr592` (9897-9933) | ploidy, then position order against `records->back()` (with `std::stoi`), then contig declaration with `bad_defined_contigs` suppression; the first `ParsingWarning` ends the checks |
| Parse and error policies | `ParsePolicy`, `ErrorPolicy`, `ParsingState` | not in this repository; modelled from spec sections 4.2, 4.4 and 4.5 |
| Legacy scanner | `vcf_validator_detail.hpp` | an older automaton of the same shape (153 states), with its own `parse()`, `end()`, `is_valid()` |
| FASTA access | `src/src/fasta/fasta.cpp` | I/O for normalisation, out of scope (spec section 1) |

All of this runs on one thread. The only nondeterminism is the caller's:
- how the bytes are split among `parse()` calls;
- when `end()` is called;
- what the input is.

## Modules

- **`VcfParser.tla`** models the scanner, its recovery protocol, the entry
  points and the body checks.
  - **Input.** The input is abstracted to lines. A line is a content token
    plus a separate newline byte `NL`. The content tokens are:
    - `FF`, a fileformat line;
    - `Contig(c)`, a meta line that declares contig `c`;
    - `BadMeta`, `BadBody`: lines that fail inside the line;
    - `ShortHeader`, `ShortBody`: lines that are valid prefixes but end too
      early, so the error fires on the newline;
    - `Header`;
    - body lines `[chrom, pos, gt, ok]`. `gt` is the allele count of each
      sample. `ok` says whether `handle_body_line` accepts the record.

    Because the newline is a separate byte, a chunk boundary can fall between
    a line and its newline, and an error on the newline is told apart from an
    error inside the line.
  - **State.** `cs` is the Ragel state, grouped into 15 classes whose states
    react alike to the abstract bytes; the comment over `LineStartStates` lists
    which Ragel states each class stands for. The other variables are
    `n_lines`, `records`, `bad_defined_contigs`, the declared `contigs`, and
    `diags` (what the error policy reported, in order).
  - **Actions.** `Parse`, `ParseReturn`, `ScanContent` (the first byte of a
    line), `ScanNewline` (a newline in every state class), `EndOfBodyLine`
    (`tr592`), `BodyLineOverflow` (the `std::stoi` exception) and `End`.
    - Each error action is `FailInLine`, an error inside a line, or
      `FailOnNewline`, an error on the newline. Either one reports, holds the
      byte and jumps to the skip state. `FailOnNewline` then also has the skip
      state consume the held newline.
    - `EndOfBodyLine` runs the whole of `tr592`: the checks, then
      `handle_body_line`, then the newline action.
  - **History variables.** `nl`, `midLine`, `handled` and `history` record
    what happened. They are not program state.
- **`MCVcfParser.tla`** is the TLC instance:
  - two model-value chromosomes under symmetry;
  - genotypes `<<2,2>>` (equal ploidy) and `<<2,1>>` (mixed ploidy).
- **`VcfParserProofs.tla`** holds the TLAPS proofs about `VcfParser`.
  **`VcfParserRefinement.tla`** extends it with the proofs of
  `LineVerdicts` and of the refinement `LinesRefined`, for every value of
  the constants. **`VcfParserBodyProofs.tla`** extends it with the proofs
  of the body-check properties `PloidyWarned` and `SortWarningSound`.
- **`VcfLines.tla`** is the abstract specification: what a scanner promises
  at the level of lines (spec 4.1, 4.5). Its state is the current section,
  the state of the current line (`idle`, `reading`, `failed`), the verdict of
  every finished line and the numbers of the lines with an error. Its actions
  are `Begin`, `Fail`, `Finish`, `FailOnNewline`, `SkipEnd` and `End`.
  `VcfParser` implements it (`LinesRefined`, through `INSTANCE VcfLines WITH`
  a mapping from the `cs` classes to sections and to the line state), and so
  does `LegacyVcfScanner`. `VcfLinesProofs.tla` proves its two properties
  for every behaviour.
- **`VcfBodyLine.tla`** models the body section of the scanner byte by byte:
  every transition of the CHROM, POS, ID, REF, ALT, QUAL, FILTER, untyped
  INFO, FORMAT and sample states (st400-st438, st554-st569, st618-st624) as a
  record `[from, on, to, act]`, where `act` lists the token and column events
  in the order the generated code runs them. `Scan` is one iteration of the
  byte loop: a transition, `EndOfLine` (`tr592`), an error action (report,
  `p--`, goto st622), or a step of the skip state. Inputs are whole lines of
  bytes from a small set (`MCVcfBodyLine.tla`); the typed INFO keys and the
  breakends are left out of the alphabet (`AlphabetAssumption`).
- **`VcfMetaLine.tla`** does the same for the meta section: the line starts
  st16/st17/st20, the key st18-st21, the freeform value st22-st24, the
  structured value `<...>` st25-st69, and the ALT entry st70-st100, with the
  token, `handle_meta_key` and `handle_meta_typeid` calls. `EndOfLine` is
  `tr35`/`tr49`: `handle_meta_line` (its `ParsingError` becomes a meta
  error), the newline action and `++n_lines`. The typed entries FILTER,
  FORMAT, INFO, ... (st101-st353) and the header line are left out of the
  input (`ScopeAssumption`). The edges of st16-st100 were compared, one by
  one, with the `if`/`switch` of the generated code.
  `AltLinesAsSpecified` compares the automaton with a reference definition
  of an ALT entry (`IsAltEntry`, with the run of extra attributes as a
  recursive function `ok[k]`), evaluated once over the candidate lines.
- **`LegacyVcfScanner.tla`** models the older scanner of
  `vcf_validator_detail.hpp` byte by byte: all 153 states, the column and
  newline actions, the error actions (goto st148/st149), the skip states, the
  EOF switch and `is_valid()`. Where the generated code chains two or three
  error handlers, the first one's `goto` leaves the action, so only it runs.

The parse policy is not in the repository. Its token events are modelled
from spec 4.2: `begin` clears the token, `char` appends the byte, `end` hands
the token over. Every call the policy receives on a line is recorded, so the
properties can compare what it was handed with the line's bytes.

## Runs

| Run | cfg | Result | What it shows |
|---|---|---|---|
| core | `MCVcfParser.cfg` | pass, ~876k states | see the list below; it also checks that `VcfParser` implements `VcfLines` (`LinesRefined`) |
| sort_across_chunks | `MC_chunks.cfg` | violation | `parse()` clears `records`, so a position decrease across a chunk boundary is not warned (spec P1) |
| contig_masked | `MC_contig.cfg` | violation | a mixed-ploidy record on an undeclared chromosome gets only the ploidy warning; the contig is never reported (spec S6) |
| stoi_escapes | `MC_stoi.cfg` | violation | `std::stoi` throws `out_of_range` out of `parse()` for a POS above `INT_MAX` (a bug) |
| valid_after_error | `MC_valid.cfg` | violation | a malformed header line recovers into st624, so `is_valid()` holds after a reported error (spec 4.1) |
| body_columns | `MCVcfBodyLine.cfg` | pass | three body lines from six shapes, `end()` at any byte: `ErrorColumn`, `BodyLineVerdicts`, `LineResumes` |
| neg_position | `MC_negpos.cfg` | violation | POS `-5` is accepted and reaches the policy as `5` (spec 3: POS is a non-negative integer) |
| legacy_scanner | `MCLegacyVcfScanner.cfg` | pass | the legacy scanner over whole files of up to four lines: `OneErrorPerLine`, `AcceptedColumns`, `LineResumes`, and it refines `VcfLines` |
| meta_lines | `MCVcfMetaLine.cfg` | pass, ~49k states | three meta lines from eight shapes, `end()` at any byte: `MetaLineVerdicts`, `AltLinesAsSpecified` |
| meta_newline_in_value | `MCVcfMetaLineOpenValue.cfg` | violation | a `<...>` value left open swallows its newline: st33 takes it as a value byte, so the line is not finished and `n_lines` is not advanced (a bug) |
| meta_freeform_value | `MCVcfMetaLineFreeform.cfg` | violation | `##x=!x` hands the value `x`: st22 takes the first value byte with no action, and `##k=v` is rejected (a bug) |
| meta_alt_id | `MCVcfMetaLineAltId.cfg` | violation | `<ID=_x>` hands the id `x`, the same as `<ID=x>` (a bug; spec P5 needs distinct ids) |

The core run checks these properties:
- **`TypeOK`**: every state is well typed.
- **`LineVerdicts`**: every consumed line either reached its end-of-line
  handler or got a grammar error numbered with it, and no two errors carry the
  same line. This is resynchronisation, spec P2.
- **`ContigWarnedOnce`**: the missing-contig warning is given at most once per
  chromosome.
- **`MetaFrozen`**: no contig is added after a body record is accepted.
- **`PloidyWarned`**: a mixed-ploidy line is warned.
- **`SortWarningSound`**: the order warning is never given without an earlier
  record on the same chromosome at a greater position. It checks only that a warning is never given wrongly. A missing warning
  is out of its reach: the one `parse()` clearing `records` causes is shown
  by `sort_across_chunks`, and the comparison with the last record instead of
  the maximum (spec 4.3) is not checked.

Each property of the core run has a mutant of the code that TLC catches. The
mutants are the `Seeded fault` operators in `VcfParser.tla`:
- a newline counted twice;
- a skip state that does not count the newline;
- a skip state that always resumes in the meta section;
- a suppression set that never grows;
- a ploidy loop that starts one sample late;
- an order check that ignores the chromosome.

The other passing runs check:
- **`BodyLineVerdicts`** / **`MetaLineVerdicts`**: `n_lines` equals the first
  line number plus the newline bytes consumed, and every finished line has
  exactly one verdict (one grammar error, or one pass through its
  end-of-line action). These are the byte-level forms of `LineVerdicts`.
- **`ErrorColumn`**: a body error carries the column of the byte that caused
  it (`n_columns` counted by the column actions).
- **`AltLinesAsSpecified`**: a line starting `##ALT=` is handed over exactly
  when it is a well-formed ALT entry of the reference grammar.
- **`OneErrorPerLine`**, **`AcceptedColumns`** (legacy): despite the chained
  error handlers a line gets at most one error, and an accepted body line has
  8 or at least 10 columns.
- **`LineResumes`** (liveness, `VcfBodyLine` and `LegacyVcfScanner`): once
  a line is started, the scanner gets back to a line start or `end()` is
  called. It is not claimed for `VcfMetaLine`, because it is false there. A
  meta line that leaves a `<` value open never gets back to a line start:
  st33 takes its newline as a value byte. The `meta_newline_in_value`
  violation run shows this.
- **`LinesRefined`** (core and legacy runs): the scanner implements
  `VcfLines` under the refinement mapping.

Every property of every passing run has a mutant (listed in `PROJECT.json`):
an operator defined just before the code definition it replaces, changed the
way a plausible bug would change it, that TLC must catch.

**Bounds.** The core run uses `MaxLines = 5`, `MaxCalls = 2`, `MaxPos = 2`,
`IntMax = 1` and two chromosomes. These bounds are enough to reach:
- fileformat, header and three body or meta lines, so a record can have a
  predecessor on the same chromosome, on another chromosome, or across a
  chunk boundary;
- a record before and after an error line;
- a declared and an undeclared contig;
- every EOF action.

With `IntMax = 1`, a POS of 2 overflows `std::stoi` whenever `records` is
not empty. `BodyLineOverflow` then ends the behaviour: the exception reaches
the caller, which stops. The properties are still checked on every behaviour
that does not overflow, and the order check is still reached, with a first
record at position 2 and a next one at 1. The violation runs use their own,
smaller bounds (see each cfg).

The byte-level runs (`body_columns`, `meta_lines`, `legacy_scanner`) feed
up to three or four whole lines drawn from six to eight shapes, chosen so
that every transition group with a property about it is taken, every error
path fires in the middle of a line and on its newline, and `end()` comes at
every byte. A line shape only has to hit each byte class once: the
automaton's behaviour depends on the class of a byte, not on the byte.

**Fairness.** `VcfParser` and `VcfLines` assume none: the caller drives
everything and may stop feeding at any moment. The body and legacy byte-level modules check
`LineResumes` under `FairSpec == Spec /\ WF_vars(Scan)`: once `parse()` is
called, `parse_buffer` runs its loop until `p == pe`, so a byte that has been
handed over is eventually scanned. Nothing is assumed of `Feed` or `End`. `Stopped` stutters after `end()` or an escaped exception, so
deadlock checking stays on.

## Proofs (checked by `tlapm`)

`VcfParserProofs.tla`:

- **`TypeCorrect`**: `Spec => []TypeOK` for every value of the constants.
  - `TypeOK` alone is not inductive: the bound `n_lines <= MaxLines + 1` needs
    `LineCount`, i.e. `n_lines = nl + 1`. Every step that increments the line
    counter consumes one of the `MaxLines` newline bytes.
  - The inductive invariant is `TypeInv == TypeOK /\ LineCount`.
  - The proof has one case per action. It rests on lemmas for the building
    blocks: `NewlineType`, `AccumulateType`, `FailInLineType`,
    `FailOnNewlineType`, `ErrorIsDiag` and `CheckBodyEntryType`.
- **`MetaFrozenHolds`**: `Spec => MetaFrozen`.
  - The inductive invariant `InBody` says that once `history` is non-empty,
    `cs` is in the body states `{Body, BodyLine, BodySkip}`.
  - Lemma `BodyClosed` shows that every action keeps the scanner in the body
    states: every body error goes to st622, which resumes in st624, and the
    EOF action of a body line goes to st622.
  - `EndOfMetaLine`, the only step that changes `contigs`, needs
    `cs = MetaLine`, so it cannot be taken from a body state.

- **`ContigWarnedOnceHolds`**: `Spec => []ContigWarnedOnce`.
  - The inductive invariant `ContigInv` is `TypeInv` plus two facts: every
    contig warning in `diags` is about a single chromosome, and that
    chromosome is in `bad_defined_contigs` (`WarnedIn`). It also includes the
    property itself (`OnceIn`).
  - Lemma `NonBodyStepDiags`: every step other than `EndOfBodyLine` leaves
    the set alone and appends at most one error.
  - Lemma `CheckBodyEntryContig`: at the end of a body line, either no contig
    warning is appended and the set is unchanged, or one warning about a
    chromosome outside the set is appended and that chromosome is added.
  - Lemmas `ConcatNoContig`, `AppendContig` and `AppendError` carry the two
    facts across `\o` and `Append`.

The proofs rely on these constant assumptions: `MaxPos`, `IntMax`, `MaxLines`
and `MaxCalls` are naturals.

`VcfLinesProofs.tla`:

- **`VerdictsMatchErrorsHolds`**: `Spec => [](TypeOK /\ VerdictsMatchErrors)`
  for the line-level contract. Neither conjunct is inductive alone:
  `VerdictsMatchErrors` needs `errors \subseteq 1..Current` from `TypeOK` to
  know that the line begun after a newline has no error yet. The inductive
  invariant is their conjunction `Inv`. The step proof has one case per
  action, resting on two lemmas: `ErrorStep` (a step that adds the current
  line to `errors`) and `EndLineStep` (a step that appends the verdict `v`,
  with `v = "failed"` exactly when the line has an error).
- **`SectionsInOrderHolds`**: `Spec => [][Rank(section') >= Rank(section)]_vars`,
  from `Inv` and the shape of `After`.

`VcfParserRefinement.tla` (extends `VcfParserProofs`):

- **`LineVerdictsHolds`**: `Spec => []LineVerdicts` for every value of the
  constants and every chunking of the input.
  - `LineVerdicts` is not inductive. A step adds an error on line `n_lines`,
    and it must be known that this line has no error yet. `FailOnNewline`
    appends a "failed" verdict, and it must be known that the line's
    handler did not run.
  - The inductive invariant is `LinesInv == TypeInv /\ SyncInv`. `SyncInv`
    has five conjuncts:
    - a running `parse()` call means `end()` has not run;
    - `midLine` agrees with the group of `cs` (set in the in-line states,
      clear at the line starts);
    - `DiagsInv`: every diagnostic is about a line up to `n_lines`; every
      grammar diagnostic is an error; an error on the current line is a
      grammar error and exists only in the skip states st621/st622, and
      there it always exists; no two errors share a line;
    - `VerdictInv`: `handled \subseteq 1..nl`, and a finished line is
      handled exactly when no grammar error names it.
  - TLC checked `LinesInv` as an invariant of the core instance (876k states)
    before the proof.
  - Most steps fall into four kinds, one lemma each:
    - `ErrorInLineStep`: an error inside a line, or the EOF error;
    - `FailOnNewlineStep`: an error on the newline byte;
    - `SkipNewlineStep`: the newline of a skipped line;
    - `HandledEnd`: a handler ran and appended notes (`LineNotes`: no
      grammar error, at most one error, all about the current line).
  - All four rest on `Extend`, which says what appending diagnostics about
    line `n` keeps. The per-action lemmas `ScanContentSync`,
    `ScanNewlineSync`, `EndOfBodyLineSync` and `EndSync` combine them into
    `LinesInvStep`.
- **`LinesRefinedHolds`**: `Spec => LinesRefined`, i.e. the scanner
  implements `VcfLines` under the mapping stated in `VcfParser`.
  - `RefInit` maps the initial state.
  - `RefStep` proves `LinesInv /\ [Next]_vars => [Lines!Next]_Lines!vars`,
    one case per action:
    - `Parse`, `ParseReturn`, the escaped `std::out_of_range` and `Stopped`
      are stutters;
    - a content byte is `Begin` or `Fail` (`RefScanContent`);
    - a newline byte is `Finish`, `FailOnNewline` or `SkipEnd`
      (`RefScanNewline`);
    - tr592 is `Finish` (`RefEndOfBodyLine`);
    - `end()` is `End`, and the EOF switch fires exactly when `EofFails`
      holds (`RefEnd`).
  - Lemma `VerdictsAppend` shows that a newline appends exactly one verdict
    to the mapped sequence. `NotesKeepErrors` shows that handler notes leave
    the grammar-error lines unchanged.

`VcfParserBodyProofs.tla` (extends `VcfParserProofs`):

- **`PloidyWarnedHolds`**: `Spec => PloidyWarned`, from `TypeInv`.
  - Lemma `OnlyEndOfBodyLineEnds`: a step from a complete body line to the
    body state is `EndOfBodyLine` (tr592). A short body line fails on its
    newline, `end()` jumps to st622, the `std::stoi` exception escapes, and
    every other action needs another state.
  - Lemma `SamePloidy`: if no sample differs from the first one in allele
    count, the set of allele counts has at most one member (`FS_Subset`,
    `FS_Singleton`). So more than one count means `PloidyMismatch`, and
    `CheckBodyEntry` is then exactly the ploidy warning
    (`CheckBodyEntryCases`). It sits at index `Len(diags) + 1` of `diags'`
    in both branches of `handle_body_line`.
- **`SortWarningSoundHolds`**: `Spec => SortWarningSound`.
  - The check reads `Last(records)`, a record of the current `parse()` call.
    The property is about `history`, the records of the whole file. The
    inductive invariant `BodyInv == TypeInv /\ RecordsInHistory` says every
    element of `records` is an element of `history`. It holds because
    `clear_records()` (in `Parse` and `End`) empties `records`, and tr592
    appends the same record to both. TLC checked `BodyInv` on the core
    instance (876k states) before the proof.
  - Lemma `EndOfBodyLineDiags`: the entries tr592 appends are those of
    `CheckBodyEntry` plus, on a rejected record, the body policy error.
    `CheckBodyEntryCases` shows an order warning implies `Unsorted(line)`.
  - Every other step appends at most one grammar or policy error
    (`NonBodyStepDiags`), so it adds no order warning.

What is only model-checked:
- every property of the byte-level
  modules (`VcfBodyLine`, `VcfMetaLine`, `LegacyVcfScanner`). Their
  transitions are folds over event lists, computed by a recursive function,
  and what such a fold computes for every input needs induction over data;
- the liveness properties `LineResumes`: TLAPS does not handle `ENABLED`
  and the fairness reasoning;
- the reference grammar `IsAltEntry`: what a recursive definition computes
  for every input needs induction over data, which the provers cannot do;
- every violation.

Some divergences found while modelling are recorded as hazards in
`PROJECT.json` rather than as runs: an order check against the previous
record instead of the maximum (spec 4.3), FILTER identifiers losing their
leading punctuation, an eight-column line whose INFO column is never handed
to `handle_column_end`, the legacy `is_valid()` after an error, and meta lines
without `=` being accepted (spec 6).

The byte-level modules declare no `RECURSIVE` operator (the fold over a
transition's events is a recursive function); only their MC modules do, to
build sample lines.

## Plan (next steps)

1. Model the typed meta entries (FILTER, FORMAT, INFO, ..., st101-st353) and
   the header line (st354-st399) byte by byte, like `VcfMetaLine`.
2. Model the typed INFO keys (st433-st553) and the ALT breakends
   (st570-st617) of the body.

## Not modelled

- At byte level: the fileformat line (st1-st15), the typed meta entries
  (st101-st353), the header line (st354-st399), the typed INFO keys
  (st433-st553) and the ALT breakends (st570-st617). `VcfParser` covers them
  only as line classes.
- Message wording and the "Lines read" progress output.
- `optional_check_meta_section`, which is never called, and
  `optional_check_body_section`, which is empty.
- The FASTA and normalisation code: I/O, and out of the validator's scope.
