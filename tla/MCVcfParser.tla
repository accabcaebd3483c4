---------------------------- MODULE MCVcfParser ----------------------------
(* Small instances of VcfParser for TLC.                                   *)
EXTENDS VcfParser

CONSTANTS c1, c2

\* Two chromosomes: enough for a chromosome change between records and for
\* one declared and one undeclared contig.
MCChroms == {c1, c2}

\* Two samples with equal or different ploidy.
MCGenotypes == {<<2, 2>>, <<2, 1>>}

\* Chromosome names are only compared for equality.
MCSymmetry == Permutations(MCChroms)
=============================================================================
