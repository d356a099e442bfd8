---------------------------- MODULE MCBenchmark ----------------------------
(***************************************************************************)
(* Benchmark under names of its own, which can stand beside those of       *)
(* BenchmarkCache.  TLC checks this module, and BenchmarkProofs extends    *)
(* it, so that both speak of the same definitions.                         *)
(***************************************************************************)

CONSTANTS
    Shell,        \* processes the owner runs commands in
    Version, Criterion, MustHave, NeedsTest, Line,
    Absent,       \* an absent file, a value not read yet
    MaxCommands,  \* bound: commands started
    MaxEdits      \* bound: files the owner writes

VARIABLES criteriaFile, labelsFile, sources, index, universe, saved, cmd, commands, edits

Chain == INSTANCE Benchmark WITH
            Proc <- Shell, None <- Absent, MaxCalls <- MaxCommands, calls <- commands

ASSUME ChainAssumption == Chain!BenchmarkAssumption

ChainSpec == Chain!Spec

ChainSymmetry == Chain!Symmetry

\* A result binds one chain: labels, universe and evidence are for the criteria
\* it names, whatever changes between the reads of run_r002.
OneChain == Chain!OneChain

\* A run whose inputs were accepted gets its result: the validators of
\* evaluate_r002_case, its metrics and its gate cannot refuse it.
AcceptedInputsAreScored == Chain!AcceptedInputsAreScored

=============================================================================
