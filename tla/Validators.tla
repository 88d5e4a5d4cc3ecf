----------------------------- MODULE Validators -----------------------------
(***************************************************************************)
(* Validator sets and proposer selection of crates/consensus.  A set is    *)
(* given by the voting power of each address 1..N.                         *)
(***************************************************************************)
EXTENDS Integers, Sequences, FiniteSets, SequencesExt, FiniteSetsExt

\* OpenHlValidatorSet::new: by voting power, highest first, then by address.
ValidatorSet(power) ==
  SetToSortSeq(DOMAIN power, LAMBDA v, w : power[v] > power[w]
                                             \/ (power[v] = power[w] /\ v < w))

\* select_proposer: round robin over the sorted set, which counts from one
\* here.
SelectProposer(power, h, r) ==
  LET set == ValidatorSet(power) IN set[((h + r) % Len(set)) + 1]

TotalPower(power, S) == MapThenSumSet(LAMBDA v : power[v], S)

\* ThresholdParams::default: more than two thirds of the voting power.
IsQuorum(power, S) == 3 * TotalPower(power, S) > 2 * TotalPower(power, DOMAIN power)
=============================================================================
