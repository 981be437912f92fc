----------------------------- MODULE Plagiarism -----------------------------
(***************************************************************************)
(* Plagiarism checks of the accepted submissions of one problem.  A check  *)
(* stores the submission's fingerprint, reads those of the others and      *)
(* writes a report for each that is similar; five run at a time, each step *)
(* commits on its own, and a check that fails is tried again from the      *)
(* start.                                                                  *)
(*                                                                         *)
(* normalizeCode leaves tokens between blanks, of which the hash only sees *)
(* the first character: a code is the sequence of these.  A hash of five   *)
(* ASCII characters stays below 2^31, so the mask to 32 bits changes       *)
(* nothing.                                                                *)
(***************************************************************************)
EXTENDS Integers, Sequences, FiniteSets

CONSTANTS
  Subs, Codes,
  K, W,            \* tokens in a gram, grams in a window
  Percent,         \* PLAGIARISM_THRESHOLD
  MaxRetries, MaxFaults

VARIABLES
  code,       \* normalized code of each submission
  stored,     \* code_fingerprints
  at, tries,  \* the check of each submission and its x-retry-count
  read,       \* the submissions whose fingerprints it has read
  reports,    \* plagiarism_reports, by their unique pair
  faults,
  unwritten   \* ghost: checks that ended without their reports
vars == <<code, stored, at, tries, read, reports, faults, unwritten>>

\* rollingHash and generateKGrams, then the minimum of every window.
Gram(c, i) ==
  LET h[j \in 0..K] == IF j = 0 THEN 0 ELSE h[j - 1] * 31 + c[i + j - 1] IN h[K]
Grams(c) == [i \in 1..Len(c) - K + 1 |-> Gram(c, i)]
Least(S) == CHOOSE x \in S : \A y \in S : x <= y
Winnowing(hashes) ==
  {Least({hashes[j] : j \in i..i + W - 1}) : i \in 1..Len(hashes) - W + 1}
Fingerprint == [c \in Codes |-> IF Len(c) < K THEN {} ELSE Winnowing(Grams(c))]

\* jaccardSimilarity >= threshold; two empty fingerprints are all alike.
Similar(a, b) ==
  LET A == Fingerprint[code[a]] B == Fingerprint[code[b]] IN
  100 * Cardinality(A \cap B) >= Percent * Cardinality(A \cup B)

TypeOK ==
  /\ code \in [Subs -> Codes] /\ stored \subseteq Subs
  /\ at \in [Subs -> {"queued", "stored", "read", "done", "dead"}]
  /\ tries \in [Subs -> 0..MaxRetries]
  /\ read \in [Subs -> SUBSET Subs] /\ reports \subseteq Subs \X Subs
  /\ faults \in 0..MaxFaults /\ unwritten \subseteq Subs

Init ==
  /\ code \in [Subs -> Codes]
  /\ stored = {} /\ reports = {} /\ faults = 0 /\ unwritten = {}
  /\ at = [s \in Subs |-> "queued"] /\ tries = [s \in Subs |-> 0]
  /\ read = [s \in Subs |-> {}]
-----------------------------------------------------------------------------
StoreFingerprint(s) ==
  /\ at[s] = "queued" /\ at' = [at EXCEPT ![s] = "stored"]
  /\ stored' = stored \cup {s}
  /\ UNCHANGED <<code, tries, read, reports, faults, unwritten>>

GetFinished(s) ==   \* Mutant: a submission is compared with the checked ones only.
  /\ at[s] = "stored" /\ at' = [at EXCEPT ![s] = "read"]
  /\ read' = [read EXCEPT ![s] = {o \in stored : at[o] = "done"}]
  /\ UNCHANGED <<code, stored, tries, reports, faults, unwritten>>
GetFingerprintsForProblem(s) ==
  /\ at[s] = "stored" /\ at' = [at EXCEPT ![s] = "read"]
  /\ read' = [read EXCEPT ![s] = stored \ {s}]
  /\ UNCHANGED <<code, stored, tries, reports, faults, unwritten>>

Done(s) == at' = [at EXCEPT ![s] = "done"] /\ read' = [read EXCEPT ![s] = {}]
WriteReports(s) ==
  /\ at[s] = "read" /\ Done(s)
  /\ reports' = reports \cup {<<s, o>> : o \in {x \in read[s] : Similar(s, x)}}
  /\ unwritten' = unwritten \ {s}
  /\ UNCHANGED <<code, stored, tries, faults>>

\* A write that fails is logged, and the check succeeds.
WriteFails(s) ==
  /\ faults < MaxFaults /\ faults' = faults + 1
  /\ at[s] = "read" /\ Done(s)
  /\ unwritten' = unwritten \cup {s}
  /\ UNCHANGED <<code, stored, tries, reports>>

\* Any other error: a copy with the next x-retry-count, or the dead letters.
CheckFails(s) ==
  /\ faults < MaxFaults /\ faults' = faults + 1
  /\ at[s] \in {"queued", "stored"}
  /\ IF tries[s] < MaxRetries
     THEN at' = [at EXCEPT ![s] = "queued"] /\ tries' = [tries EXCEPT ![s] = @ + 1]
     ELSE at' = [at EXCEPT ![s] = "dead"] /\ UNCHANGED tries
  /\ UNCHANGED <<code, stored, read, reports, unwritten>>

\* The process dies, or a message that was settled is delivered once more.
Redeliver(s) ==
  /\ faults < MaxFaults /\ faults' = faults + 1
  /\ at[s] \in {"stored", "read", "done"}
  /\ at' = [at EXCEPT ![s] = "queued"] /\ read' = [read EXCEPT ![s] = {}]
  /\ UNCHANGED <<code, stored, tries, reports, unwritten>>

Next == \E s \in Subs :
  \/ StoreFingerprint(s) \/ GetFingerprintsForProblem(s) \/ WriteReports(s)
  \/ WriteFails(s) \/ CheckFails(s) \/ Redeliver(s)
Spec == Init /\ [][Next]_vars
-----------------------------------------------------------------------------
\* The longest guarantee of winnowing: a run of this many tokens leaves a mark.
Guaranteed == K + W - 1
SharesRun(c, d) ==
  \E i \in 1..Len(c) - Guaranteed + 1, j \in 1..Len(d) - Guaranteed + 1 :
    SubSeq(c, i, i + Guaranteed - 1) = SubSeq(d, j, j + Guaranteed - 1)

(* Of two similar submissions whose checks have ended, at least one reports *)
(* the other, in whatever order the checks overlapped, failed and were      *)
(* tried again, unless a write of reports failed: the fingerprint is there  *)
(* before the others are read.                                              *)
PairsAreReported ==
  \A a, b \in Subs : a # b /\ at[a] = "done" /\ at[b] = "done" /\ Similar(a, b) =>
    \/ {<<a, b>>, <<b, a>>} \cap reports # {}
    \/ {a, b} \cap unwritten # {}

(* Nobody is reported for nothing: the two share a hash, or both are too    *)
(* short to have any; and codes that share a long enough run share a hash.  *)
ReportsAreFounded ==
  /\ \A pair \in reports :
       LET c == code[pair[1]] d == code[pair[2]] IN
       \/ Fingerprint[c] \cap Fingerprint[d] # {}
       \/ Len(c) < Guaranteed /\ Len(d) < Guaranteed
  /\ \A a, b \in Subs :
       SharesRun(code[a], code[b]) => Fingerprint[code[a]] \cap Fingerprint[code[b]] # {}
=============================================================================
