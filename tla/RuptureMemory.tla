---------------------------- MODULE RuptureMemory ----------------------------
(***************************************************************************)
(* What the analyzer remembers of the ruptures of a workload: near misses  *)
(* (internal/analyzer/business.go) and fingerprints (fingerprint.go), fed  *)
(* with the fused index at every tick of the analyzer and read back with   *)
(* every snapshot that is served.                                          *)
(*                                                                         *)
(* A band stands for a range of the fused index, a shape for signal        *)
(* vectors that resemble each other by more than the match threshold.      *)
(***************************************************************************)
EXTENDS Integers, FiniteSets

CONSTANTS
  Remembered,     \* workloads
  Shapes,         \* signal vectors that do not resemble each other
  Debounce,       \* fingerprintDebounce, in ticks
  DebtWindow,     \* nearMissWindow
  LastTurn,       \* bound: ticks
  Never

ASSUME MemoryAssumption ==
  Debounce \in Nat \ {0} /\ DebtWindow \in Nat /\ LastTurn \in Nat /\ Never \notin Int

(* Below nearMissRecovery; below nearMissLow; below nearMissHigh; above. *)
Bands == {"calm", "raised", "near", "rupture"}

VARIABLES
  turn,          \* now
  registered,    \* the workloads the analyzer knows
  inNearMiss,    \* those in the near-miss zone
  nearMisses,    \* when each recovered from one
  prints,        \* the fingerprints, each with its number
  lastRecorded,  \* when each workload got its latest
  ruptures       \* the ruptures fed in since the start, to compare with

memoryVars == <<turn, registered, inNearMiss, nearMisses, prints, lastRecorded, ruptures>>

(* newFingerprintEngine *)
MemoryInit ==
  /\ turn = 0
  /\ registered = {}
  /\ inNearMiss = {}
  /\ nearMisses = [w \in Remembered |-> {}]
  /\ prints = {}
  /\ lastRecorded = [w \in Remembered |-> Never]
  /\ ruptures = {}

(* Deleted from the cluster: what belongs to its state goes, what the      *)
(* fingerprint engine holds stays.                                         *)
Forget(w) ==
  /\ w \in registered
  /\ registered' = registered \ {w}
  /\ inNearMiss' = inNearMiss \ {w}
  /\ nearMisses' = [nearMisses EXCEPT ![w] = {}]
  /\ UNCHANGED <<turn, prints, lastRecorded, ruptures>>

(* UpdateFusedR *)
UpdateFusedR(w, band) ==
  /\ inNearMiss' = CASE band = "rupture" -> inNearMiss \ {w}
                     [] band = "near" -> inNearMiss \cup {w}
                     [] band = "calm" -> inNearMiss \ {w}
                     [] OTHER -> inNearMiss
  /\ nearMisses' = IF band = "calm" /\ w \in inNearMiss
                   THEN [nearMisses EXCEPT ![w] = @ \cup {turn}] ELSE nearMisses

(* Faulty variant: the debounce of one workload holds back all. *)
DebouncedByAny(w) ==
  \E v \in Remembered : lastRecorded[v] # Never /\ turn - lastRecorded[v] < Debounce

(* maybeRecord *)
Debounced(w) == lastRecorded[w] # Never /\ turn - lastRecorded[w] < Debounce

MaybeRecord(w, band, shape) ==
  IF band = "rupture" /\ ~Debounced(w)
  THEN /\ prints' = prints \cup {[id |-> Cardinality(prints) + 1, of |-> w, at |-> turn, shape |-> shape]}
       /\ lastRecorded' = [lastRecorded EXCEPT ![w] = turn]
  ELSE UNCHANGED <<prints, lastRecorded>>

(* A tick of the analyzer for one workload: Update registers it, then the  *)
(* fused index is fed in.                                                  *)
Feed(w, band, shape) ==
  /\ registered' = registered \cup {w}
  /\ UpdateFusedR(w, band)
  /\ MaybeRecord(w, band, shape)
  /\ ruptures' = IF band = "rupture" THEN ruptures \cup {[of |-> w, at |-> turn]} ELSE ruptures
  /\ UNCHANGED turn

TurnPasses ==
  /\ turn < LastTurn
  /\ turn' = turn + 1
  /\ UNCHANGED <<registered, inNearMiss, nearMisses, prints, lastRecorded, ruptures>>

(* Nothing of it is stored. *)
MemoryRestart ==
  /\ registered' = {}
  /\ inNearMiss' = {}
  /\ nearMisses' = [w \in Remembered |-> {}]
  /\ prints' = {}
  /\ lastRecorded' = [w \in Remembered |-> Never]
  /\ ruptures' = {}
  /\ UNCHANGED turn

MemoryNext ==
  \/ \E w \in Remembered, band \in Bands, shape \in Shapes : Feed(w, band, shape)
  \/ \E w \in Remembered : Forget(w)
  \/ TurnPasses
  \/ MemoryRestart

MemorySpec == MemoryInit /\ [][MemoryNext]_memoryVars

----------------------------------------------------------------------------
(* MatchFingerprint: the workload's own fingerprints only. *)
Matches(w, shape) == {f \in prints : f.of = w /\ f.shape = shape}

(* ComputeBusinessSignals *)
RecoveryDebt(w) == Cardinality({at \in nearMisses[w] : turn - at < DebtWindow})

(* A rupture that is fed in is remembered by a fingerprint of its workload *)
(* no older than the debounce, through deletions of the workload and       *)
(* ruptures of others, one fingerprint to a debounce; and it is what a     *)
(* later snapshot of that shape is matched with.  The recovery debt goes   *)
(* with the workload.  (maybeRecord, match, ComputeBusinessSignals)        *)
RupturesAreRemembered ==
  /\ \A r \in ruptures : \E f \in prints :
       f.of = r.of /\ f.at <= r.at /\ r.at - f.at < Debounce /\ f \in Matches(r.of, f.shape)
  /\ \A f, g \in prints : f.of = g.of /\ f # g =>
       f.at - g.at >= Debounce \/ g.at - f.at >= Debounce
  /\ inNearMiss \subseteq registered
  /\ \A w \in Remembered \ registered : RecoveryDebt(w) = 0
=============================================================================
