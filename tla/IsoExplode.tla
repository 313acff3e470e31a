----------------------------- MODULE IsoExplode -----------------------------
(***************************************************************************)
(* ISO explosion of one bootenv (backend/bootenv.go): every accepted save  *)
(* runs AfterSave -> ExplodeIsos, which asks IsoExploders for one closure  *)
(* per architecture that still needs its ISO exploded and starts each in a *)
(* goroutine of its own.  A worker runs explodeISO: under the process-wide *)
(* explodeMux it checks the ISO's SHA256 against the one it was given and  *)
(* runs explode_iso.sh, which extracts the ISO into the arch's tree and    *)
(* writes the canary with that SHA256.                                     *)
(*                                                                         *)
(* A worker's whole run holds explodeMux and nothing else touches the tree *)
(* or the canary under it, so a run is one step; IsoExploders reads the    *)
(* canary without the mutex, in the saving request.  Hashes are model      *)
(* values: the declared checksum of each arch, the hash of the ISO file    *)
(* on disk.                                                                *)
(*                                                                         *)
(* The closures read archInfo, the range variable of IsoExploders' loop,   *)
(* when they run, after the loop has ended.  Before Go 1.22 every closure  *)
(* of a call shares that variable, which holds the arch the map iteration  *)
(* visited last; from Go 1.22 each iteration has its own.  Which one a     *)
(* build gets is the constant PerIterationLoopVars.                        *)
(***************************************************************************)
EXTENDS Naturals

CONSTANTS
    Arches,               \* realArches of the bootenv
    Shas,                 \* SHA256 values
    Sha,                  \* Sha[a]: archInfo.Sha256, the declared checksum
    Iso,                  \* Iso[a]: hash of isos/<IsoFile> on disk, or None
    NoSha,                \* an empty Sha256
    None,                 \* no file
    Partial,              \* a tree left half-written by a failed extraction
    MaxSaves,             \* bound on the saves of the bootenv
    PerIterationLoopVars, \* the build gives each loop iteration its own archInfo
    ScriptMayFail         \* explode_iso.sh may exit non-zero part way

ASSUME IsoAssumption ==
    /\ Sha \in [Arches -> Shas \cup {NoSha}]
    /\ Iso \in [Arches -> Shas \cup {None}]
    /\ {None, Partial, NoSha} \cap Shas = {}
    /\ None # Partial /\ None # NoSha /\ Partial # NoSha
    /\ MaxSaves \in Nat
    /\ PerIterationLoopVars \in BOOLEAN
    /\ ScriptMayFail \in BOOLEAN

VARIABLES
    canary,       \* contents of the arch's .<OS>.rebar_canary, or None
    tree,         \* hash of the ISO the arch's tree was extracted from
    pending,      \* started workers that have not run yet
    saves,        \* saves so far
    extractions   \* explode_iso.sh runs per arch

vars == <<canary, tree, pending, saves, extractions>>

\* A started closure: the save that made it, its arch, the SHA256 it read.
Workers == [save : 1 .. MaxSaves, arch : Arches, sha : Shas \cup {NoSha}]

TypeOK ==
    /\ canary \in [Arches -> Shas \cup {NoSha, None}]
    /\ tree \in [Arches -> Shas \cup {None, Partial}]
    /\ pending \subseteq Workers
    /\ saves \in 0 .. MaxSaves
    /\ extractions \in [Arches -> 0 .. MaxSaves]

\* Whatever an earlier run of the server left on disk: a canary next to
\* the complete tree it was written for, with that ISO's checksum if any.
Init ==
    /\ canary \in [Arches -> Shas \cup {NoSha, None}]
    /\ tree \in [Arches -> Shas \cup {None, Partial}]
    /\ \A a \in Arches : canary[a] \in Shas => tree[a] = canary[a]
    /\ \A a \in Arches : canary[a] = NoSha => tree[a] \in Shas
    /\ pending = {}
    /\ saves = 0
    /\ extractions = [a \in Arches |-> 0]

-----------------------------------------------------------------------------
\* The SHA256 a closure of IsoExploders hands to explodeISO, given the arch
\* the loop visited last.
Captured(a, last) == IF PerIterationLoopVars THEN Sha[a] ELSE Sha[last]

\* Variant: an arch is skipped when any canary exists, whatever it holds.
IsoExplodersAnyCanary(s, last) ==
    {[save |-> s, arch |-> a, sha |-> Captured(a, last)] :
        a \in {x \in Arches : canary[x] = None /\ Iso[x] # None}}

\* IsoExploders: skip an arch whose canary holds its Sha256 or whose ISO
\* file is missing; make a closure for every other arch.
IsoExploders(s, last) ==
    {[save |-> s, arch |-> a, sha |-> Captured(a, last)] :
        a \in {x \in Arches : canary[x] # Sha[x] /\ Iso[x] # None}}

\* An accepted save: AfterSave calls ExplodeIsos, which starts the
\* closures and returns without waiting for them.
ExplodeIsos ==
    /\ saves < MaxSaves
    /\ \E last \in Arches :
          pending' = pending \cup IsoExploders(saves + 1, last)
    /\ saves' = saves + 1
    /\ UNCHANGED <<canary, tree, extractions>>

\* Variant: explode_iso.sh writes the arch name into the canary.
ExtractWrongCanary(w) ==
    /\ extractions' = [extractions EXCEPT ![w.arch] = @ + 1]
    /\ canary' = [canary EXCEPT ![w.arch] = w.arch]
    /\ tree' = [tree EXCEPT ![w.arch] = Iso[w.arch]]

\* explode_iso.sh: extract the ISO into the tree and write the canary with
\* the given SHA256; or fail part way, leaving a partial tree and the
\* canary as it was.
Extract(w) ==
    /\ extractions' = [extractions EXCEPT ![w.arch] = @ + 1]
    /\ \/ /\ canary' = [canary EXCEPT ![w.arch] = w.sha]
          /\ tree' = [tree EXCEPT ![w.arch] = Iso[w.arch]]
       \/ /\ ScriptMayFail
          /\ tree' = [tree EXCEPT ![w.arch] = Partial]
          /\ UNCHANGED canary

\* Variant: explodeISO without the SHA256 check.
explodeISONoCheck(w) ==
    /\ w \in pending
    /\ pending' = pending \ {w}
    /\ Extract(w)
    /\ UNCHANGED saves

\* explodeISO: under explodeMux, when a SHA256 is given, hash the ISO and
\* return on a mismatch; otherwise run the script.
explodeISO(w) ==
    /\ w \in pending
    /\ pending' = pending \ {w}
    /\ \/ /\ w.sha \notin {NoSha, Iso[w.arch]}
          /\ UNCHANGED <<canary, tree, extractions>>
       \/ /\ w.sha \in {NoSha, Iso[w.arch]}
          /\ Extract(w)
    /\ UNCHANGED saves

Next ==
    \/ ExplodeIsos
    \/ \E w \in pending : explodeISO(w)

Spec == Init /\ [][Next]_vars

\* A started goroutine runs: the Go scheduler runs runnable goroutines and
\* explodeMux is released after every run.  A save need not happen.
FairSpec == Spec /\ \A w \in Workers : WF_vars(explodeISO(w))

-----------------------------------------------------------------------------
(* Properties.                                                              *)

\* An arch whose ISO explodeISO accepts: on disk, and with the declared
\* checksum when one is declared.
Extractable(a) == Iso[a] # None /\ Sha[a] \in {NoSha, Iso[a]}

(* Once the bootenv has been saved, every arch whose ISO explodeISO would *)
(* accept is eventually extracted, or already was: the worker of that arch *)
(* must compare the ISO with that arch's own checksum.                     *)
EventuallyAttempted ==
    \A a \in Arches :
        Extractable(a) =>
            (saves > 0 ~> (canary[a] = Sha[a] \/ extractions[a] > 0))

(* A canary IsoExploders trusts vouches for its tree: whenever an arch's  *)
(* canary holds its declared Sha256, the tree is a complete extraction,    *)
(* of an ISO with that checksum when one is declared.  IsoExploders then   *)
(* skips the arch for good and never looks at the tree.                    *)
CanaryTruthful ==
    \A a \in Arches :
        canary[a] = Sha[a] =>
            /\ tree[a] \in Shas
            /\ Sha[a] \in Shas => tree[a] = Sha[a]

(* A trusted canary is wrong only after a failed run: whenever an arch's   *)
(* canary holds its declared Sha256, the tree beside it is a complete       *)
(* extraction of an ISO with that checksum (any ISO when none is declared), *)
(* or the partial tree a failed explode_iso.sh left under the old canary.   *)
(* So neither the shared loop variable nor two saves racing their workers  *)
(* make the canary vouch for the wrong ISO.                                 *)
CanaryTruthfulUnlessFailed ==
    \A a \in Arches :
        canary[a] = Sha[a] /\ tree[a] # Partial =>
            /\ tree[a] \in Shas
            /\ Sha[a] \in Shas => tree[a] = Sha[a]

(* The canary short-circuits re-extraction (spec glossary): the script    *)
(* never runs for an arch whose canary already holds its checksum.         *)
NoReExtraction ==
    [][\A a \in Arches :
         extractions'[a] > extractions[a] => canary[a] # Sha[a]]_vars

=============================================================================
