----------------------------- MODULE BootEnvArch -----------------------------
(***************************************************************************)
(* What BootEnv.Validate (backend/bootenv.go) computes for one bootenv in *)
(* one environment: regenArches builds realArches from the top-level      *)
(* Kernel (as amd64) and OS.SupportedArchitectures; Validate checks the    *)
(* bootenv, sets Validated, then OS.Name and the loader template, and      *)
(* fillInstallRepos binds an install repo of the global profile; CanArchBoot *)
(* and canLocalBoot decide whether an arch can boot.                       *)
(*                                                                         *)
(* The state is a bootenv, an environment (the files on disk and the       *)
(* global profile's package-repositories) and the outcome of the last      *)
(* Validate.  Strings are abstracted to what the code compares: a field is *)
(* set or empty, a kernel is present, an initrd has one of two names.      *)
(***************************************************************************)
EXTENDS Naturals, Sequences, FiniteSets

CONSTANTS
    SupArches,   \* arches a bootenv may list in OS.SupportedArchitectures
    MaxRepos,    \* longest package-repositories list
    NotYet       \* no Validate has run

\* Canonical arch names and the aliases models.SupportedArch folds into them.
Arches == {"amd64", "arm64"}
ArchNames == Arches \cup {"x86_64", "aarch64"}
Canon(a) == CASE a = "x86_64"  -> "amd64"
              [] a = "aarch64" -> "arm64"
              [] OTHER         -> a

\* Initrd names: i0 is listed in the top-level Initrds, i1 in an arch's own.
Initrds == {"i0", "i1"}

\* The fields of a bootenv Validate reads; sup maps an arch of
\* SupportedArchitectures to its ArchInfo (Kernel set, its Initrds).  loader: a pxelinux or ipxe
\* template is listed, or Meta KernelIsLoader is "true".
BootEnvs ==
    [kernel : BOOLEAN, initrds : BOOLEAN, os : BOOLEAN, ou : BOOLEAN,
     loader : BOOLEAN,
     sup : UNION {[S -> [kernel : BOOLEAN, initrds : {{}, {"i1"}}]] :
                    S \in SUBSET SupArches}]

\* A repo of package-repositories: use means InstallSource with OS equal to
\* [OS.Name]; arch is its Arch as written.
Repos == [use : BOOLEAN, arch : {"amd64", "aarch64"}]

\* Files on disk: an arch's kernel, an initrd under an arch's directory.
Envs ==
    [kernels : SUBSET Arches,
     initrdFiles : SUBSET (Initrds \X Arches),
     repos : UNION {[1 .. n -> Repos] : n \in 0 .. MaxRepos}]

ASSUME ArchAssumption ==
    /\ SupArches \subseteq Arches
    /\ MaxRepos \in Nat
    /\ NotYet \notin [validated : BOOLEAN, available : BOOLEAN, bound : SUBSET Arches]

VARIABLES
    be,     \* the bootenv
    env,    \* the environment
    out     \* Validated, Available and installRepos of the last Validate

vars == <<be, env, out>>

Outcomes == [validated : BOOLEAN, available : BOOLEAN, bound : SUBSET Arches]

TypeOK ==
    /\ be \in BootEnvs
    /\ env \in Envs
    /\ out \in Outcomes \cup {NotYet}

-----------------------------------------------------------------------------
(* regenArches, NetBoot, ArchFor.                                           *)

\* regenArches: amd64 from the top-level fields when Kernel is set, then
\* every entry of SupportedArchitectures, which overrides it.
RealArches(b) == (IF b.kernel THEN {"amd64"} ELSE {}) \cup DOMAIN b.sup

Info(b, a) ==
    IF a \in DOMAIN b.sup THEN b.sup[a]
    ELSE [kernel |-> TRUE, initrds |-> IF b.initrds THEN {"i0"} ELSE {}]

\* Variant: regenArches without the missing-kernel check.
KernelErrorNever(b) == FALSE

\* regenArches' error: an arch is missing a kernel.
KernelError(b) == \E a \in RealArches(b) : ~Info(b, a).kernel

NetBoot(b) == b.ou \/ RealArches(b) # {}

\* ArchFor: the key of realArches the requested arch names, or "".
ArchFor(b, a) == IF Canon(a) \in RealArches(b) THEN Canon(a) ELSE ""

-----------------------------------------------------------------------------
(* fillInstallRepos, canLocalBoot, CanArchBoot.                             *)

\* The repos fillInstallRepos accepts: InstallSource for exactly this OS,
\* with an arch realArches has.
Usable(b, e) ==
    {i \in DOMAIN e.repos : e.repos[i].use /\ ArchFor(b, e.repos[i].arch) # ""}

\* Variant: the repo bound under its Arch as written.
FillInstallReposRaw(b, e) ==
    IF ~NetBoot(b) \/ ~b.os \/ Usable(b, e) = {} THEN {}
    ELSE LET first == CHOOSE i \in Usable(b, e) : \A j \in Usable(b, e) : i <= j
         IN  {e.repos[first].arch}

\* fillInstallRepos: nothing for a bootenv that does not netboot or has no
\* OS.Name; otherwise the first usable repo is bound to its arch and the
\* loop returns.
FillInstallRepos(b, e) ==
    IF ~NetBoot(b) \/ ~b.os \/ Usable(b, e) = {} THEN {}
    ELSE LET first == CHOOSE i \in Usable(b, e) : \A j \in Usable(b, e) : i <= j
         IN  {ArchFor(b, e.repos[first].arch)}

\* canLocalBoot: the arch must resolve, its kernel be a file under its
\* directory, and so must every initrd of the bootenv's top-level Initrds.
CanLocalBoot(b, e, a) ==
    \/ ~NetBoot(b)
    \/ /\ ArchFor(b, a) # ""
       /\ ArchFor(b, a) \in e.kernels
       /\ \A i \in (IF b.initrds THEN {"i0"} ELSE {}) :
             <<i, ArchFor(b, a)>> \in e.initrdFiles

\* CanArchBoot: a bound install repo stands in for the local files.
CanArchBoot(b, e, o, a) ==
    \/ ~NetBoot(b)
    \/ ArchFor(b, a) \in o.bound
    \/ CanLocalBoot(b, e, a)

\* The files a request may name, by basename: k0 is the top-level Kernel,
\* k1 an arch's own kernel in SupportedArchitectures, i0 and i1 the
\* initrds, x any other file.
Files == {"k0", "k1", "i0", "i1", "x"}

\* strings.HasSuffix of a request path with a file name: every path ends
\* with the empty name.
EndsWith(p, f) == f = "" \/ p = f

\* The lookaside installed for bound arch a, serving request p: local when
\* the arch's tree is on disk; with a BootLoc, a path ending with b.Kernel
\* goes to the basename of the arch's own kernel, else one ending with an
\* initrd of the arch to that initrd; any other path goes to the repo URL.
Lookaside(b, a, p, bootLoc, local) ==
    LET top    == IF b.kernel THEN "k0" ELSE ""
        kernel == IF a \in DOMAIN b.sup THEN "k1" ELSE "k0"
        hits   == {i \in Info(b, a).initrds : EndsWith(p, i)}
    IN  CASE local                                -> [to |-> "local", file |-> "x"]
          [] bootLoc /\ EndsWith(p, top)          -> [to |-> "bootloc", file |-> kernel]
          [] bootLoc /\ hits # {}                 -> [to |-> "bootloc", file |-> CHOOSE i \in hits : TRUE]
          [] OTHER                                -> [to |-> "upstream", file |-> p]

-----------------------------------------------------------------------------
(* Validate.                                                                *)

\* Variant: Validate without the OS.Name check.
ValidateNoOSName(b, e) ==
    LET valid == ~KernelError(b)
    IN  [validated |-> valid,
         available |-> valid /\ (b.loader \/ ~b.kernel),
         bound     |-> IF valid THEN FillInstallRepos(b, e) ELSE {}]

\* Validate: errors of regenArches leave the bootenv not Validated and it
\* returns before fillInstallRepos; the OS.Name and loader template checks
\* come after SetValid and only withhold Available.
Validate(b, e) ==
    LET valid == ~KernelError(b)
    IN  [validated |-> valid,
         available |-> /\ valid
                       /\ ~(NetBoot(b) /\ ~b.os)
                       /\ (b.loader \/ ~b.kernel),
         bound     |-> IF valid THEN FillInstallRepos(b, e) ELSE {}]

Init ==
    /\ be \in BootEnvs
    /\ env \in Envs
    /\ out = NotYet

\* BeforeSave (or OnLoad) of the bootenv runs Validate.
BeforeSave ==
    /\ out' = Validate(be, env)
    /\ UNCHANGED <<be, env>>

Next == BeforeSave

Spec == Init /\ [][Next]_vars

-----------------------------------------------------------------------------
(* Properties.  The spec's reference definitions come first.               *)

\* Spec 4.7 step 4 and invariant 3: an arch boots when a repo is bound or
\* its kernel and all its initrds exist locally.
SpecBootable(b, e, o, a) ==
    \/ ~NetBoot(b)
    \/ a \in o.bound
    \/ /\ a \in e.kernels
       /\ \A i \in Info(b, a).initrds : <<i, a>> \in e.initrdFiles

(* Spec invariant 2 and regenArches: an Available bootenv that netboots   *)
(* has an OS.Name, and every arch it has declares a kernel.                *)
AvailableSane ==
    out # NotYet /\ out.available =>
        /\ NetBoot(be) => be.os
        /\ \A a \in RealArches(be) : Info(be, a).kernel

(* Spec 4.7 step 3: every install repo for this OS whose arch the bootenv *)
(* has is bound to that arch.  fillInstallRepos returns after the first.   *)
EveryRepoBound ==
    out # NotYet /\ out.validated /\ NetBoot(be) /\ be.os =>
        \A i \in Usable(be, env) : ArchFor(be, env.repos[i].arch) \in out.bound

(* Spec 4.7 step 4: CanArchBoot agrees with the spec's definition for     *)
(* every arch of a Validated bootenv.  canLocalBoot checks the top-level Initrds   *)
(* under every arch, not the arch's own.                                    *)
CanArchBootAsSpec ==
    out # NotYet /\ out.validated =>
        \A a \in RealArches(be) :
            CanArchBoot(be, env, out, a) = SpecBootable(be, env, out, a)

\* Spec 4.8: a request ending with the arch's declared kernel or one of its
\* initrds goes to BootLoc with that file's basename.
SpecLookaside(b, a, p, bootLoc, local) ==
    LET kernel == IF a \in DOMAIN b.sup THEN "k1" ELSE "k0"
    IN  CASE local                                       -> [to |-> "local", file |-> "x"]
          [] bootLoc /\ (p = kernel \/ p \in Info(b, a).initrds) -> [to |-> "bootloc", file |-> p]
          [] OTHER                                       -> [to |-> "upstream", file |-> p]

(* Spec 4.8 and scenario S6: for every arch Validate bound to a repo, the *)
(* lookaside sends each request where the spec says.  The closure tests    *)
(* the top-level Kernel, empty for a bootenv with only                      *)
(* SupportedArchitectures, under every arch.                                *)
LookasideAsSpec ==
    out # NotYet =>
        \A a \in out.bound, p \in Files, bl, lo \in BOOLEAN :
            Lookaside(be, a, p, bl, lo) = SpecLookaside(be, a, p, bl, lo)

(* Spec invariant 3 and scenario S1: an Available netboot bootenv can     *)
(* boot every arch it has, from local files or a bound repo.  Validate     *)
(* never looks at the files.                                                *)
AvailableBootable ==
    out # NotYet /\ out.available =>
        \A a \in RealArches(be) : SpecBootable(be, env, out, a)

=============================================================================
