---------------------------- MODULE CrashCapture ----------------------------
(***************************************************************************)
(* Crash bundles and kernel panic records under /data/crashes              *)
(* (src/services/internal/crashcap, paniccap, diagbundle and nuractl       *)
(* diag).  A capture shortens its log tail until the bundle fits, writes   *)
(* one file named after the service and the second, and rotates.           *)
(*                                                                         *)
(* A file name is the pair of its prefix, a number in the order of the     *)
(* names, and its second; the order of the names compares prefixes first.  *)
(***************************************************************************)
EXTENDS Integers, Sequences, FiniteSets, Functions

CONSTANTS
    Service,        \* prefixes of the bundles: a set of numbers
    PanicPrefix,    \* the prefix "kernel-panic-...", a number
    LineSize,       \* the sizes a log line may have
    MaxLogLines,    \* bound: lines in a log tail
    FixedSize,      \* size of a bundle without its log tail
    MaxBundleSize,
    MaxBundles,
    DiagFiles,      \* Options.MaxFiles of a diagnostic bundle
    MaxSeconds      \* bound on the clock

ASSUME CaptureAssumption ==
    /\ Service \subseteq Nat /\ PanicPrefix \in Nat \ Service
    /\ FixedSize <= MaxBundleSize /\ MaxBundles \in Nat \ {0} /\ DiagFiles \in Nat

VARIABLES
    second,     \* the clock that names the files
    files,      \* /data/crashes: set of [prefix, at, size]
    capture,    \* the capture in progress, or NoCapture
    pstore      \* a panic record waits in /sys/fs/pstore

captureVars == <<second, files, capture, pstore>>

NoCapture == [at |-> "none"]

Before(f, g) == f.prefix < g.prefix \/ (f.prefix = g.prefix /\ f.at < g.at)
Older(f, g) == f.at < g.at
Bundles == {f \in files : f.prefix # PanicPrefix}

BundleSize(tail) == FixedSize + FoldFunction(LAMBDA a, b : a + b, 0, tail)

\* The log tails there may be.
LogTails == UNION {[1 .. n -> LineSize] : n \in 0 .. MaxLogLines}

CrashInit ==
    /\ second = 0
    /\ files = {}
    /\ capture = NoCapture
    /\ pstore = FALSE

-----------------------------------------------------------------------------
StartCapture(s, tail) ==
    /\ capture = NoCapture
    /\ capture' = [at |-> "fit", service |-> s, time |-> second, tail |-> tail]
    /\ UNCHANGED <<second, files, pstore>>

\* A plausible slip: the middle is rounded the other way, so that two lines
\* become two lines.
MutShorter(tail) == SubSeq(tail, (Len(tail) - 1) \div 2 + 1, Len(tail))

\* b.LogTail[len(b.LogTail)/2:]
Shorter(tail) == SubSeq(tail, Len(tail) \div 2 + 1, Len(tail))

\* One round of the loop that shortens the tail: a tail of one line stays.
ShortenTail ==
    /\ capture.at = "fit"
    /\ capture.tail # <<>> /\ BundleSize(capture.tail) > MaxBundleSize
    /\ capture' = [capture EXCEPT !.tail = Shorter(@)]
    /\ UNCHANGED <<second, files, pstore>>

\* A second capture of the service in the same second replaces the first.
WriteBundle ==
    /\ capture.at = "fit"
    /\ capture.tail = <<>> \/ BundleSize(capture.tail) <= MaxBundleSize
    /\ LET f == [prefix |-> capture.service, at |-> capture.time, size |-> BundleSize(capture.tail)]
       IN  files' = {g \in files : g.prefix # f.prefix \/ g.at # f.at} \cup {f}
    /\ capture' = [capture EXCEPT !.at = "rotate"]
    /\ UNCHANGED <<second, pstore>>

\* The n first elements of S in the order of the names.
FirstNames(S, n) == {f \in S : Cardinality({g \in S : Before(g, f)}) < n}

\* A plausible slip: the end of the sorted list is removed.
MutRotateBundles ==
    /\ capture.at = "rotate"
    /\ LET keep == FirstNames(Bundles, MaxBundles)
       IN  files' = files \ (Bundles \ keep)
    /\ capture' = NoCapture
    /\ UNCHANGED <<second, pstore>>

\* rotate: the first names go until MaxBundles are left.
RotateBundles ==
    /\ capture.at = "rotate"
    /\ LET excess == Cardinality(Bundles) - MaxBundles
       IN  files' = files \ FirstNames(Bundles, excess)
    /\ capture' = NoCapture
    /\ UNCHANGED <<second, pstore>>

\* The process ends, or the write fails, before the rotation.
CaptureStops ==
    /\ capture # NoCapture
    /\ capture' = NoCapture
    /\ UNCHANGED <<second, files, pstore>>

-----------------------------------------------------------------------------
\* The files a diagnostic bundle takes: the end of the directory listing.
Bundled == files \ FirstNames(files, Cardinality(files) - DiagFiles)

Panics ==
    /\ ~pstore /\ capture = NoCapture
    /\ pstore' = TRUE
    /\ UNCHANGED <<second, files, capture>>

\* nuractl diag: a record that waits in pstore is archived, and stays there.  The
\* bundle, which is written outside /data/crashes, holds Bundled.
Diag ==
    /\ files' = IF pstore THEN files \cup {[prefix |-> PanicPrefix, at |-> second, size |-> 0]}
                ELSE files
    /\ UNCHANGED <<second, capture, pstore>>

SecondPasses ==
    /\ second < MaxSeconds
    /\ second' = second + 1
    /\ UNCHANGED <<files, capture, pstore>>

CaptureStep == ShortenTail \/ WriteBundle \/ RotateBundles

CrashNext ==
    \/ \E s \in Service, tail \in LogTails : StartCapture(s, tail)
    \/ CaptureStep \/ CaptureStops
    \/ Panics \/ Diag \/ SecondPasses

CrashFairness == WF_captureVars(CaptureStep)
CrashSpec == CrashInit /\ [][CrashNext]_captureVars /\ CrashFairness

-----------------------------------------------------------------------------
\* Among the bundles of one service, rotation removes the oldest
\* (rotate.go:23-32): a bundle goes only with every older one of its service.
OldestOfServiceFirst ==
    [][capture.at = "rotate" =>
        \A gone \in files \ files', kept \in files' :
            kept.prefix = gone.prefix => Older(gone, kept)]_captureVars

\* A diagnostic bundle that cannot take every file leaves out the oldest ones of
\* a service or of the panics (diagbundle/bundle.go:49-59).
BundledAreNewest ==
    \A out \in files \ Bundled, f \in Bundled : out.prefix = f.prefix => Older(out, f)

\* The two together: rotation and diagnostic bundles leave out the oldest of each
\* service first (rotate.go:23-32, diagbundle/bundle.go:49-59).
NewestAreKept == OldestOfServiceFirst /\ []BundledAreNewest

\* A capture whose every line would fit alone ends (capture.go:88-95).
FittingCaptureEnds ==
    (/\ capture.at = "fit"
     /\ \A i \in DOMAIN capture.tail : BundleSize(<<capture.tail[i]>>) <= MaxBundleSize)
        ~> (capture = NoCapture)

\* capture.go:90: "Re-marshal with a shorter tail until it fits."  Every
\* capture ends.
CaptureEnds == (capture # NoCapture) ~> (capture = NoCapture)

\* capture.go:20-21: "the maximum number of crash bundles retained before the
\* oldest are rotated out".  Rotation removes no bundle while an older one stays.
OldestFirst ==
    [][capture.at = "rotate" =>
        \A gone \in files \ files', kept \in files' \ {f \in files : f.prefix = PanicPrefix} :
            ~Older(kept, gone)]_captureVars
=============================================================================
