----------------------------- MODULE PluginPrepare -----------------------------
(***************************************************************************)
(* How the plugin controller makes a plugin runnable                       *)
(* (internal/plugins/controller/server.go, Prepare): an image is pulled or *)
(* built from one revision of a repository, its manifest is read, it is    *)
(* weighed and scanned, and the digest of what passed is recorded.  A name *)
(* of an image and a branch of a repository may move between two steps.    *)
(* The contents of a source tree, a manifest and a scan report are         *)
(* abstracted to whether the step accepts them.                            *)
(***************************************************************************)
EXTENDS FiniteSets, Naturals

CONSTANTS
  Preparations,   \* calls of Prepare
  Images,         \* image contents, named by their digests
  NoImage,
  Commits,        \* revisions of the one repository
  BuiltFrom,      \* the image a build of each commit makes
  Heavy,          \* images over MaxImageBytes
  MaxMoves        \* how often the image name and the branch move

ASSUME PrepareAssumption ==
  /\ NoImage \notin Images
  /\ BuiltFrom \in [Commits -> Images]
  /\ Heavy \subseteq Images
  /\ MaxMoves \in Nat

VARIABLES
  published,    \* the image the name means in its registry
  branch,       \* the commit the branch means in the repository
  localName,    \* the image the name means in the container runtime
  stocked,      \* the images the container runtime has
  prep,         \* the progress of each preparation
  moves,
  pinned,       \* digests recorded by installed plugins
  rejected      \* images a preparation had removed (history)

runtimeVars == <<localName, stocked>>
originVars == <<published, branch, moves>>
prepareVars == <<originVars, runtimeVars, prep, pinned, rejected>>

IdlePrep ==
  [pc |-> "idle", mode |-> "image", dry |-> FALSE, commit |-> NoImage,
   image |-> NoImage, vetted |-> {}, scratch |-> FALSE]

PrepSteps ==
  {"pull", "resolve", "manifest", "fetch", "tree", "read", "context", "build", "built",
   "weigh", "scan"}

PrepareTypeOK ==
  /\ published \in Images
  /\ branch \in Commits
  /\ localName \in Images \cup {NoImage}
  /\ stocked \subseteq Images
  /\ prep \in [Preparations ->
       [pc : PrepSteps \cup {"idle", "shown", "done", "failed"},
        mode : {"image", "repository"}, dry : BOOLEAN, commit : Commits \cup {NoImage},
        image : Images \cup {NoImage}, vetted : SUBSET Images, scratch : BOOLEAN]]
  /\ moves \in Nat
  /\ pinned \subseteq Images
  /\ rejected \subseteq Images

PrepareInit ==
  /\ published \in Images
  /\ branch \in Commits
  /\ localName = NoImage
  /\ stocked = {}
  /\ prep = [p \in Preparations |-> IdlePrep]
  /\ moves = 0
  /\ pinned = {}
  /\ rejected = {}

-------------------------------------------------------------------------------
PrepAt(p, pc) == prep[p].pc = pc
PrepGoto(p, pc) == prep' = [prep EXCEPT ![p].pc = pc]

(* The deferred removal of the scratch directory.                          *)
PrepEnd(p, pc) == prep' = [prep EXCEPT ![p].pc = pc, ![p].scratch = FALSE]

KeepsRuntime == UNCHANGED <<originVars, runtimeVars, pinned, rejected>>

BeginPrepare(p, mode, dry) ==
  /\ PrepAt(p, "idle")
  /\ prep' = [prep EXCEPT ![p] =
                [@ EXCEPT !.mode = mode, !.dry = dry, !.scratch = (mode = "repository"),
                   !.pc = IF mode = "image" THEN "pull" ELSE "fetch"]]
  /\ KeepsRuntime

(* Any step may be refused: the origin is gone, the limit of time or size  *)
(* is exceeded, the tree holds a link, the manifest is not valid ...       *)
Refuse(p) ==
  /\ prep[p].pc \in {"pull", "resolve", "manifest", "fetch", "tree", "read", "context",
                    "build"}
  /\ PrepEnd(p, "failed")
  /\ KeepsRuntime

(* PullOrInspect: docker pull, or with AllowLocalImages what is here.      *)
Pull(p) ==
  /\ PrepAt(p, "pull")
  /\ \/ localName' = published /\ stocked' = stocked \cup {published}
     \/ localName # NoImage /\ UNCHANGED runtimeVars
  /\ PrepGoto(p, "resolve")
  /\ UNCHANGED <<originVars, pinned, rejected>>

ResolveName(p) ==
  /\ PrepAt(p, "resolve")
  /\ localName # NoImage
  /\ prep' = [prep EXCEPT ![p].image = localName, ![p].pc = "manifest"]
  /\ KeepsRuntime

(* The image a later step looks at: the one it was resolved to.            *)
SubjectByName(p) == IF prep[p].mode = "image" THEN localName ELSE prep[p].image
Subject(p) == prep[p].image

(* The manifest that came with the request, or the one in the image, is    *)
(* parsed and its limits compared with the operator's.                     *)
ReadManifest(p) ==
  /\ PrepAt(p, "manifest")
  /\ prep' = [prep EXCEPT ![p].pc = IF prep[p].dry THEN "shown" ELSE "weigh",
                          ![p].vetted = {Subject(p)}]
  /\ KeepsRuntime

(* git fetch of one revision, and the hash of its tree.                    *)
FetchRepo(p) ==
  /\ PrepAt(p, "fetch")
  /\ prep' = [prep EXCEPT ![p].commit = branch, ![p].pc = "tree"]
  /\ KeepsRuntime

(* The files are few, small and regular, and none leads out of the tree.   *)
CheckTree(p) ==
  /\ PrepAt(p, "tree")
  /\ PrepGoto(p, "read")
  /\ KeepsRuntime

ReadTreeManifest(p) ==
  /\ PrepAt(p, "read")
  /\ IF prep[p].dry THEN PrepEnd(p, "shown") ELSE PrepGoto(p, "context")
  /\ KeepsRuntime

(* The repository's own build context, or a generated one for Python.      *)
ChooseContext(p) ==
  /\ PrepAt(p, "context")
  /\ PrepGoto(p, "build")
  /\ KeepsRuntime

Build(p) ==
  /\ PrepAt(p, "build")
  /\ LET i == BuiltFrom[prep[p].commit] IN
       /\ stocked' = stocked \cup {i}
       /\ prep' = [prep EXCEPT ![p].image = i, ![p].pc = "built", ![p].vetted = {i}]
  /\ UNCHANGED <<originVars, localName, pinned, rejected>>

(* An image that was built and cannot be inspected stays.                  *)
InspectBuilt(p) ==
  /\ PrepAt(p, "built")
  /\ \/ Subject(p) \in stocked /\ PrepGoto(p, "weigh")
     \/ PrepEnd(p, "failed")
  /\ KeepsRuntime

(* docker image rm --force, by digest: the name goes with it.              *)
RemoveImage(i) ==
  /\ stocked' = stocked \ {i}
  /\ localName' = IF localName = i THEN NoImage ELSE localName
  /\ rejected' = rejected \cup {i}

(* The removals after a failure: for its size an image always goes, after  *)
(* a failed scan only one that was built.                                  *)
Reject(p, sized) ==
  /\ PrepEnd(p, "failed")
  /\ IF sized \/ prep[p].mode = "repository"
       THEN RemoveImage(Subject(p))
       ELSE UNCHANGED <<runtimeVars, rejected>>
  /\ UNCHANGED <<originVars, pinned>>

Weigh(p) ==
  /\ PrepAt(p, "weigh")
  /\ \/ /\ Subject(p) \notin Heavy
        /\ prep' = [prep EXCEPT ![p].pc = "scan", ![p].vetted = @ \cap {Subject(p)}]
        /\ KeepsRuntime
     \/ Subject(p) \in Heavy /\ Reject(p, TRUE)

(* The scan passes or is skipped where that is allowed, and the digest is  *)
(* recorded; or it fails, cannot run or runs out of time.                  *)
Scan(p) ==
  /\ PrepAt(p, "scan")
  /\ \/ /\ prep' = [prep EXCEPT ![p].pc = "done", ![p].scratch = FALSE,
                                ![p].vetted = @ \cap {Subject(p)}]
        /\ pinned' = pinned \cup {prep[p].image}
        /\ UNCHANGED <<originVars, runtimeVars, rejected>>
     \/ Reject(p, FALSE)

(* The name or the branch is moved by its owner.                           *)
MoveName(i) ==
  /\ moves < MaxMoves
  /\ moves' = moves + 1
  /\ published' = i
  /\ UNCHANGED <<branch, runtimeVars, prep, pinned, rejected>>

MoveBranch(c) ==
  /\ moves < MaxMoves
  /\ moves' = moves + 1
  /\ branch' = c
  /\ UNCHANGED <<published, runtimeVars, prep, pinned, rejected>>

PrepareNext ==
  \/ \E p \in Preparations :
       \/ \E mode \in {"image", "repository"}, dry \in BOOLEAN : BeginPrepare(p, mode, dry)
       \/ Refuse(p) \/ Pull(p) \/ ResolveName(p) \/ ReadManifest(p) \/ FetchRepo(p)
       \/ CheckTree(p) \/ ReadTreeManifest(p) \/ ChooseContext(p) \/ Build(p)
       \/ InspectBuilt(p) \/ Weigh(p) \/ Scan(p)
  \/ \E i \in Images : MoveName(i)
  \/ \E c \in Commits : MoveBranch(c)

PrepareSpec == PrepareInit /\ [][PrepareNext]_prepareVars

-------------------------------------------------------------------------------
(* A recorded digest names the very image whose manifest was read, that    *)
(* was weighed and that was scanned, however the name moved meanwhile, and *)
(* it is here unless a preparation of the same image was rejected later    *)
(* (server.go:283, docker.go:54).                                          *)
PinnedIsVetted ==
  /\ \A p \in Preparations :
       PrepAt(p, "done") => prep[p].vetted = {prep[p].image} /\ prep[p].image \notin Heavy
  /\ pinned \subseteq stocked \cup rejected
  /\ \A p \in Preparations : prep[p].pc \in {"done", "failed", "shown"} => ~prep[p].scratch

(* The image of an installed plugin stays, so that the plugin can be       *)
(* started again (docs/PLUGIN_OPERATIONS.md:101).                          *)
PinnedIsPresent == pinned \subseteq stocked
===============================================================================
