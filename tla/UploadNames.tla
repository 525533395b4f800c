---------------------------- MODULE UploadNames ----------------------------
(***************************************************************************)
(* Where the files of a ProcessUpload call are stored: objectName and the  *)
(* names of Go's path packages it uses.  A path is the sequence of its     *)
(* components as slashes split it: "/tmp/" is <<"", "tmp", "">>.           *)
(***************************************************************************)
EXTENDS Upload, SequencesExt

CONSTANTS
  Tree,     \* the encoder's output: file i's path below the directory
  Stores,   \* values of localStoragePath
  Outputs,  \* values of OutputPrefix, the job's output bucket path
  Videos    \* video ids

(* What a path is made of, what a directory entry or an id may be, and     *)
(* what the files, the configuration and the payload of a job may say.     *)
Components == STRING
FileNames == Components \ {"", ".", ".."}
Paths == Seq(Components) \ {<<>>}

ASSUME TreeAssumption == Tree \in [Files -> Seq(FileNames) \ {<<>>}] /\ IsInjective(Tree)
ASSUME PathsAssumption == Stores \subseteq Paths /\ Outputs \subseteq Paths
ASSUME VideosAssumption == Videos \subseteq FileNames

(* path.Clean, one component after the other: an empty one and "." add     *)
(* nothing, ".." takes one back.                                           *)
CleanStep(done, c) ==
  IF c \in {"", "."} \/ (c = ".." /\ done = <<"">>) THEN done
  ELSE IF c = ".." /\ done # <<>> /\ Last(done) # ".." THEN Front(done)
  ELSE Append(done, c)

Clean(p) ==
  LET done[i \in 0..Len(p)] ==
        IF i = 0 THEN (IF Head(p) = "" THEN <<"">> ELSE <<>>)
        ELSE CleanStep(done[i - 1], p[i])
  IN done[Len(p)]

Join(p, q) == Clean(p \o q)

TrimPrefix(p, prefix) ==
  IF IsStrictPrefix(prefix, p) THEN SubSeq(p, Len(prefix) + 1, Len(p)) ELSE p

(* uploadOutputs: localStoragePath + "/" + job.Video.ID.                   *)
VideoPath(store, video) == store \o <<video>>

(* filepath.Walk joins, and so cleans, all but its root.                   *)
loadPaths(store, video) == [f \in 1..n |-> Join(VideoPath(store, video), Tree[f])]

(* Where a job's objects go: an empty prefix stands for the directory's    *)
(* own name.                                                               *)
Prefix(store, video, output) ==
  IF output = <<"">> THEN <<Last(VideoPath(store, video))>> ELSE output

(* Wrong on purpose: every file under its last component.                  *)
objectNameFlat(store, video, output, localPath) ==
  Join(Prefix(store, video, output), <<Last(localPath)>>)

objectName(store, video, output, localPath) ==
  Join(Prefix(store, video, output), TrimPrefix(localPath, VideoPath(store, video)))

Names(store, video, output) ==
  [f \in 1..n |-> objectName(store, video, output, loadPaths(store, video)[f])]

-----------------------------------------------------------------------------
(* Properties.                                                             *)

(* "Its path relative to VideoPath, prefixed with OutputPrefix" (comment   *)
(* of objectName).  Broken where localStoragePath is not a clean path: the *)
(* prefix to trim does not match, and the local path enters the name.      *)
NamedByRelativePath ==
  caller = "ok" =>
    \A store \in Stores, video \in Videos, output \in Outputs, f \in 1..n :
      Names(store, video, output)[f] = Join(Prefix(store, video, output), Tree[f])

Nested(p, q) == IsPrefix(p, q) \/ IsPrefix(q, p)

(* A call that returns nil has one whole object per file under the job's   *)
(* output path, and none where a job with another output path has its own: *)
(* two jobs overwrite each other only if one's output path contains the    *)
(* other's, and without output paths no two videos do (objectName).        *)
ObjectsAreItsOwn ==
  caller = "ok" =>
    \A store \in Stores, video \in Videos, output \in Outputs :
      LET name == Names(store, video, output)
          home == Clean(Prefix(store, video, output))
      IN
      /\ Cardinality({name[f] : f \in {f \in 1..n : object[f] = "whole"}}) = n
      /\ \A f \in 1..n : IsStrictPrefix(home, name[f])
      /\ \A other \in Videos, output2 \in Outputs :
           ~Nested(home, Clean(Prefix(store, other, output2))) =>
             \A f, g \in 1..n : name[f] # Names(store, other, output2)[g]
=============================================================================
