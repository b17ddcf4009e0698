------------------------------- MODULE Images -------------------------------
(* tt image create: recipes that download, verify or build a guest image on   *)
(* the host and publish it by a rename, while the agent lists and clones what *)
(* is there. Several may run at once, also for one image; any command may     *)
(* fail and any builder be killed. One image stands for each kind of recipe.  *)
EXTENDS Naturals, FiniteSets

CONSTANTS Builders, Releases, MaxBuilds, MaxKills

Recipes == {"docker", "firecracker", "qemu", "jail"}

VARIABLES
  image,     \* each recipe's target: none, foreign, good or bad
  kernel,    \* beside the Firecracker target
  upstream,  \* the release a rolling mirror serves
  build,     \* the builders
  remains,   \* what ended builders left behind
  builds, kills

imageVars == <<image, kernel, upstream, build, remains, builds, kills>>

\* got: the download, by release and wholeness; rootfs: the staged file system.
Ended == [is |-> "ended", of |-> "none", release |-> 0, whole |-> FALSE, rootfs |-> "none", mount |-> "none"]

\* Operators may have put images of their own in place.
ImagesInit ==
  /\ image \in [Recipes -> {"none", "foreign"}] /\ image["docker"] = "none"
  /\ kernel = image["firecracker"]
  /\ upstream = 1 /\ build = [b \in Builders |-> Ended]
  /\ remains = {} /\ builds = 0 /\ kills = 0

Is(b, s) == build[b].is = s
Of(b) == build[b].of
Go1(b, s) == build' = [build EXCEPT ![b].is = s]
Files == <<image, kernel>>
Rest == <<upstream, builds, kills>>

\* Returning drops the builder's staging files, also one that is still mounted.
Returns(b) ==
  /\ build' = [build EXCEPT ![b] = Ended]
  /\ remains' = IF build[b].mount = "mounted" THEN remains \union {"orphan"} ELSE remains

-----------------------------------------------------------------------------
(* All recipes *)

Opening == [docker |-> "pull", firecracker |-> "kernel", qemu |-> "fetch", jail |-> "fetch"]

\* An existing target is inspected: a valid one is kept, another one refused. The
\* Firecracker recipe looks at its two files one by one.
Create(b, r) ==
  /\ Is(b, "ended") /\ builds < MaxBuilds /\ builds' = builds + 1
  /\ build' = IF r \in {"qemu", "jail"} /\ image[r] # "none" THEN build
              ELSE [build EXCEPT ![b] = [Ended EXCEPT !.is = Opening[r], !.of = r]]
  /\ UNCHANGED <<Files, upstream, remains, kills>>

\* A command that fails ends the recipe, but for those run on a mounted file system.
Fails1(b) ==
  /\ ~Is(b, "ended") /\ build[b].mount # "mounted" /\ Returns(b)
  /\ UNCHANGED <<Files, Rest>>

\* download_file: what the transfer reports as done may still be damaged.
Fetch(b) ==
  /\ Is(b, "fetch")
  /\ \E whole \in BOOLEAN :
       build' = [build EXCEPT ![b] = [@ EXCEPT !.is = IF Of(b) = "jail" THEN "extract" ELSE "verify",
                                               !.release = upstream, !.whole = whole]]
  /\ UNCHANGED <<Files, remains, Rest>>

\* Mutant: a download is taken as it is.
VerifiedNone(b) == TRUE

\* The checksum, pinned or of the manifest fetched after the image.
Verified(b) == build[b].whole /\ (Of(b) = "qemu" => build[b].release = upstream)

Quality(b) == IF build[b].whole THEN "good" ELSE "bad"

\* A pinned download is the Firecracker kernel, renamed at once; a cloud image
\* is inspected, and converted when it is raw.
Verify(b) ==
  /\ Is(b, "verify")
  /\ \/ ~Verified(b) /\ Returns(b) /\ UNCHANGED kernel
     \/ /\ Verified(b) /\ Of(b) = "qemu" /\ UNCHANGED <<kernel, remains>>
        /\ Go1(b, "publish")
     \/ /\ Verified(b) /\ Of(b) = "firecracker" /\ kernel' = Quality(b)
        /\ Go1(b, "root") /\ UNCHANGED remains
  /\ UNCHANGED <<image, Rest>>

Publish(b) ==
  /\ Is(b, "publish") /\ image' = [image EXCEPT ![Of(b)] = Quality(b)] /\ Returns(b)
  /\ UNCHANGED <<kernel, Rest>>

-----------------------------------------------------------------------------
(* Jails and containers *)

\* The archive has no digest: a damaged one does not extract, or lacks files. The
\* rename onto a root that appeared meanwhile fails.
Extract(b) ==
  /\ Is(b, "extract")
  /\ image' = IF build[b].whole /\ image["jail"] = "none" THEN [image EXCEPT !["jail"] = "good"] ELSE image
  /\ Returns(b) /\ UNCHANGED <<kernel, Rest>>

Pull(b) == Is(b, "pull") /\ Go1(b, "tag") /\ UNCHANGED <<Files, remains, Rest>>
Tag(b) ==
  /\ Is(b, "tag") /\ image' = [image EXCEPT !["docker"] = "good"] /\ Returns(b)
  /\ UNCHANGED <<kernel, Rest>>

-----------------------------------------------------------------------------
(* Firecracker *)

LookForKernel(b) ==
  /\ Is(b, "kernel") /\ Go1(b, IF kernel = "none" THEN "fetch" ELSE "root")
  /\ UNCHANGED <<Files, remains, Rest>>

\* Then an ext4 file of its own, staged beside the kernel.
Format(b) ==
  /\ Is(b, "root")
  /\ IF image["firecracker"] # "none" THEN Returns(b)
     ELSE /\ build' = [build EXCEPT ![b].is = "mount", ![b].rootfs = "empty"]
          /\ UNCHANGED remains
  /\ UNCHANGED <<Files, Rest>>

\* A mount that is killed by its timeout may have been made.
Mount(b) ==
  /\ Is(b, "mount")
  /\ \/ build' = [build EXCEPT ![b].is = "populate", ![b].mount = "mounted"] /\ UNCHANGED remains
     \/ build' = [build EXCEPT ![b] = Ended] /\ remains' = remains \union {"unnoticed"}
  /\ UNCHANGED <<Files, Rest>>

\* Mutant: an error while populating returns before the unmount.
PopulateReturns(b) ==
  /\ Is(b, "populate")
  /\ \/ build' = [build EXCEPT ![b].is = "unmount", ![b].rootfs = "good"] /\ UNCHANGED remains
     \/ Returns(b)
  /\ UNCHANGED <<Files, Rest>>

\* The userspace download is verified too; errors wait for the unmount.
Populate(b) ==
  /\ Is(b, "populate")
  /\ \E outcome \in {"good", "partial"} :
       build' = [build EXCEPT ![b].is = "unmount", ![b].rootfs = outcome]
  /\ UNCHANGED <<Files, remains, Rest>>

\* A failed unmount leaves the mount and its file for the operator.
Unmount(b) ==
  /\ Is(b, "unmount")
  /\ \/ build' = [build EXCEPT ![b].is = "persist", ![b].mount = "none"] /\ UNCHANGED remains
     \/ build' = [build EXCEPT ![b] = Ended] /\ remains' = remains \union {"mounted"}
  /\ UNCHANGED <<Files, Rest>>

Persist1(b) ==
  /\ Is(b, "persist")
  /\ image' = IF build[b].rootfs = "good" THEN [image EXCEPT !["firecracker"] = "good"] ELSE image
  /\ Returns(b) /\ UNCHANGED <<kernel, Rest>>

-----------------------------------------------------------------------------
(* What else happens *)

\* A killed builder leaves its staging files, and its mount.
Kill(b) ==
  /\ ~Is(b, "ended") /\ kills < MaxKills /\ kills' = kills + 1
  /\ build' = [build EXCEPT ![b] = Ended]
  /\ remains' = remains \union {IF build[b].mount = "mounted" THEN "mounted" ELSE "staged"}
  /\ UNCHANGED <<Files, upstream, builds>>

Rotate == upstream < Releases /\ upstream' = upstream + 1 /\ UNCHANGED <<Files, build, remains, builds, kills>>

ImagesNext ==
  \/ \E b \in Builders :
       \/ \E r \in Recipes : Create(b, r)
       \/ Fails1(b) \/ Fetch(b) \/ Verify(b) \/ Publish(b) \/ Extract(b) \/ Pull(b) \/ Tag(b)
       \/ LookForKernel(b) \/ Format(b) \/ Mount(b) \/ Populate(b) \/ Unmount(b) \/ Persist1(b)
       \/ Kill(b)
  \/ Rotate

ImagesSpec == ImagesInit /\ [][ImagesNext]_imageVars

-----------------------------------------------------------------------------
(* Properties *)

\* Whatever the agent finds under an image's name is an operator's own or was
\* downloaded whole and verified, and a Firecracker root has its kernel: no
\* failure, kill or second builder shows it half an image (image_builder.rs:668,
\* storage/file.rs:130). A Firecracker image's directory is listed before its
\* root is there, but the agent measures the root first (runtime.rs:261).
CatalogWhole ==
  /\ \A r \in Recipes : image[r] # "bad"
  /\ kernel # "bad"
  /\ image["firecracker"] # "none" => kernel # "none"

\* A builder that returns never removes the file of a mounted file system under
\* it, except after a mount it took to have failed (image_builder.rs:298).
MountedKept == "orphan" \notin remains
=============================================================================
