----------------------------- MODULE SmokeRules -----------------------------
(***************************************************************************)
(* What a custom flavor must show before it is routable, as pure rules     *)
(* (src/flavorval/validate-core.ts): checks that need no microVM, and the  *)
(* verdict on one smoke run.  The worker that runs them is not in the      *)
(* repository; the console's preview is a caller of the first.             *)
(*                                                                         *)
(* A flavor here is [base, name, label, arch, vcpu, memoryMb, caps, image, *)
(* smokeRepo]; an image probe that was not made is NotProbed.              *)
(***************************************************************************)
EXTENDS ClaimRules

MinMemoryMb        == 1024
DefaultMaxMemoryMb == 32768
KnownCapabilities  == {"docker", "node", "python", "java", "go", "rust"}

(* Names of the right form; here, those of the instance.                   *)
BadBaseName(base) == base \notin Bases

(* POST /api/flavors and its preview: what is refused before a row is built*)
(* (the wording of a description and the form of an ARN are left out).     *)
ValidCustomFlavor(f, max) ==
  /\ ~BadBaseName(f.base)
  /\ f.image # ""
  /\ f.vcpu \in 1 .. 16
  /\ f.memoryMb \in MinMemoryMb .. max
  /\ f.caps \subseteq KnownCapabilities

(* The one writer of names: the operator gives the base.                   *)
BuildFlavorRecord(f) ==
  [f EXCEPT !.name = CustomFlavorName(f.base), !.label = CustomFlavorLabel(f.base),
            !.arch = "arm64"]

NotProbed   == "not probed"
ImageStates == {"CREATED", "UPDATED", "CREATING", "CREATE_FAILED", "UPDATE_FAILED",
                "DELETED", "ABSENT", "FORBIDDEN", "UNKNOWN"}
UsableImageStates  == {"CREATED", "UPDATED"}

ImageFailure(image, probe) ==
  IF image = "" THEN {"missing-image-arn"}
  ELSE IF probe \in UsableImageStates \union {NotProbed} THEN {}
  ELSE IF probe = "UNKNOWN" THEN {"image-probe-failed"}
  ELSE IF probe = "FORBIDDEN" THEN {"image-unreadable"}
  ELSE {"image-unusable"}

(* Every failure is collected; the stored names are not trusted.           *)
StaticGate(f, probe, max, requireSmokeRepo) ==
  LET If(condition, code) == IF condition THEN {code} ELSE {}
      name  == CustomFlavorName(f.base)
      label == CustomFlavorLabel(f.base)
  IN  If(BadBaseName(f.base) \/ f.name # name \/ f.label # label, "bad-name")
      \union If(~BadBaseName(f.base) /\ BuiltinCollision(name, label), "builtin-collision")
      \union If(f.arch # "arm64", "not-arm64")
      \union If(~(f.caps \subseteq KnownCapabilities), "unknown-capability")
      \union If(f.memoryMb \notin MinMemoryMb .. max, "memory-out-of-bounds")
      \union ImageFailure(f.image, probe)
      \union If(requireSmokeRepo /\ f.smokeRepo = "", "missing-smoke-repo")

(* No failure says anything of the flavor: the check could not be made.    *)
IsInconclusive(failures) == failures # {} /\ failures \subseteq {"image-probe-failed"}

StaticFailureVerdict(failures) ==
  IF IsInconclusive(failures) THEN "pending" ELSE "invalid"

(* The console's preview probes nothing.                                   *)
PreviewFlavor(f) == StaticGate(BuildFlavorRecord(f), NotProbed, DefaultMaxMemoryMb, FALSE)

-----------------------------------------------------------------------------
(* The smoke run: its runner has one label, of no other job.               *)

SmokeLabel(nonce) == "lca-validate-" \o nonce

NoConclusion == "none"

(* All must be seen to happen; a fault of ours is no verdict.              *)
ClassifySmoke(seen) ==
  IF seen.orchestrationError THEN "pending"
  ELSE IF seen.launched /\ seen.runnerRegistered /\ seen.conclusion = "success"
          /\ seen.selfTerminated
  THEN "valid" ELSE "invalid"

=============================================================================
