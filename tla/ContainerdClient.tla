-------------------------- MODULE ContainerdClient --------------------------
(***************************************************************************)
(* internal/imgmanager/containerd.go and secret.go: a pull as the client   *)
(* of containerd asks for it, with the registry hosts and the credentials  *)
(* it hands over.                                                          *)
(*                                                                         *)
(* Pull secrets are told apart by what becomes of them: those that         *)
(* convertCredentials cannot read, those that it can and that the upstream *)
(* registry accepts or refuses, and those that do not exist: they are      *)
(* skipped, and the registry refuses a pull without credentials.  A mirror *)
(* asks for none.  When a mirror has an image is left open; the upstream   *)
(* registry has them all.                                                  *)
(***************************************************************************)
EXTENDS Naturals

CONSTANTS
    Images,            \* image references
    RegistryPolicies,  \* subset of {"Default", "MirrorOnly"}
    SecretStates,      \* subset of Secrets: states the pull secrets may be in
    MaxFaults,         \* bound: calls to containerd and the API that fail
    LoseEvents         \* delete events may be lost on their way to the daemon

Secrets == {"accepted", "refused", "malformed", "absent"}

Errors  == {"NotFound", "Other"}
NoError == "NoError"
Results == Errors \cup {NoError}

ASSUME PolicyAssumption == RegistryPolicies \subseteq {"Default", "MirrorOnly"}
ASSUME SecretAssumption == SecretStates \subseteq Secrets
ASSUME FaultsAssumption == MaxFaults \in Nat
ASSUME LoseAssumption   == LoseEvents \in BOOLEAN

VARIABLES
    present,     \* images containerd has (external)
    stream,      \* containerd's event stream: "starting", "up" or "broken"
    events,      \* [Images -> Nat]: delete events not yet received
    faults       \* calls that failed so far

ClientTypeOK ==
    /\ present \in SUBSET Images
    /\ stream \in {"starting", "up", "broken"}
    /\ events \in [Images -> Nat]
    /\ faults \in 0..MaxFaults

\* A call to containerd or to the API server that returns an error.
CallFails == faults < MaxFaults /\ faults' = faults + 1

\* convertCredentials gives up at the first secret it cannot read.
Convertible(secret) == secret # "malformed"

\* setupResolver: the mirrors of the host configuration, and the upstream
\* registry unless registryMirrorHosts has taken it out.
Hosts(policy) == {"mirror"} \cup (IF policy = "MirrorOnly" THEN {} ELSE {"upstream"})

\* Some host may supply the image; one is sure to.
MaySupply(policy, secret) ==
    Convertible(secret) /\ \E h \in Hosts(policy) : h = "upstream" => secret = "accepted"
Supplies(policy, secret) == "upstream" \in Hosts(policy) /\ secret = "accepted"

\* The error when no host supplies the image: mirrors do not know it, the
\* upstream registry refuses the credentials.
Refusal(policy, secret) ==
    IF Convertible(secret) /\ "upstream" \notin Hosts(policy) THEN "NotFound" ELSE "Other"

\* PullImage returns with result: the image is there, or no host supplies it,
\* or the call fails before or after the image is there (image.Size).
ClientPullImage(ref, policy, secret, result) ==
    \/ /\ MaySupply(policy, secret)
       /\ present' = present \cup {ref}
       /\ \/ result = NoError /\ UNCHANGED faults
          \/ result = "Other" /\ CallFails
    \/ /\ ~Supplies(policy, secret)
       /\ result = Refusal(policy, secret)
       /\ UNCHANGED <<present, faults>>
    \/ /\ CallFails
       /\ result = "Other"
       /\ UNCHANGED present

=============================================================================
