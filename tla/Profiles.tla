-------------------------------- MODULE Profiles --------------------------------
(***************************************************************************)
(* The profiles of the platform file (internal/spec/profile.go): which     *)
(* ones apply to a component or task, what they merge to, and what the     *)
(* merged profile forbids.                                                 *)
(*                                                                         *)
(* A profile is a record with one field for each way of merging:           *)
(*   nodeSelector   a map (podLabels, podAnnotations and the metrics       *)
(*                  annotations merge alike)                               *)
(*   security       the fields a security context sets                     *)
(*   tolerations    a list                                                 *)
(*   storageClass   a scalar, "" when not set (so are the scalars of       *)
(*                  metrics other than interval)                           *)
(*   whenDeleted, whenScaled   the retention policy                        *)
(*   allowed        the allowedDomains, Nil when omitted                   *)
(*   maxCpu, maxMem the ceiling, 0 when not set                            *)
(*   labels, interval, honor, relabelings   the metrics block              *)
(***************************************************************************)
EXTENDS Integers, Sequences, SequencesExt, TLC

CONSTANT Nil       \* a nil pointer, map or slice; the file when there is none

ASSUME NilAssumption == Nil \notin Nat

Unset == ""        \* a string that is left out
NoCode == ""       \* no error

\* The requests of each preset: millicores and Mi; eph is ephemeralStorage.
ResourcePresetMappings ==
    [p \in {"nano", "micro", "small", "medium", "large", "xlarge", "2xlarge"} |->
        CASE p = "nano"   -> [cpu |-> 100,  mem |-> 128, eph |-> 50]
          [] p = "micro"  -> [cpu |-> 250,  mem |-> 256, eph |-> 50]
          [] p = "small"  -> [cpu |-> 500,  mem |-> 512, eph |-> 50]
          [] p = "medium" -> [cpu |-> 500,  mem |-> 1024, eph |-> 50]
          [] p = "large"  -> [cpu |-> 1000, mem |-> 2048, eph |-> 50]
          [] OTHER        -> [cpu |-> 1000, mem |-> 3072, eph |-> 50]]

Codes == {NoCode, "PLATFORM_NOT_FOUND", "PLATFORM_ENV_NOT_FOUND", "DOMAIN_GAP",
          "FQDN_COLLISION", "INVALID_DNS", "PROFILE_NOT_FOUND",
          "PROFILE_DOMAIN_NOT_ALLOWED", "PROFILE_STORAGE_CLASS_NOT_FOUND",
          "COMPONENT_STORAGE_CLASS_NOT_FOUND", "PROFILE_RESOURCE_EXCEEDED",
          "PROFILE_OPT_OUT_BLOCKED", "PROFILE_MONITOR_LABELS_MISSING"}

NoProfile == [nodeSelector |-> <<>>, security |-> <<>>, tolerations |-> <<>>,
              storageClass |-> Unset, whenDeleted |-> Unset, whenScaled |-> Unset,
              allowed |-> Nil, maxCpu |-> 0, maxMem |-> 0,
              labels |-> <<>>, interval |-> Unset, honor |-> Nil, relabelings |-> <<>>]

-----------------------------------------------------------------------------
\* names is Nil (omitted), <<>> (profiles: []) or a list; profiles is Nil
\* when the platform file has no such section.
hasDefault(profiles) == profiles # Nil /\ "default" \in DOMAIN profiles

ProfileNamesCode(names, profiles) ==
    IF names = Nil THEN NoCode
    ELSE IF names = <<>>
         THEN IF hasDefault(profiles) THEN "PROFILE_OPT_OUT_BLOCKED" ELSE NoCode
         ELSE IF profiles = Nil THEN "PROFILE_NOT_FOUND" ELSE NoCode

\* Mutant: the default profile is only for components that name none.
MutResolveProfileNames(names, profiles) ==
    IF names = Nil THEN (IF hasDefault(profiles) THEN <<"default">> ELSE <<>>) ELSE names

\* The default profile comes first whether or not it is listed.
ResolveProfileNames(names, profiles) ==
    LET first == IF hasDefault(profiles) THEN <<"default">> ELSE <<>>
        upTo[i \in 0 .. Len(names)] ==
            IF i = 0 THEN first
            ELSE IF names[i] = "default" THEN upTo[i - 1] ELSE Append(upTo[i - 1], names[i])
    IN  IF names = Nil THEN first ELSE upTo[Len(names)]

-----------------------------------------------------------------------------
\* Mutant: the first profile that sets a key wins.
MutMergeStringMap(base, overlay) ==
    [k \in DOMAIN base \cup DOMAIN overlay |-> IF k \in DOMAIN base THEN base[k] ELSE overlay[k]]

mergeStringMap(base, overlay) ==
    [k \in DOMAIN base \cup DOMAIN overlay |-> IF k \in DOMAIN overlay THEN overlay[k] ELSE base[k]]

\* A field the overlay sets wins, false included.
overlayExplicitFields(base, overlay) == mergeStringMap(base, overlay)

mergeTolerations(base, overlay) ==
    FoldLeft(LAMBDA out, t : IF t \in ToSet(out) THEN out ELSE Append(out, t),
             base, overlay)

lastSet(base, overlay) == IF overlay # Unset THEN overlay ELSE base

intersectStrings(a, b) == a \cap b

mergeAllowedDomains(base, overlay) ==
    IF overlay = Nil THEN base
    ELSE IF base = Nil THEN overlay ELSE intersectStrings(base, overlay)

\* The stricter ceiling; 0 is no ceiling.
minQuantity(a, b) == IF a = 0 THEN b ELSE IF b = 0 THEN a ELSE IF a <= b THEN a ELSE b

mergeProfileMetrics(base, overlay) ==
    [labels |-> mergeStringMap(base.labels, overlay.labels),
     interval |-> lastSet(base.interval, overlay.interval),
     honor |-> IF overlay.honor # Nil THEN overlay.honor ELSE base.honor,
     relabelings |-> base.relabelings \o overlay.relabelings]

mergeProfile(m, p) ==
    LET metrics == mergeProfileMetrics(m, p)
    IN  [nodeSelector |-> mergeStringMap(m.nodeSelector, p.nodeSelector),
         security |-> overlayExplicitFields(m.security, p.security),
         tolerations |-> mergeTolerations(m.tolerations, p.tolerations),
         storageClass |-> lastSet(m.storageClass, p.storageClass),
         whenDeleted |-> lastSet(m.whenDeleted, p.whenDeleted),
         whenScaled |-> lastSet(m.whenScaled, p.whenScaled),
         allowed |-> mergeAllowedDomains(m.allowed, p.allowed),
         maxCpu |-> minQuantity(m.maxCpu, p.maxCpu),
         maxMem |-> minQuantity(m.maxMem, p.maxMem),
         labels |-> metrics.labels, interval |-> metrics.interval,
         honor |-> metrics.honor, relabelings |-> metrics.relabelings]

MergeCode(names, profiles) ==
    IF names # <<>> /\ \E n \in ToSet(names) : n \notin DOMAIN profiles
    THEN "PROFILE_NOT_FOUND" ELSE NoCode

\* Left to right.
MergeProfiles(names, profiles) ==
    LET upTo[i \in 0 .. Len(names)] ==
            IF i = 0 THEN NoProfile ELSE mergeProfile(upTo[i - 1], profiles[names[i]])
    IN  upTo[Len(names)]

-----------------------------------------------------------------------------
\* What is checked has cpu, mem and eph (Nil: not given), a preset and
\* metrics. There is no ceiling for eph.
quantitySet(q) == q # Nil /\ q # 0

ResourcesSet(t) == quantitySet(t.cpu) \/ quantitySet(t.mem) \/ quantitySet(t.eph)

\* ... a zero included.
ResourcesPresent(t) == t.cpu # Nil \/ t.mem # Nil \/ t.eph # Nil

\* Mutant: only what is written is checked, not the preset deploy applies.
MutEffectiveResourceRequests(t) == [cpu |-> t.cpu, mem |-> t.mem, eph |-> t.eph]

effectiveResourceRequests(t) ==
    IF ResourcesSet(t) THEN [cpu |-> t.cpu, mem |-> t.mem, eph |-> t.eph]
    ELSE ResourcePresetMappings[IF t.preset = Unset THEN "small" ELSE t.preset]

exceeds(req, max) == quantitySet(max) /\ quantitySet(req) /\ req > max

checkResourceCeiling(t, m) ==
    LET req == effectiveResourceRequests(t)
    IN  ~exceeds(req.cpu, m.maxCpu) /\ ~exceeds(req.mem, m.maxMem)

MetricsEnabled(m) == m # Nil /\ ~m.off /\ m.enabled # FALSE

\* classes: the storageClasses of the environment.
ValidateProfile(t, m, classes, domainKey) ==
    IF m.allowed # Nil /\ domainKey # Unset /\ domainKey \notin m.allowed
    THEN "PROFILE_DOMAIN_NOT_ALLOWED"
    ELSE IF m.storageClass # Unset /\ m.storageClass \notin DOMAIN classes
    THEN "PROFILE_STORAGE_CLASS_NOT_FOUND"
    ELSE IF ~checkResourceCeiling(t, m) THEN "PROFILE_RESOURCE_EXCEEDED"
    ELSE IF MetricsEnabled(t.metrics) /\ DOMAIN m.labels = {}
    THEN "PROFILE_MONITOR_LABELS_MISSING"
    ELSE NoCode
=============================================================================
