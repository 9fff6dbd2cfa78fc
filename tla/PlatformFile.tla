------------------------------ MODULE PlatformFile ------------------------------
(***************************************************************************)
(* The platform file on disk (internal/spec/platform_loader.go). It is Nil *)
(* or [cfg, nulls]: what it says, and the profiles in which it spells      *)
(* `allowedDomains: null`. The schema wants an array there, but the        *)
(* encoder writes null for a list that was left out.                       *)
(***************************************************************************)
EXTENDS Resolution

EmptyEntry == [ctx |-> Unset, domains |-> Nil, classes |-> Nil, static |-> FALSE]

\* One, of the address the local cluster is reached at.
LocalDomains ==
    [public |-> [base |-> <<"127-0-0-1", "nip", "io">>, default |-> FALSE, tls |-> "selfSigned"]]

\* Mutant: no domain for the local cluster.
MutLocalPlatformEnvironment == [EmptyEntry EXCEPT !.ctx = "kind-deployah"]

LocalPlatformEnvironment ==
    [EmptyEntry EXCEPT !.ctx = "kind-deployah", !.domains = LocalDomains]

-----------------------------------------------------------------------------
validatePlatformYAML(f) == f.nulls = {}

\* At most one default per environment; profiles only name what some
\* environment defines. (baseDomain and the TLS fields are per value.)
validatePlatformConsistency(cfg) ==
    LET entries == {cfg.envs[k] : k \in DOMAIN cfg.envs}
        profs == {cfg.profiles[n] : n \in Keys(cfg.profiles)}
        allDomains == UNION {Keys(pe.domains) : pe \in entries}
        allClasses == UNION {Keys(pe.classes) : pe \in entries}
    IN  /\ \A pe \in entries :
              Cardinality({k \in Keys(pe.domains) : pe.domains[k].default}) <= 1
        /\ \A p \in profs : /\ p.allowed # Nil => p.allowed \subseteq allDomains
                            /\ p.storageClass # Unset => p.storageClass \in allClasses

\* Does the file load? What it loads to is its cfg.
LoadPlatform(f) == f # Nil /\ validatePlatformYAML(f) /\ validatePlatformConsistency(f.cfg)

\* Mutant: an empty list is written as one that was left out.
MutWritePlatformFile(cfg) ==
    [cfg |-> cfg,
     nulls |-> {n \in Keys(cfg.profiles) : cfg.profiles[n].allowed \in {Nil, {}}}]

writePlatformFile(cfg) ==
    [cfg |-> cfg,
     nulls |-> {n \in Keys(cfg.profiles) : cfg.profiles[n].allowed = Nil}]

newEntry(name) == IF name = "local" THEN LocalPlatformEnvironment ELSE EmptyEntry

newPlatformEnvironments(names) == [profiles |-> Nil, envs |-> [n \in names |-> newEntry(n)]]

\* Mutant: every name gets a fresh entry.
MutAddMissing(cfg, names) == [cfg EXCEPT !.envs = [n \in names |-> newEntry(n)] @@ @]

\* The loop of EnsurePlatformEnvironments: keys that exist are kept.
addMissing(cfg, names) ==
    [profiles |-> cfg.profiles,
     envs |-> [n \in DOMAIN cfg.envs \cup names |->
                 IF n \in DOMAIN cfg.envs THEN cfg.envs[n] ELSE newEntry(n)]]

MissingPlatformEnvironments(cfg, names) == names \ DOMAIN cfg.envs

\* What EnsurePlatformEnvironments writes when it found the file as seen;
\* Nil when it writes nothing.
EnsurePlatformEnvironments(seen, names) ==
    IF seen = Nil THEN writePlatformFile(newPlatformEnvironments(names))
    ELSE IF LoadPlatform(seen) /\ MissingPlatformEnvironments(seen.cfg, names) # {}
    THEN writePlatformFile(addMissing(seen.cfg, names)) ELSE Nil

\* cluster up only creates.
ScaffoldPlatformFile(seen, names) ==
    IF seen = Nil THEN writePlatformFile(newPlatformEnvironments(names)) ELSE Nil
=============================================================================
