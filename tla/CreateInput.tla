---------------------------- MODULE CreateInput ----------------------------
(***************************************************************************)
(* What "create cluster" reads and writes on the user's disk: runE of      *)
(* createcluster.go up to the creation, and the two calls the createworker *)
(* action makes for the files, EnsureSecretsFile and RewriteDescriptorFile.*)
(*                                                                         *)
(* Two files: the descriptor, from which the credentials are removed once  *)
(* they are in the other one, and the encrypted secrets file.  The user    *)
(* calls the program again and again and edits the descriptor at any time; *)
(* a call may fail or be killed at every step, a kill during a write       *)
(* leaves the file Torn.                                                   *)
(***************************************************************************)
EXTENDS Descriptor

CONSTANTS
    Files,          \* the descriptors the user may begin with
    EditedFiles,    \* the descriptors the user may go on with
    Clouds,         \* what the cloud may answer a call
    FlagSets,       \* the sets of flags of a call
    Passwords,      \* vault passwords
    MaxCalls, MaxEdits, MaxCuts   \* bounds on calls, edits and cut writes

ASSUME CreateInputAssumption == {MaxCalls, MaxEdits, MaxCuts} \subseteq Nat

(* A file is a spec with credentials; the values of those of the provider  *)
(* are told apart by an id.                                                *)
ASSUME FilesAssumption ==
    \A d \in Files \union EditedFiles :
        /\ DOMAIN d = {"spec", "creds"}
        /\ DOMAIN d.spec = Sections
        /\ "auth" \in DOMAIN d.spec.helm
        /\ {"enabled", "pool", "accounts"} \subseteq DOMAIN d.spec.identity
        /\ DOMAIN d.creds.provider = {"id", "url", "region", "project", "missing"}
        /\ d.creds.provider.id = "" =>
              d.creds.provider = [id |-> "", url |-> "", region |-> "", project |-> "", missing |-> {}]

VARIABLES
    descriptor,     \* the descriptor file, or Torn
    secrets,        \* the secrets file, Absent or Torn
    call,           \* the running call: its program counter and local variables
    held,           \* credentials of the accepted call that nobody has edited away
    lost,           \* what a secrets file that was cut had held since then
    stored,         \* provider credentials at the time the present file first had them
    settled,        \* the cloud of the last accepted call, if nothing changed since
    calls, edits, cuts

vars == <<descriptor, secrets, call, held, lost, stored, settled, calls, edits, cuts>>

Torn == [file |-> "torn"]

Absent == [file |-> "absent"]

Infra == {"aws", "azure", "gcp"}

(* Credentials with an id tell the values apart; missing are the fields    *)
(* that are not set.                                                       *)
NoCredential == [id |-> "", url |-> "", region |-> "", project |-> "", missing |-> {}]

NoCredentials ==
    [provider |-> NoCredential, registries |-> <<>>, helm |-> NoCredential, token |-> ""]

Idle == [pc |-> "idle"]

-----------------------------------------------------------------------------
(* Package validate, secrets.go.                                           *)

(* GetSecretsFile, as a function of the keys that are there.               *)
SecretsOf(f) == IF f \in {Absent, Torn} THEN [k \in {} |-> NoCredential] ELSE f.keys

Readable(f, password) ==
    IF f \in {Absent, Torn} THEN f = Absent ELSE f.password = password

Lookup(sec, key, otherwise) == IF key \in DOMAIN sec THEN sec[key] ELSE otherwise

(* validateStruct.                                                         *)
Complete(cred) == cred.missing = {}

ProviderDescriptorFirst(sec, spec, creds) ==
    IF creds.provider # NoCredential THEN creds.provider ELSE Lookup(sec, spec.infra, NoCredential)

(* The provider's credentials: the secrets file before the descriptor.     *)
ProviderCredentials(sec, spec, creds) == Lookup(sec, spec.infra, creds.provider)

(* An error that mentions RoleARN is dropped, whatever else it mentions.   *)
ValidateProviderCredentials(cred) ==
    /\ cred # NoCredential
    /\ Complete(cred) \/ "RoleARN" \in cred.missing

(* The registries that require credentials, and those of the cluster's     *)
(* images, by their place in the descriptor.                               *)
RegistriesOfDescriptor(sec, creds) == creds.registries

RegistryList(sec, creds) == Lookup(sec, "docker_registries", creds.registries)

AuthRegistries(spec) == {i \in DOMAIN spec.registries : spec.registries[i].auth}

KeosRegistries(spec) == {i \in DOMAIN spec.registries : spec.registries[i].keos}

CredentialsExist(list, spec) ==
    \A i \in AuthRegistries(spec) :
        \E k \in DOMAIN list : list[k].url = spec.registries[i].url /\ Complete(list[k])

ValidateRegistryCredentials(list, spec) ==
    LET url(x) == x.url
    IN  /\ Distinct(spec.registries, url)
        /\ AuthRegistries(spec) # {} => Distinct(list, url)
        /\ CredentialsExist(list, spec)
        /\ \E i \in DOMAIN spec.registries : KeosRegistries(spec) = {i}

(* What an accepted list holds for a registry that requires credentials:   *)
(* the one credential of that URL.  The credentials a call goes on with    *)
(* stand at the places of their registries.                                *)
CredentialsFor(url, list) == CHOOSE cred \in ToSet(list) : cred.url = url

RegistriesCredentials(list, spec) ==
    [i \in AuthRegistries(spec) |-> CredentialsFor(spec.registries[i].url, list)]

KeosRegistry(spec) == spec.registries[CHOOSE i \in DOMAIN spec.registries : spec.registries[i].keos]

KeosRegistryCredentials(list, spec) ==
    IF KeosRegistry(spec).auth THEN CredentialsFor(KeosRegistry(spec).url, list) ELSE NoCredential

(* The Helm repository: the secrets file only when all three are in it.    *)
HelmCredentials(sec, creds) ==
    LET cred == Lookup(sec, "helm_repository", NoCredential)
    IN  IF cred # NoCredential /\ Complete(cred) THEN cred ELSE creds.helm

ValidateHelmCredentials(cred, helm) ==
    helm.auth => helm.type = "generic" /\ cred.url = helm.url /\ Complete(cred)

GithubToken(sec, creds) == Lookup(sec, "github_token", creds.token)

(* validateCredentials: what a call may use.                               *)
ReadCredentials(sec, spec, creds) ==
    [provider   |-> ProviderCredentials(sec, spec, creds),
     registries |-> RegistriesCredentials(RegistryList(sec, creds), spec),
     keos       |-> KeosRegistryCredentials(RegistryList(sec, creds), spec),
     helm       |-> IF spec.helm.auth THEN HelmCredentials(sec, creds) ELSE NoCredential,
     token      |-> GithubToken(sec, creds)]

ValidateCredentials(sec, spec, creds) ==
    /\ ValidateProviderCredentials(ProviderCredentials(sec, spec, creds))
    /\ ValidateRegistryCredentials(RegistryList(sec, creds), spec)
    /\ ValidateHelmCredentials(HelmCredentials(sec, creds), spec.helm)
    /\ Fits(GithubToken(sec, creds))

(* validate.Cluster.                                                       *)
Cluster(f, password, spec, creds, c) ==
    /\ Readable(f, password)
    /\ ValidateCredentials(SecretsOf(f), spec, creds)
    /\ ValidateCommon(spec)
    /\ ValidateInfra(spec, ProviderCredentials(SecretsOf(f), spec, creds), c)

(* GetClusterDescriptor finds the project among the credentials.           *)
Parse(d) ==
    IF d = Torn THEN Rejected
    ELSE GetClusterDescriptor([d.spec EXCEPT !.project = d.creds.provider.project])

-----------------------------------------------------------------------------
(* Package commons, utils.go.                                              *)

(* For gcp and for managed clusters the region of the spec is added as     *)
(* "region".  AWS credentials have a "Region" too: both become the same    *)
(* key, and which one is left depends on the order of a map.               *)
WithRegion(cred, spec) ==
    IF spec.infra = "aws" /\ spec.managed
    THEN {[cred EXCEPT !.region = r] : r \in {cred.region, spec.region}}
    ELSE {cred}

(* Without a secrets file everything that is there goes to its key.        *)
Entry(key, value, none) == [k \in IF value = none THEN {} ELSE {key} |-> value]

Merge(f, g) == [k \in DOMAIN f \union DOMAIN g |-> IF k \in DOMAIN f THEN f[k] ELSE g[k]]

NewSecrets(creds, spec, provider) ==
    Merge(Entry(spec.infra, provider, NoCredential),
    Merge(Entry("docker_registry", creds.keos, NoCredential),
    Merge(Entry("docker_registries", creds.registries, <<>>),
    Merge(Entry("helm_repository", creds.helm, NoCredential),
          Entry("github_token", creds.token, "")))))

(* A secrets file that exists gets the keys it misses.  The credentials of *)
(* the Helm repository are missed under their own key and written under    *)
(* docker_registry, over those of the registry.                            *)
AddedSecrets(sec, fresh) ==
    LET rest == [k \in DOMAIN fresh \ {"helm_repository"} |-> fresh[k]]
    IN  IF "helm_repository" \in DOMAIN fresh \ DOMAIN sec
        THEN Merge([k \in {"docker_registry"} |-> fresh["helm_repository"]], Merge(sec, rest))
        ELSE Merge(sec, rest)

(* The contents EnsureSecretsFile may leave; a file that misses nothing is *)
(* not written again.                                                      *)
SecretsAfter(f, c) ==
    {LET fresh == NewSecrets(c.creds, c.spec, p)
     IN  [password |-> c.password, keys |-> IF f = Absent THEN fresh ELSE AddedSecrets(f.keys, fresh)] :
        p \in WithRegion(c.creds.provider, c.spec)}

Edited(f, c) ==
    ~(DOMAIN NewSecrets(c.creds, c.spec, c.creds.provider) \subseteq DOMAIN SecretsOf(f))

(* removeKey, applied to the whole manifest.                               *)
RemoveCredentials(d) == [d EXCEPT !.creds = NoCredentials]

(* The credentials, part by part, and those of them in each of the files   *)
(* where a call looks for them.                                            *)
Named(cred) == {cred.id} \ {""}

Parts(creds) ==
    [provider   |-> Named(creds.provider),
     registries |-> UNION {Named(cred) : cred \in ToSet(creds.registries)},
     helm       |-> Named(creds.helm),
     token      |-> {creds.token} \ {""}]

InDescriptor(d) == Parts(IF d = Torn THEN NoCredentials ELSE d.creds)

InSecrets(f) ==
    [Parts([provider   |-> NoCredential,
            registries |-> Lookup(SecretsOf(f), "docker_registries", <<>>),
            helm       |-> Lookup(SecretsOf(f), "helm_repository", NoCredential),
            token      |-> Lookup(SecretsOf(f), "github_token", "")])
        EXCEPT !.provider = UNION {Named(Lookup(SecretsOf(f), i, NoCredential)) : i \in Infra}]

-----------------------------------------------------------------------------
Init ==
    /\ descriptor \in Files
    /\ secrets = Absent
    /\ call = Idle
    /\ held = Parts(NoCredentials) /\ lost = Parts(NoCredentials)
    /\ stored = [i \in Infra |-> ""]
    /\ settled = {}
    /\ calls = 0 /\ edits = 0 /\ cuts = 0

KeepFiles == UNCHANGED <<descriptor, secrets>>

KeepHistory == UNCHANGED <<held, lost, stored, settled, calls, edits, cuts>>

Exclusive == {"avoid-creation", "retain", "keep-mgmt"}

(* The call up to GetClusterDescriptor: with more than one of three flags, *)
(* with two passwords that differ or with a descriptor that does not parse *)
(* it ends at once.                                                        *)
Call(flags, password) ==
    /\ call = Idle
    /\ calls < MaxCalls
    /\ calls' = calls + 1
    /\ Cardinality(flags \intersect Exclusive) <= 1
    /\ Parse(descriptor) # Rejected
    /\ call' = [pc |-> "validate", flags |-> flags, password |-> password,
                spec |-> Parse(descriptor), read |-> descriptor]
    /\ KeepFiles /\ UNCHANGED <<held, lost, stored, settled, edits, cuts>>

(* provider.Validate: the descriptor as it was parsed, the secrets file as *)
(* it is now.                                                              *)
Validate(c) ==
    /\ call.pc = "validate"
    /\ Cluster(secrets, call.password, call.spec, call.read.creds, c)
    /\ LET creds == ReadCredentials(SecretsOf(secrets), call.spec, call.read.creds)
           unedited == descriptor = call.read
       IN  /\ call' = [pc |-> "private", flags |-> call.flags, password |-> call.password,
                       spec |-> call.spec, creds |-> creds]
           /\ held' = Parts(IF unedited THEN creds ELSE NoCredentials)
           /\ lost' = Parts(NoCredentials)
           /\ settled' = IF unedited
                         THEN {[cloud |-> c, region |-> creds.provider.region, password |-> call.password]}
                         ELSE {}
    /\ KeepFiles /\ UNCHANGED <<stored, calls, edits, cuts>>

(* getConfigFile, for a private cluster: the login to the registry of the  *)
(* cluster's images, with a token of the cloud or with the registry's own  *)
(* credentials.                                                            *)
LoginCredential(spec, creds) ==
    CASE KeosRegistry(spec).type # "generic" -> creds.provider
      [] KeosRegistry(spec).type = "generic" /\ KeosRegistry(spec).auth -> creds.keos
      [] OTHER -> NoCredential

GetConfigFile ==
    /\ call.pc = "private"
    /\ call' = [pc |-> "create", flags |-> call.flags, password |-> call.password,
                spec |-> call.spec, creds |-> call.creds,
                login |-> IF call.spec.config.private THEN {LoginCredential(call.spec, call.creds)} ELSE {}]
    /\ KeepFiles /\ KeepHistory

(* --validate-only: nothing is written.                                    *)
ValidateOnly ==
    /\ call.pc = "create"
    /\ "validate-only" \in call.flags
    /\ call' = Idle
    /\ KeepFiles /\ KeepHistory

(* The local cluster is created and the action has installed the providers *)
(* when it comes to the files.                                             *)
EnsureSecretsFile ==
    /\ call.pc = "create"
    /\ "validate-only" \notin call.flags
    /\ Readable(secrets, call.password)
    /\ secrets' \in IF Edited(secrets, call) THEN SecretsAfter(secrets, call) ELSE {secrets}
    /\ stored' = [stored EXCEPT ![call.spec.infra] = IF @ = "" THEN call.creds.provider.id ELSE @]
    /\ call' = [pc |-> "rewrite"]
    /\ UNCHANGED <<descriptor, held, lost, settled, calls, edits, cuts>>

RewriteFirst ==
    /\ call.pc = "create"
    /\ "validate-only" \notin call.flags
    /\ descriptor # Torn
    /\ call' = [pc |-> "write", read |-> descriptor]
    /\ KeepFiles /\ KeepHistory

(* RewriteDescriptorFile reads the file again, and writes it.              *)
RewriteRead ==
    /\ call.pc = "rewrite"
    /\ descriptor # Torn
    /\ call' = [pc |-> "write", read |-> descriptor]
    /\ KeepFiles /\ KeepHistory

RewriteDescriptorFile ==
    /\ call.pc = "write"
    /\ descriptor' = RemoveCredentials(call.read)
    /\ call' = Idle
    /\ UNCHANGED secrets /\ KeepHistory

(* Any step may fail, or the program be killed; nothing is undone.  The    *)
(* rest of the creation does not touch the files.                          *)
FailOrKill ==
    /\ call # Idle
    /\ call' = Idle
    /\ KeepFiles /\ KeepHistory

(* The same while it writes one of the files.  A first secrets file that   *)
(* is cut has taken nothing from the descriptor yet; encryptSecret writes  *)
(* one that exists in place, and what it held is lost.                     *)
CutSecrets ==
    /\ call.pc = "create"
    /\ "validate-only" \notin call.flags
    /\ Readable(secrets, call.password) /\ Edited(secrets, call)
    /\ cuts < MaxCuts /\ cuts' = cuts + 1
    /\ secrets' = Torn
    /\ call' = Idle
    /\ lost' = [part \in DOMAIN lost |-> lost[part] \union InSecrets(secrets)[part]]
    /\ settled' = IF secrets = Absent THEN settled ELSE {}
    /\ stored' = [i \in Infra |-> ""]
    /\ UNCHANGED <<descriptor, held, calls, edits>>

CutDescriptor ==
    /\ call.pc = "write"
    /\ cuts < MaxCuts /\ cuts' = cuts + 1
    /\ descriptor' = Torn
    /\ call' = Idle
    /\ settled' = {}
    /\ UNCHANGED <<secrets, held, lost, stored, calls, edits>>

(* The user writes a descriptor, at any time.  What only the old one held  *)
(* is the user's to keep.                                                  *)
UserEdit(d) ==
    /\ edits < MaxEdits
    /\ edits' = edits + 1
    /\ descriptor' = d
    /\ settled' = {}
    /\ held' = [part \in DOMAIN held |-> held[part] \intersect InSecrets(secrets)[part]]
    /\ UNCHANGED <<secrets, call, lost, stored, calls, cuts>>

(* The user removes a secrets file that no password opens.                 *)
UserRemovesTorn ==
    /\ secrets = Torn /\ call = Idle
    /\ secrets' = Absent
    /\ UNCHANGED <<descriptor, call, held, lost, stored, settled, calls, edits, cuts>>

Next ==
    \/ \E flags \in FlagSets, p \in Passwords : Call(flags, p)
    \/ \E c \in Clouds : Validate(c)
    \/ GetConfigFile \/ ValidateOnly \/ EnsureSecretsFile
    \/ RewriteRead \/ RewriteDescriptorFile
    \/ FailOrKill \/ CutSecrets \/ CutDescriptor
    \/ \E d \in EditedFiles : UserEdit(d)
    \/ UserRemovesTorn

Spec == Init /\ [][Next]_vars

-----------------------------------------------------------------------------
Kept(part) ==
    held[part] \subseteq InDescriptor(descriptor)[part] \union InSecrets(secrets)[part] \union lost[part]

(* Whatever fails, and wherever a call is killed, the credentials that a   *)
(* call was accepted with are in one of the two files where a later call   *)
(* looks for them, with two exceptions: the user takes them out of the     *)
(* descriptor before they are stored, or they were in a secrets file that  *)
(* was being written again when the call was killed (encryptSecret does    *)
(* not write beside it and rename).  Then the credentials that were to be  *)
(* added are still in the descriptor.  It rests on the order of the two    *)
(* writes: EnsureSecretsFile is done when RewriteDescriptorFile begins.    *)
CredentialsKept == Kept("provider") /\ Kept("registries") /\ Kept("token")

(* The same of the Helm repository.                                        *)
HelmCredentialsKept == Kept("helm")

(* Once the key of a cloud is in the secrets file every accepted call for  *)
(* that cloud works with it, whatever the descriptor says by then, for as  *)
(* long as that file is there and whole: the cluster that an earlier call  *)
(* began is not continued with another key.                                *)
StoredWins ==
    call.pc \in {"private", "create"} /\ stored[call.spec.infra] # "" =>
        call.creds.provider.id = stored[call.spec.infra]

(* A call that was accepted is accepted again, after a failure or a kill   *)
(* at any step, as long as the user changes nothing and the cloud answers  *)
(* the same: with the credentials in the descriptor or in the secrets file.*)
(* A torn first secrets file is removed by hand; one that was torn while   *)
(* a key was added is not covered.  There are two exceptions.  Helm        *)
(* credentials that went to docker_registry (HelmCredentialsKept), and an  *)
(* EKS cluster whose credentials are of another region than the cluster:   *)
(* EnsureSecretsFile may have stored the region of the spec over theirs    *)
(* (WithRegion), and the rerun asks there instead.                         *)
HelmMisplaced ==
    /\ descriptor.spec.helm.auth /\ descriptor.creds.helm = NoCredential
    /\ InSecrets(secrets).helm = {}

AsksElsewhere(f, d, creds, region) ==
    /\ Parse(d).infra = "aws" /\ Parse(d).managed
    /\ ProviderCredentials(SecretsOf(f), Parse(d), creds).region # region

RerunAccepted ==
    call = Idle /\ secrets # Torn =>
        \A s \in settled :
            \/ HelmMisplaced \/ AsksElsewhere(secrets, descriptor, descriptor.creds, s.region)
            \/ /\ Parse(descriptor) # Rejected
               /\ Cluster(secrets, s.password, Parse(descriptor), descriptor.creds, s.cloud)

=============================================================================
