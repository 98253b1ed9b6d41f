------------------------- MODULE CreateInputProofs -------------------------
(***************************************************************************)
(* Theorems about CreateInput, for every set of descriptors, clouds and    *)
(* passwords and any number of calls, edits and cut writes.                *)
(***************************************************************************)
EXTENDS CreateInput, TLAPS

-----------------------------------------------------------------------------
(* What the operations on the secrets file do to its keys.                 *)

KeptKeys == Infra \union {"docker_registries", "github_token"}

LEMMA MergeKeys ==
  ASSUME NEW f, NEW g
  PROVE  /\ DOMAIN Merge(f, g) = DOMAIN f \union DOMAIN g
         /\ \A k \in DOMAIN f : Merge(f, g)[k] = f[k]
         /\ \A k \in DOMAIN g \ DOMAIN f : Merge(f, g)[k] = g[k]
BY DEF Merge

LEMMA EntryKeys ==
  ASSUME NEW key, NEW value, NEW none
  PROVE  /\ DOMAIN Entry(key, value, none) = IF value = none THEN {} ELSE {key}
         /\ \A k \in DOMAIN Entry(key, value, none) : Entry(key, value, none)[k] = value
BY DEF Entry

LEMMA NoId == NoCredential.id = ""
BY DEF NoCredential

(* What goes under the keys that are read back.                            *)
FreshOf(fresh, creds, spec, p) ==
    /\ \A i \in Infra : i \in DOMAIN fresh <=> i = spec.infra /\ p # NoCredential
    /\ p # NoCredential => fresh[spec.infra] = p
    /\ "docker_registries" \in DOMAIN fresh <=> creds.registries # <<>>
    /\ creds.registries # <<>> => fresh["docker_registries"] = creds.registries
    /\ "github_token" \in DOMAIN fresh <=> creds.token # ""
    /\ creds.token # "" => fresh["github_token"] = creds.token
    /\ "helm_repository" \in DOMAIN fresh <=> creds.helm # NoCredential
    /\ creds.helm # NoCredential => fresh["helm_repository"] = creds.helm

LEMMA FreshKeys ==
  ASSUME NEW creds, NEW spec, NEW p, spec.infra \in Infra
  PROVE  FreshOf(NewSecrets(creds, spec, p), creds, spec, p)
<1> DEFINE e1 == Entry(spec.infra, p, NoCredential)
           e2 == Entry("docker_registry", creds.keos, NoCredential)
           e3 == Entry("docker_registries", creds.registries, <<>>)
           e4 == Entry("helm_repository", creds.helm, NoCredential)
           e5 == Entry("github_token", creds.token, "")
           m4 == Merge(e4, e5)
           m3 == Merge(e3, m4)
           m2 == Merge(e2, m3)
           m1 == Merge(e1, m2)
<1>1. /\ DOMAIN e1 = IF p = NoCredential THEN {} ELSE {spec.infra}
      /\ \A k \in DOMAIN e1 : e1[k] = p
  BY EntryKeys
<1>2. DOMAIN e2 \subseteq {"docker_registry"}
  BY EntryKeys
<1>3. /\ DOMAIN e3 = IF creds.registries = <<>> THEN {} ELSE {"docker_registries"}
      /\ \A k \in DOMAIN e3 : e3[k] = creds.registries
  BY EntryKeys
<1>4. DOMAIN e4 \subseteq {"helm_repository"}
  BY EntryKeys
<1>4a. /\ DOMAIN e4 = IF creds.helm = NoCredential THEN {} ELSE {"helm_repository"}
       /\ \A k \in DOMAIN e4 : e4[k] = creds.helm
  BY EntryKeys
<1>5. /\ DOMAIN e5 = IF creds.token = "" THEN {} ELSE {"github_token"}
      /\ \A k \in DOMAIN e5 : e5[k] = creds.token
  BY EntryKeys
<1> HIDE DEF e1, e2, e3, e4, e5
<1>6. /\ DOMAIN m4 = DOMAIN e4 \union DOMAIN e5
      /\ \A k \in DOMAIN e4 : m4[k] = e4[k]
      /\ \A k \in DOMAIN e5 \ DOMAIN e4 : m4[k] = e5[k]
  BY MergeKeys
<1> HIDE DEF m4
<1>7. /\ DOMAIN m3 = DOMAIN e3 \union DOMAIN m4
      /\ \A k \in DOMAIN e3 : m3[k] = e3[k]
      /\ \A k \in DOMAIN m4 \ DOMAIN e3 : m3[k] = m4[k]
  BY MergeKeys
<1> HIDE DEF m3
<1>8. /\ DOMAIN m2 = DOMAIN e2 \union DOMAIN m3
      /\ \A k \in DOMAIN m3 \ DOMAIN e2 : m2[k] = m3[k]
  BY MergeKeys
<1> HIDE DEF m2
<1>9. /\ DOMAIN m1 = DOMAIN e1 \union DOMAIN m2
      /\ \A k \in DOMAIN e1 : m1[k] = e1[k]
      /\ \A k \in DOMAIN m2 \ DOMAIN e1 : m1[k] = m2[k]
  BY MergeKeys
<1>10. NewSecrets(creds, spec, p) = m1
  BY DEF NewSecrets, e1, e2, e3, e4, e5, m4, m3, m2
<1> HIDE DEF m1
<1>11. spec.infra \in {"aws", "azure", "gcp"}
  BY DEF Infra
<1>12. DOMAIN m1 = DOMAIN e1 \union DOMAIN e2 \union DOMAIN e3 \union DOMAIN e4 \union DOMAIN e5
  BY <1>6, <1>7, <1>8, <1>9
<1>13. \A i \in Infra : i \in DOMAIN m1 <=> i = spec.infra /\ p # NoCredential
  BY <1>12, <1>1, <1>2, <1>3, <1>4, <1>5 DEF Infra
<1>14. p # NoCredential => m1[spec.infra] = p
  BY <1>9, <1>1
<1>15. /\ "docker_registries" \in DOMAIN m1 <=> creds.registries # <<>>
       /\ creds.registries # <<>> => m1["docker_registries"] = creds.registries
  <2>1. "docker_registries" \notin DOMAIN e1 \union DOMAIN e2 \union DOMAIN e4 \union DOMAIN e5
    <3>1. "docker_registries" \notin DOMAIN e1
      BY <1>1, <1>11
    <3>2. "docker_registries" \notin DOMAIN e2 /\ "docker_registries" \notin DOMAIN e4
      BY <1>2, <1>4
    <3>3. DOMAIN e5 \subseteq {"github_token"}
      BY <1>5
    <3>4. "docker_registries" \notin DOMAIN e5
      BY <3>3
    <3> QED
      BY <3>1, <3>2, <3>4
  <2>2. "docker_registries" \in DOMAIN m1 <=> creds.registries # <<>>
    BY <2>1, <1>12, <1>3
  <2>3. ASSUME creds.registries # <<>>
        PROVE  m1["docker_registries"] = creds.registries
    <3>1. "docker_registries" \in DOMAIN e3 /\ e3["docker_registries"] = creds.registries
      BY <2>3, <1>3
    <3> QED
      BY <3>1, <2>1, <1>7, <1>8, <1>9
  <2> QED
    BY <2>2, <2>3
<1>16. /\ "github_token" \in DOMAIN m1 <=> creds.token # ""
       /\ creds.token # "" => m1["github_token"] = creds.token
  <2>1. "github_token" \notin DOMAIN e1 \union DOMAIN e2 \union DOMAIN e3 \union DOMAIN e4
    BY <1>1, <1>2, <1>3, <1>4, <1>11
  <2>2. "github_token" \in DOMAIN m1 <=> creds.token # ""
    BY <2>1, <1>12, <1>5
  <2>3. ASSUME creds.token # ""
        PROVE  m1["github_token"] = creds.token
    <3>1. "github_token" \in DOMAIN e5 /\ e5["github_token"] = creds.token
      BY <2>3, <1>5
    <3> QED
      BY <3>1, <2>1, <1>6, <1>7, <1>8, <1>9
  <2> QED
    BY <2>2, <2>3
<1>17. /\ "helm_repository" \in DOMAIN m1 <=> creds.helm # NoCredential
       /\ creds.helm # NoCredential => m1["helm_repository"] = creds.helm
  <2>1. "helm_repository" \notin DOMAIN e1 \union DOMAIN e2 \union DOMAIN e3 \union DOMAIN e5
    <3>1. "helm_repository" \notin DOMAIN e1
      BY <1>1, <1>11
    <3>2. DOMAIN e3 \subseteq {"docker_registries"} /\ DOMAIN e5 \subseteq {"github_token"}
      BY <1>3, <1>5
    <3> QED
      BY <3>1, <3>2, <1>2
  <2>2. "helm_repository" \in DOMAIN m1 <=> creds.helm # NoCredential
    BY <2>1, <1>12, <1>4a
  <2>3. ASSUME creds.helm # NoCredential
        PROVE  m1["helm_repository"] = creds.helm
    <3>1. "helm_repository" \in DOMAIN e4 /\ e4["helm_repository"] = creds.helm
      BY <2>3, <1>4a
    <3> QED
      BY <3>1, <2>1, <1>6, <1>7, <1>8, <1>9
  <2> QED
    BY <2>2, <2>3
<1> QED
  BY <1>10, <1>13, <1>14, <1>15, <1>16, <1>17 DEF FreshOf

(* Keys that are added keep out of the way of those that are there.        *)
LEMMA AddedKeys ==
  ASSUME NEW sec, NEW fresh, NEW k \in KeptKeys
  PROVE  /\ k \in DOMAIN AddedSecrets(sec, fresh) <=> k \in DOMAIN sec \union DOMAIN fresh
         /\ k \in DOMAIN sec => AddedSecrets(sec, fresh)[k] = sec[k]
         /\ k \in DOMAIN fresh \ DOMAIN sec => AddedSecrets(sec, fresh)[k] = fresh[k]
<1> DEFINE rest == [j \in DOMAIN fresh \ {"helm_repository"} |-> fresh[j]]
           both == Merge(sec, rest)
           helm == [j \in {"docker_registry"} |-> fresh["helm_repository"]]
           all == Merge(helm, both)
<1>1. k \notin {"helm_repository", "docker_registry"}
  BY DEF KeptKeys, Infra
<1>2. k \in DOMAIN rest <=> k \in DOMAIN fresh
  BY <1>1
<1>3. k \in DOMAIN fresh => rest[k] = fresh[k]
  BY <1>1
<1>4. k \notin DOMAIN helm
  BY <1>1
<1>5. AddedSecrets(sec, fresh) \in {all, both}
  BY DEF AddedSecrets
<1> HIDE DEF rest, helm
<1>6. /\ DOMAIN both = DOMAIN sec \union DOMAIN rest
      /\ \A j \in DOMAIN sec : both[j] = sec[j]
      /\ \A j \in DOMAIN rest \ DOMAIN sec : both[j] = rest[j]
  BY MergeKeys
<1> HIDE DEF both
<1>7. /\ DOMAIN all = DOMAIN helm \union DOMAIN both
      /\ \A j \in DOMAIN both \ DOMAIN helm : all[j] = both[j]
  BY MergeKeys
<1> HIDE DEF all
<1> QED
  BY <1>2, <1>3, <1>4, <1>5, <1>6, <1>7

(* The key of the Helm repository is never added.                          *)
LEMMA AddedHelm ==
  ASSUME NEW sec, NEW fresh
  PROVE  /\ "helm_repository" \in DOMAIN AddedSecrets(sec, fresh) <=> "helm_repository" \in DOMAIN sec
         /\ "helm_repository" \in DOMAIN sec =>
               AddedSecrets(sec, fresh)["helm_repository"] = sec["helm_repository"]
<1> DEFINE k == "helm_repository"
           rest == [j \in DOMAIN fresh \ {"helm_repository"} |-> fresh[j]]
           both == Merge(sec, rest)
           helm == [j \in {"docker_registry"} |-> fresh["helm_repository"]]
           all == Merge(helm, both)
<1>1. k \notin DOMAIN rest
  OBVIOUS
<1>2. k \notin DOMAIN helm
  OBVIOUS
<1>3. AddedSecrets(sec, fresh) \in {all, both}
  BY DEF AddedSecrets
<1> HIDE DEF rest, helm
<1>4. /\ DOMAIN both = DOMAIN sec \union DOMAIN rest
      /\ \A j \in DOMAIN sec : both[j] = sec[j]
  BY MergeKeys
<1> HIDE DEF both
<1>5. /\ DOMAIN all = DOMAIN helm \union DOMAIN both
      /\ \A j \in DOMAIN both \ DOMAIN helm : all[j] = both[j]
  BY MergeKeys
<1> HIDE DEF all
<1> QED
  BY <1>1, <1>2, <1>3, <1>4, <1>5

(* A file that was written is neither absent nor torn.                     *)
LEMMA Written ==
  ASSUME NEW a, NEW b
  PROVE  SecretsOf([password |-> a, keys |-> b]) = b
<1> DEFINE r == [password |-> a, keys |-> b]
<1>1. "keys" \in DOMAIN r
  OBVIOUS
<1>2. "keys" \notin DOMAIN Absent /\ "keys" \notin DOMAIN Torn
  BY DEF Absent, Torn
<1>3. r \notin {Absent, Torn}
  BY <1>1, <1>2
<1> QED
  BY <1>3 DEF SecretsOf

(* Neither of the two other states of the file holds anything.             *)
LEMMA NothingStored ==
  DOMAIN SecretsOf(Absent) = {} /\ SecretsOf(Torn) = SecretsOf(Absent)
BY DEF SecretsOf

LEMMA ReadableIsWhole ==
  ASSUME NEW f, NEW password, Readable(f, password)
  PROVE  f # Torn
<1>1. Torn.file = "torn" /\ Absent.file = "absent"
  BY DEF Torn, Absent
<1>2. Torn # Absent
  BY <1>1
<1> QED
  BY <1>2 DEF Readable

-----------------------------------------------------------------------------
(* The shape of files and calls.                                           *)

(* Credentials of a provider.                                              *)
IsKey(cred) == DOMAIN cred = DOMAIN NoCredential /\ cred.id # ""

WellFormed(d) ==
    /\ {"spec", "creds"} \subseteq DOMAIN d
    /\ DOMAIN d.spec = Sections
    /\ "auth" \in DOMAIN d.spec.helm
    /\ {"enabled", "pool", "accounts"} \subseteq DOMAIN d.spec.identity
    /\ d.creds.provider = NoCredential \/ IsKey(d.creds.provider)

Shapes ==
    /\ descriptor = Torn \/ WellFormed(descriptor)
    /\ \A i \in Infra \intersect DOMAIN SecretsOf(secrets) : IsKey(SecretsOf(secrets)[i])
    /\ call.pc = "validate" => call.spec.infra \in Infra /\ WellFormed(call.read)
    /\ call.pc \in {"private", "create"} => call.spec.infra \in Infra /\ IsKey(call.creds.provider)
    /\ call.pc = "write" => WellFormed(call.read)
    /\ DOMAIN held = DOMAIN Parts(NoCredentials)
    /\ DOMAIN lost = DOMAIN Parts(NoCredentials)
    /\ DOMAIN stored = Infra

(* The call works with the secrets file's credentials, where it has any.   *)
Reads ==
    call.pc \in {"private", "create"} =>
        LET sec == SecretsOf(secrets)
        IN  /\ call.spec.infra \in DOMAIN sec => call.creds.provider = sec[call.spec.infra]
            /\ "github_token" \in DOMAIN sec => call.creds.token = sec["github_token"]
            /\ "docker_registries" \in DOMAIN sec =>
                  ToSet(call.creds.registries) \subseteq ToSet(sec["docker_registries"])

LEMMA FilesWellFormed ==
  ASSUME NEW d \in Files \union EditedFiles
  PROVE  WellFormed(d)
<1>1. /\ {"spec", "creds"} \subseteq DOMAIN d
      /\ DOMAIN d.spec = Sections
      /\ "auth" \in DOMAIN d.spec.helm
      /\ {"enabled", "pool", "accounts"} \subseteq DOMAIN d.spec.identity
  BY FilesAssumption
<1>2. DOMAIN d.creds.provider = DOMAIN NoCredential
  BY FilesAssumption DEF NoCredential
<1>3. d.creds.provider.id = "" => d.creds.provider = NoCredential
  BY FilesAssumption DEF NoCredential
<1> QED
  BY <1>1, <1>2, <1>3 DEF WellFormed, IsKey

(* A descriptor that parses names a known cloud.                           *)
LEMMA ParsedInfra ==
  ASSUME NEW d, WellFormed(d), Parse(d) # Rejected
  PROVE  Parse(d).infra \in Infra
<1> DEFINE s0 == d.spec
           s1 == [s0 EXCEPT !.project = d.creds.provider.project]
           s2 == KeosSpecInit(s1)
           s3 == DefaultWorkloadPool(s2)
           s4 == [s3 EXCEPT !.config = ClusterConfigOf(s3)]
           s5 == Clean(s4)
<1>1. "infra" \in DOMAIN s0
  BY DEF WellFormed, Sections
<1>2. Parse(d) = GetClusterDescriptor(s1)
  BY DEF Parse
<1> HIDE DEF s0
<1>3. "infra" \in DOMAIN s1
  BY <1>1
<1> HIDE DEF s1
<1>4. "infra" \in DOMAIN s2
  BY <1>3 DEF KeosSpecInit
<1> HIDE DEF s2
<1>5. "infra" \in DOMAIN s3
  BY <1>4 DEF DefaultWorkloadPool
<1>6. ValidateStruct(s3) /\ Parse(d) = s5
  BY <1>2 DEF GetClusterDescriptor, s2, s3
<1> HIDE DEF s3
<1>7. "infra" \in DOMAIN s4 /\ s4.infra = s3.infra
  BY <1>5
<1> HIDE DEF s4
<1>8. s5.infra = s4.infra
  BY <1>7 DEF Clean
<1> QED
  BY <1>6, <1>7, <1>8 DEF ValidateStruct, Infra

LEMMA RegionOnly ==
  ASSUME NEW cred, IsKey(cred), NEW spec, NEW p \in WithRegion(cred, spec)
  PROVE  /\ IsKey(p) /\ p.id = cred.id /\ p.missing = cred.missing
         /\ p.region = cred.region \/ (spec.infra = "aws" /\ spec.managed)
<1>1. {"id", "region", "missing"} \subseteq DOMAIN cred
  BY DEF IsKey, NoCredential
<1>2. \/ p = cred
      \/ /\ spec.infra = "aws" /\ spec.managed
         /\ \E r \in {cred.region, spec.region} : p = [cred EXCEPT !.region = r]
  BY DEF WithRegion
<1> QED
  BY <1>1, <1>2 DEF IsKey

(* What EnsureSecretsFile leaves: the keys that were there, and the new    *)
(* ones where there was none.                                              *)
LEMMA SecretsStored ==
  ASSUME NEW f, f # Torn,
         NEW c, c.spec.infra \in Infra, IsKey(c.creds.provider),
         NEW g \in IF Edited(f, c) THEN SecretsAfter(f, c) ELSE {f}
  PROVE  LET old == SecretsOf(f)
             new == SecretsOf(g)
         IN  /\ \A k \in KeptKeys : k \in DOMAIN old => k \in DOMAIN new /\ new[k] = old[k]
             /\ \A i \in Infra : i \in DOMAIN new \ DOMAIN old =>
                   i = c.spec.infra /\ IsKey(new[i])
             /\ c.spec.infra \notin DOMAIN old =>
                   c.spec.infra \in DOMAIN new /\ new[c.spec.infra] \in WithRegion(c.creds.provider, c.spec)
             /\ c.creds.registries # <<>> /\ "docker_registries" \notin DOMAIN old =>
                   "docker_registries" \in DOMAIN new /\ new["docker_registries"] = c.creds.registries
             /\ c.creds.token # "" /\ "github_token" \notin DOMAIN old =>
                   "github_token" \in DOMAIN new /\ new["github_token"] = c.creds.token
             /\ c.creds.token = "" /\ "github_token" \notin DOMAIN old => "github_token" \notin DOMAIN new
<1> DEFINE old == SecretsOf(f)
           new == SecretsOf(g)
           infra == c.spec.infra
           fresh(p) == NewSecrets(c.creds, c.spec, p)
<1>1. infra \in KeptKeys /\ Infra \subseteq KeptKeys /\ {"docker_registries", "github_token"} \subseteq KeptKeys
  BY DEF KeptKeys
<1>2. c.creds.provider # NoCredential
  BY NoId DEF IsKey
<1>3. ASSUME NEW p
      PROVE  /\ \A i \in Infra : i \in DOMAIN fresh(p) <=> i = infra /\ p # NoCredential
             /\ p # NoCredential => fresh(p)[infra] = p
             /\ "docker_registries" \in DOMAIN fresh(p) <=> c.creds.registries # <<>>
             /\ c.creds.registries # <<>> => fresh(p)["docker_registries"] = c.creds.registries
             /\ "github_token" \in DOMAIN fresh(p) <=> c.creds.token # ""
             /\ c.creds.token # "" => fresh(p)["github_token"] = c.creds.token
  <2>1. FreshOf(fresh(p), c.creds, c.spec, p)
    BY FreshKeys
  <2> HIDE DEF fresh
  <2> QED
    BY <2>1 DEF FreshOf
<1> HIDE DEF fresh
<1>a. CASE ~Edited(f, c)
  <2>1. new = old
    BY <1>a
  <2>2. DOMAIN fresh(c.creds.provider) \subseteq DOMAIN old
    BY <1>a DEF Edited, fresh
  <2>3. infra \in DOMAIN old
    BY <1>2, <2>2, <1>3
  <2>4. c.creds.registries # <<>> => "docker_registries" \in DOMAIN old
    BY <2>2, <1>3
  <2>5. c.creds.token # "" => "github_token" \in DOMAIN old
    BY <2>2, <1>3
  <2> QED
    BY <2>1, <2>3, <2>4, <2>5
<1>b. CASE Edited(f, c)
  <2>1. PICK p \in WithRegion(c.creds.provider, c.spec) :
          g = [password |-> c.password, keys |-> IF f = Absent THEN fresh(p) ELSE AddedSecrets(f.keys, fresh(p))]
    BY <1>b DEF SecretsAfter, fresh
  <2>2. IsKey(p)
    BY <2>1, RegionOnly
  <2>3. new = IF f = Absent THEN fresh(p) ELSE AddedSecrets(f.keys, fresh(p))
    BY <2>1, Written
  <2>4. p # NoCredential
    BY <2>2, NoId DEF IsKey
  <2>5. /\ \A i \in Infra : i \in DOMAIN fresh(p) <=> i = infra /\ p # NoCredential
        /\ p # NoCredential => fresh(p)[infra] = p
    BY <1>3
  <2>6. /\ "docker_registries" \in DOMAIN fresh(p) <=> c.creds.registries # <<>>
        /\ c.creds.registries # <<>> => fresh(p)["docker_registries"] = c.creds.registries
    BY <1>3
  <2>7. /\ "github_token" \in DOMAIN fresh(p) <=> c.creds.token # ""
        /\ c.creds.token # "" => fresh(p)["github_token"] = c.creds.token
    BY <1>3
  <2>8. \A k \in KeptKeys :
          /\ k \in DOMAIN new <=> k \in DOMAIN old \union DOMAIN fresh(p)
          /\ k \in DOMAIN old => new[k] = old[k]
          /\ k \in DOMAIN fresh(p) \ DOMAIN old => new[k] = fresh(p)[k]
    <3>1. CASE f = Absent
      <4>1. DOMAIN old = {} /\ new = fresh(p)
        BY <3>1, <2>3, NothingStored
      <4> QED
        BY <4>1
    <3>2. CASE f # Absent
      <4>1. old = f.keys
        BY <3>2 DEF SecretsOf
      <4>2. new = AddedSecrets(old, fresh(p))
        BY <3>2, <4>1, <2>3
      <4> QED
        BY <4>2, AddedKeys
    <3> QED
      BY <3>1, <3>2
  <2> HIDE DEF old, new
  <2>9. \A k \in KeptKeys : k \in DOMAIN old => k \in DOMAIN new /\ new[k] = old[k]
    BY <2>8
  <2>10. \A i \in Infra : i \in DOMAIN new \ DOMAIN old => i = infra /\ IsKey(new[i])
    BY <2>2, <2>5, <2>8, <1>1
  <2>11. infra \notin DOMAIN old =>
            infra \in DOMAIN new /\ new[infra] \in WithRegion(c.creds.provider, c.spec)
    BY <2>1, <2>4, <2>5, <2>8, <1>1
  <2>12. c.creds.registries # <<>> /\ "docker_registries" \notin DOMAIN old =>
            "docker_registries" \in DOMAIN new /\ new["docker_registries"] = c.creds.registries
    BY <2>6, <2>8, <1>1
  <2>13. c.creds.token # "" /\ "github_token" \notin DOMAIN old =>
            "github_token" \in DOMAIN new /\ new["github_token"] = c.creds.token
    BY <2>7, <2>8, <1>1
  <2>14. c.creds.token = "" /\ "github_token" \notin DOMAIN old => "github_token" \notin DOMAIN new
    BY <2>7, <2>8, <1>1
  <2> QED
    BY <2>9, <2>10, <2>11, <2>12, <2>13, <2>14 DEF old, new
<1> QED
  BY <1>a, <1>b

(* The key of the Helm repository is written with the whole file, and not  *)
(* afterwards.                                                             *)
LEMMA HelmStored ==
  ASSUME NEW f, f # Torn,
         NEW c, c.spec.infra \in Infra,
         NEW g \in IF Edited(f, c) THEN SecretsAfter(f, c) ELSE {f}
  PROVE  LET old == SecretsOf(f)
             new == SecretsOf(g)
             key == "helm_repository"
         IN  /\ f = Absent =>
                   /\ key \in DOMAIN new <=> c.creds.helm # NoCredential
                   /\ c.creds.helm # NoCredential => new[key] = c.creds.helm
             /\ f # Absent =>
                   /\ key \in DOMAIN new <=> key \in DOMAIN old
                   /\ key \in DOMAIN old => new[key] = old[key]
<1> DEFINE old == SecretsOf(f)
           new == SecretsOf(g)
           key == "helm_repository"
           fresh(p) == NewSecrets(c.creds, c.spec, p)
<1>1. ASSUME NEW p
      PROVE  /\ key \in DOMAIN fresh(p) <=> c.creds.helm # NoCredential
             /\ c.creds.helm # NoCredential => fresh(p)[key] = c.creds.helm
  <2>1. FreshOf(fresh(p), c.creds, c.spec, p)
    BY FreshKeys
  <2> HIDE DEF fresh
  <2> QED
    BY <2>1 DEF FreshOf
<1> HIDE DEF fresh
<1>2. CASE ~Edited(f, c)
  <2>1. new = old
    BY <1>2
  <2>2. CASE f = Absent
    <3>1. DOMAIN old = {}
      BY <2>2, NothingStored
    <3>2. DOMAIN fresh(c.creds.provider) \subseteq DOMAIN old
      BY <1>2 DEF Edited, fresh
    <3> QED
      BY <2>1, <2>2, <3>1, <3>2, <1>1
  <2> QED
    BY <2>1, <2>2
<1>3. CASE Edited(f, c)
  <2>1. PICK p \in WithRegion(c.creds.provider, c.spec) :
          g = [password |-> c.password, keys |-> IF f = Absent THEN fresh(p) ELSE AddedSecrets(f.keys, fresh(p))]
    BY <1>3 DEF SecretsAfter, fresh
  <2>2. new = IF f = Absent THEN fresh(p) ELSE AddedSecrets(f.keys, fresh(p))
    BY <2>1, Written
  <2>3. f # Absent => old = f.keys
    BY DEF SecretsOf
  <2> HIDE DEF old, new
  <2>4. CASE f = Absent
    <3>1. new = fresh(p)
      BY <2>2, <2>4
    <3> QED
      BY <2>4, <3>1, <1>1 DEF old, new
  <2>5. CASE f # Absent
    <3>1. new = AddedSecrets(old, fresh(p))
      BY <2>2, <2>3, <2>5
    <3>2. /\ key \in DOMAIN new <=> key \in DOMAIN old
          /\ key \in DOMAIN old => new[key] = old[key]
      BY <3>1, AddedHelm
    <3> QED
      BY <2>5, <3>2 DEF old, new
  <2> QED
    BY <2>4, <2>5
<1> QED
  BY <1>2, <1>3

(* The credential an accepted list has for a registry is in the list, of   *)
(* that URL and complete: the list has no second one of the URL.           *)
LEMMA AcceptedLogins ==
  ASSUME NEW list, NEW spec, ValidateRegistryCredentials(list, spec),
         NEW i \in AuthRegistries(spec)
  PROVE  LET cred == CredentialsFor(spec.registries[i].url, list)
         IN  cred \in ToSet(list) /\ cred.url = spec.registries[i].url /\ Complete(cred)
<1> DEFINE u == spec.registries[i].url
           cred == CredentialsFor(u, list)
<1>1. PICK k \in DOMAIN list : list[k].url = u /\ Complete(list[k])
  BY DEF ValidateRegistryCredentials, CredentialsExist
<1>2. list[k] \in ToSet(list)
  BY DEF ToSet
<1>3. cred \in ToSet(list) /\ cred.url = u
  BY <1>1, <1>2 DEF CredentialsFor
<1>4. PICK j \in DOMAIN list : cred = list[j]
  BY <1>3 DEF ToSet
<1>5. \A a, b \in DOMAIN list : list[a].url = list[b].url => a = b
  BY DEF ValidateRegistryCredentials, Distinct
<1> HIDE DEF cred, u
<1>6. cred = list[k]
  BY <1>1, <1>3, <1>4, <1>5
<1> QED
  BY <1>1, <1>3, <1>6 DEF cred, u

LEMMA AcceptedRegistries ==
  ASSUME NEW list, NEW spec, ValidateRegistryCredentials(list, spec)
  PROVE  /\ ToSet(RegistriesCredentials(list, spec)) \subseteq ToSet(list)
         /\ DOMAIN RegistriesCredentials(list, spec) = AuthRegistries(spec)
<1>1. \A i \in AuthRegistries(spec) : CredentialsFor(spec.registries[i].url, list) \in ToSet(list)
  BY AcceptedLogins
<1>2. ToSet(RegistriesCredentials(list, spec)) = {CredentialsFor(spec.registries[i].url, list) : i \in AuthRegistries(spec)}
  BY DEF ToSet, RegistriesCredentials
<1> QED
  BY <1>1, <1>2 DEF RegistriesCredentials

(* What is read when a call is accepted.                                   *)
LEMMA AcceptedReads ==
  ASSUME NEW f, NEW password, NEW spec, NEW creds, NEW c,
         Cluster(f, password, spec, creds, c)
  PROVE  LET sec == SecretsOf(f)
             read == ReadCredentials(sec, spec, creds)
         IN  /\ read.provider = IF spec.infra \in DOMAIN sec THEN sec[spec.infra] ELSE creds.provider
             /\ read.token = IF "github_token" \in DOMAIN sec THEN sec["github_token"] ELSE creds.token
             /\ ToSet(read.registries) \subseteq
                   ToSet(IF "docker_registries" \in DOMAIN sec THEN sec["docker_registries"] ELSE creds.registries)
<1> DEFINE sec == SecretsOf(f)
           list == RegistryList(sec, creds)
<1>1. ValidateRegistryCredentials(list, spec)
  BY DEF Cluster, ValidateCredentials
<1>2. ToSet(RegistriesCredentials(list, spec)) \subseteq ToSet(list)
  BY <1>1, AcceptedRegistries
<1>3. list = IF "docker_registries" \in DOMAIN sec THEN sec["docker_registries"] ELSE creds.registries
  BY DEF RegistryList, Lookup
<1> HIDE DEF sec
<1>4. /\ ReadCredentials(sec, spec, creds).registries = RegistriesCredentials(list, spec)
      /\ ReadCredentials(sec, spec, creds).provider = ProviderCredentials(sec, spec, creds)
      /\ ReadCredentials(sec, spec, creds).token = GithubToken(sec, creds)
  BY DEF ReadCredentials
<1> QED
  BY <1>2, <1>3, <1>4 DEF ProviderCredentials, GithubToken, Lookup, sec

(* The keys of the clouds are well formed after EnsureSecretsFile too.     *)
LEMMA ShapesStep ==
  ASSUME Shapes, [Next]_vars
  PROVE  Shapes'
<1> DEFINE sec == SecretsOf(secrets)
<1>1. ASSUME NEW flags \in FlagSets, NEW p \in Passwords, Call(flags, p)
      PROVE  Shapes'
  <2>1. descriptor # Torn
    BY <1>1 DEF Call, Parse
  <2>2. WellFormed(descriptor) /\ Parse(descriptor).infra \in Infra
    BY <1>1, <2>1, ParsedInfra DEF Shapes, Call
  <2>3. /\ call'.pc = "validate" /\ call'.spec = Parse(descriptor) /\ call'.read = descriptor
        /\ UNCHANGED <<descriptor, secrets, held, lost, stored>>
    BY <1>1 DEF Call, KeepFiles
  <2> QED
    BY <2>2, <2>3 DEF Shapes
<1>2. ASSUME NEW c \in Clouds, Validate(c)
      PROVE  Shapes'
  <2> DEFINE creds == ReadCredentials(sec, call.spec, call.read.creds)
  <2>1. /\ call'.pc = "private" /\ call'.spec = call.spec /\ call'.creds = creds
        /\ held' = Parts(IF descriptor = call.read THEN creds ELSE NoCredentials)
        /\ lost' = Parts(NoCredentials)
        /\ UNCHANGED <<descriptor, secrets, stored>>
    BY <1>2 DEF Validate, KeepFiles
  <2>2. call.spec.infra \in Infra /\ WellFormed(call.read)
    BY <1>2 DEF Shapes, Validate
  <2>3. IsKey(creds.provider)
    <3>1. creds.provider = IF call.spec.infra \in DOMAIN sec THEN sec[call.spec.infra] ELSE call.read.creds.provider
      BY <1>2, AcceptedReads DEF Validate
    <3>2. creds.provider # NoCredential
      BY <1>2 DEF Validate, Cluster, ValidateCredentials, ValidateProviderCredentials, ReadCredentials
    <3> QED
      BY <3>1, <3>2, <2>2 DEF Shapes, WellFormed
  <2>4. DOMAIN held' = DOMAIN Parts(NoCredentials)
    BY <2>1 DEF Parts
  <2> HIDE DEF creds
  <2> QED
    BY <2>1, <2>2, <2>3, <2>4 DEF Shapes
<1>3. ASSUME GetConfigFile
      PROVE  Shapes'
  <2>1. /\ call.pc = "private" /\ call'.pc = "create" /\ call'.spec = call.spec /\ call'.creds = call.creds
        /\ UNCHANGED <<descriptor, secrets, held, lost, stored>>
    BY <1>3 DEF GetConfigFile, KeepFiles, KeepHistory
  <2> QED
    BY <2>1 DEF Shapes
<1>4. ASSUME call'.pc = "idle", UNCHANGED <<descriptor, secrets, held, lost, stored>>
      PROVE  Shapes'
  BY <1>4 DEF Shapes
<1>5. CASE ValidateOnly \/ FailOrKill
  BY <1>4, <1>5 DEF ValidateOnly, FailOrKill, KeepFiles, KeepHistory, Idle
<1>6. ASSUME EnsureSecretsFile
      PROVE  Shapes'
  <2>1. /\ call.pc = "create" /\ call'.pc = "rewrite"
        /\ secrets' \in IF Edited(secrets, call) THEN SecretsAfter(secrets, call) ELSE {secrets}
        /\ secrets # Torn
        /\ DOMAIN stored' = DOMAIN stored
        /\ UNCHANGED <<descriptor, held, lost>>
    BY <1>6, ReadableIsWhole DEF EnsureSecretsFile
  <2>2. call.spec.infra \in Infra /\ IsKey(call.creds.provider)
    BY <2>1 DEF Shapes
  <2>3. \A i \in Infra : i \in DOMAIN SecretsOf(secrets)' =>
           IsKey(SecretsOf(secrets)'[i])
    <3>1. /\ \A k \in KeptKeys : k \in DOMAIN sec => k \in DOMAIN SecretsOf(secrets') /\ SecretsOf(secrets')[k] = sec[k]
          /\ \A i \in Infra : i \in DOMAIN SecretsOf(secrets') \ DOMAIN sec =>
                i = call.spec.infra /\ IsKey(SecretsOf(secrets')[i])
      BY <2>1, <2>2, SecretsStored
    <3> QED
      BY <3>1 DEF Shapes, KeptKeys
  <2> QED
    BY <2>1, <2>3 DEF Shapes
<1>7. ASSUME RewriteRead
      PROVE  Shapes'
  <2>1. /\ call'.pc = "write" /\ call'.read = descriptor /\ descriptor # Torn
        /\ UNCHANGED <<descriptor, secrets, held, lost, stored>>
    BY <1>7 DEF RewriteRead, KeepFiles, KeepHistory
  <2> QED
    BY <2>1 DEF Shapes
<1>8. ASSUME RewriteDescriptorFile
      PROVE  Shapes'
  <2>1. /\ call.pc = "write" /\ call'.pc = "idle" /\ descriptor' = RemoveCredentials(call.read)
        /\ UNCHANGED <<secrets, held, lost, stored>>
    BY <1>8 DEF RewriteDescriptorFile, KeepHistory, Idle
  <2>2. WellFormed(RemoveCredentials(call.read))
    <3>1. {"spec", "creds"} \subseteq DOMAIN call.read
      BY <2>1 DEF Shapes, WellFormed
    <3>2. /\ DOMAIN RemoveCredentials(call.read) = DOMAIN call.read
          /\ RemoveCredentials(call.read).spec = call.read.spec
          /\ RemoveCredentials(call.read).creds = NoCredentials
      BY <3>1 DEF RemoveCredentials
    <3>3. NoCredentials.provider = NoCredential
      BY DEF NoCredentials
    <3>4. WellFormed(call.read)
      BY <2>1 DEF Shapes
    <3> QED
      BY <3>1, <3>2, <3>3, <3>4 DEF WellFormed
  <2> QED
    BY <2>1, <2>2 DEF Shapes
<1>9. ASSUME CutSecrets
      PROVE  Shapes'
  <2>1. /\ call'.pc = "idle" /\ secrets' = Torn /\ DOMAIN lost' = DOMAIN lost
        /\ DOMAIN stored' = Infra /\ UNCHANGED <<descriptor, held>>
    BY <1>9 DEF CutSecrets, Idle
  <2> QED
    BY <2>1, NothingStored DEF Shapes
<1>10. ASSUME CutDescriptor
       PROVE  Shapes'
  <2>1. /\ call'.pc = "idle" /\ descriptor' = Torn
        /\ UNCHANGED <<secrets, held, lost, stored>>
    BY <1>10 DEF CutDescriptor, Idle
  <2> QED
    BY <2>1 DEF Shapes
<1>11. ASSUME NEW d \in EditedFiles, UserEdit(d)
       PROVE  Shapes'
  <2>1. /\ descriptor' = d /\ DOMAIN held' = DOMAIN held
        /\ UNCHANGED <<secrets, call, lost, stored>>
    BY <1>11 DEF UserEdit
  <2>2. WellFormed(d)
    BY FilesWellFormed
  <2> QED
    BY <2>1, <2>2 DEF Shapes
<1>12. ASSUME UserRemovesTorn
       PROVE  Shapes'
  <2>1. /\ call.pc = "idle" /\ call' = call /\ secrets' = Absent
        /\ UNCHANGED <<descriptor, held, lost, stored>>
    BY <1>12 DEF UserRemovesTorn, Idle
  <2> QED
    BY <2>1, NothingStored DEF Shapes
<1>13. CASE UNCHANGED vars
  BY <1>13 DEF Shapes, vars
<1> QED
  BY <1>1, <1>2, <1>3, <1>5, <1>6, <1>7, <1>8, <1>9, <1>10, <1>11, <1>12, <1>13 DEF Next

-----------------------------------------------------------------------------
(* Credentials on their way from one file to the other.                    *)

Three == {"provider", "registries", "token"}

(* What was stored for a cloud is what the file holds for it.              *)
Stored ==
    \A i \in Infra : stored[i] # "" =>
        i \in DOMAIN SecretsOf(secrets) /\ SecretsOf(secrets)[i].id = stored[i]

(* Before EnsureSecretsFile the call has the credentials in memory, after  *)
(* it they are in the file.                                                *)
Handed ==
    /\ call.pc \in {"private", "create"} => \A part \in Three : held[part] \subseteq Parts(call.creds)[part]
    /\ call.pc \in {"rewrite", "write"} => \A part \in Three : held[part] \subseteq InSecrets(secrets)[part]

Travel == Reads /\ Stored /\ Handed /\ CredentialsKept

LEMMA PartsAre ==
  ASSUME NEW creds
  PROVE  /\ Parts(creds)["provider"] = Named(creds.provider)
         /\ Parts(creds)["registries"] = UNION {Named(cred) : cred \in ToSet(creds.registries)}
         /\ Parts(creds)["token"] = {creds.token} \ {""}
BY DEF Parts

LEMMA NoParts ==
  \A part \in Three : Parts(NoCredentials)[part] = {}
<1>1. /\ NoCredentials.provider = NoCredential /\ NoCredentials.registries = <<>> /\ NoCredentials.token = ""
  BY DEF NoCredentials
<1>2. ToSet(<<>>) = {}
  BY DEF ToSet
<1>3. Named(NoCredential) = {}
  BY NoId DEF Named
<1>4. Parts(NoCredentials)["provider"] = {}
  BY <1>1, <1>3, PartsAre
<1>5. Parts(NoCredentials)["registries"] = {}
  <2>1. Parts(NoCredentials)["registries"] = UNION {Named(cred) : cred \in ToSet(NoCredentials.registries)}
    BY PartsAre
  <2> QED
    BY <2>1, <1>1, <1>2
<1>6. Parts(NoCredentials)["token"] = {}
  BY <1>1, PartsAre
<1> QED
  BY <1>4, <1>5, <1>6 DEF Three

LEMMA InSecretsAre ==
  ASSUME NEW f
  PROVE  LET sec == SecretsOf(f)
         IN  /\ InSecrets(f)["provider"] = UNION {Named(Lookup(sec, i, NoCredential)) : i \in Infra}
             /\ InSecrets(f)["registries"] =
                   UNION {Named(cred) : cred \in ToSet(Lookup(sec, "docker_registries", <<>>))}
             /\ InSecrets(f)["token"] = {Lookup(sec, "github_token", "")} \ {""}
<1> DEFINE base == [provider   |-> NoCredential,
                    registries |-> Lookup(SecretsOf(f), "docker_registries", <<>>),
                    helm       |-> Lookup(SecretsOf(f), "helm_repository", NoCredential),
                    token      |-> Lookup(SecretsOf(f), "github_token", "")]
<1>1. /\ base.registries = Lookup(SecretsOf(f), "docker_registries", <<>>)
      /\ base.token = Lookup(SecretsOf(f), "github_token", "")
  OBVIOUS
<1>2. InSecrets(f) = [Parts(base) EXCEPT !.provider = UNION {Named(Lookup(SecretsOf(f), i, NoCredential)) : i \in Infra}]
  BY DEF InSecrets
<1> HIDE DEF base
<1>3. DOMAIN Parts(base) = {"provider", "registries", "helm", "token"}
  BY DEF Parts
<1> QED
  BY <1>1, <1>2, <1>3, PartsAre

(* Nothing that is read back is lost by writing, and what the call has is  *)
(* there afterwards.                                                       *)
LEMMA PartsStored ==
  ASSUME NEW f, f # Torn,
         NEW c, c.spec.infra \in Infra, IsKey(c.creds.provider),
         NEW g \in IF Edited(f, c) THEN SecretsAfter(f, c) ELSE {f},
         c.spec.infra \in DOMAIN SecretsOf(f) => c.creds.provider = SecretsOf(f)[c.spec.infra],
         "github_token" \in DOMAIN SecretsOf(f) => c.creds.token = SecretsOf(f)["github_token"],
         "docker_registries" \in DOMAIN SecretsOf(f) =>
             ToSet(c.creds.registries) \subseteq ToSet(SecretsOf(f)["docker_registries"]),
         NEW part \in Three
  PROVE  InSecrets(f)[part] \union Parts(c.creds)[part] \subseteq InSecrets(g)[part]
<1> DEFINE old == SecretsOf(f)
           new == SecretsOf(g)
<1>1. \A k \in KeptKeys : k \in DOMAIN old => k \in DOMAIN new /\ new[k] = old[k]
  BY SecretsStored
<1>2. c.spec.infra \notin DOMAIN old =>
         c.spec.infra \in DOMAIN new /\ new[c.spec.infra].id = c.creds.provider.id
  <2>1. c.spec.infra \notin DOMAIN old =>
           c.spec.infra \in DOMAIN new /\ new[c.spec.infra] \in WithRegion(c.creds.provider, c.spec)
    BY SecretsStored
  <2> HIDE DEF new, old
  <2> QED
    BY <2>1, RegionOnly
<1>3. c.creds.registries # <<>> /\ "docker_registries" \notin DOMAIN old =>
         "docker_registries" \in DOMAIN new /\ new["docker_registries"] = c.creds.registries
  BY SecretsStored
<1>4. c.creds.token # "" /\ "github_token" \notin DOMAIN old =>
         "github_token" \in DOMAIN new /\ new["github_token"] = c.creds.token
  BY SecretsStored
<1>5. Infra \subseteq KeptKeys /\ "docker_registries" \in KeptKeys /\ "github_token" \in KeptKeys
  BY DEF KeptKeys
<1>6. CASE part = "provider"
  <2>1. InSecrets(f)[part] = UNION {Named(Lookup(old, i, NoCredential)) : i \in Infra}
    BY <1>6, InSecretsAre
  <2>2. InSecrets(g)[part] = UNION {Named(Lookup(new, i, NoCredential)) : i \in Infra}
    BY <1>6, InSecretsAre
  <2>3. Parts(c.creds)[part] = Named(c.creds.provider)
    BY <1>6, PartsAre
  <2> HIDE DEF old, new
  <2>4. \A i \in Infra : Named(Lookup(old, i, NoCredential)) \subseteq Named(Lookup(new, i, NoCredential))
    BY <1>1, <1>5, NoId DEF Lookup, Named
  <2>5. Named(c.creds.provider) \subseteq Named(Lookup(new, c.spec.infra, NoCredential))
    <3>1. CASE c.spec.infra \in DOMAIN old
      <4>1. c.creds.provider = Lookup(new, c.spec.infra, NoCredential)
        BY <3>1, <1>1, <1>5 DEF Lookup, old
      <4> QED
        BY <4>1
    <3>2. CASE c.spec.infra \notin DOMAIN old
      BY <3>2, <1>2 DEF Lookup, Named
    <3> QED
      BY <3>1, <3>2
  <2> QED
    BY <2>1, <2>2, <2>3, <2>4, <2>5
<1>7. CASE part = "registries"
  <2>1. InSecrets(f)[part] = UNION {Named(cred) : cred \in ToSet(Lookup(old, "docker_registries", <<>>))}
    BY <1>7, InSecretsAre
  <2>2. InSecrets(g)[part] = UNION {Named(cred) : cred \in ToSet(Lookup(new, "docker_registries", <<>>))}
    BY <1>7, InSecretsAre
  <2>3. Parts(c.creds)[part] = UNION {Named(cred) : cred \in ToSet(c.creds.registries)}
    BY <1>7, PartsAre
  <2>4. ToSet(<<>>) = {}
    BY DEF ToSet
  <2> HIDE DEF old, new
  <2>5. CASE "docker_registries" \in DOMAIN old
    <3>1. /\ Lookup(new, "docker_registries", <<>>) = old["docker_registries"]
          /\ Lookup(old, "docker_registries", <<>>) = old["docker_registries"]
      BY <2>5, <1>1, <1>5 DEF Lookup
    <3>2. ToSet(c.creds.registries) \subseteq ToSet(old["docker_registries"])
      BY <2>5 DEF old
    <3> QED
      BY <3>1, <3>2, <2>1, <2>2, <2>3
  <2>6. CASE "docker_registries" \notin DOMAIN old
    <3>1. InSecrets(f)[part] = {}
      BY <2>6, <2>1, <2>4 DEF Lookup
    <3>2. CASE c.creds.registries = <<>>
      BY <3>1, <3>2, <2>3, <2>4
    <3>3. CASE c.creds.registries # <<>>
      <4>1. Lookup(new, "docker_registries", <<>>) = c.creds.registries
        BY <3>3, <2>6, <1>3 DEF Lookup
      <4> QED
        BY <4>1, <3>1, <2>2, <2>3
    <3> QED
      BY <3>2, <3>3
  <2> QED
    BY <2>5, <2>6
<1>8. CASE part = "token"
  <2>1. InSecrets(f)[part] = {Lookup(old, "github_token", "")} \ {""}
    BY <1>8, InSecretsAre
  <2>2. InSecrets(g)[part] = {Lookup(new, "github_token", "")} \ {""}
    BY <1>8, InSecretsAre
  <2>3. Parts(c.creds)[part] = {c.creds.token} \ {""}
    BY <1>8, PartsAre
  <2>4. "github_token" \in DOMAIN old => c.creds.token = old["github_token"]
    OBVIOUS
  <2> HIDE DEF old, new
  <2> QED
    BY <2>1, <2>2, <2>3, <2>4, <1>1, <1>4, <1>5 DEF Lookup
<1> QED
  BY <1>6, <1>7, <1>8 DEF Three

(* An accepted call uses what the two files hold, and nothing else.        *)
LEMMA PartsRead ==
  ASSUME NEW f, NEW password, NEW spec, NEW creds, NEW c,
         Cluster(f, password, spec, creds, c), spec.infra \in Infra, NEW part \in Three
  PROVE  Parts(ReadCredentials(SecretsOf(f), spec, creds))[part] \subseteq
             Parts(creds)[part] \union InSecrets(f)[part]
<1> DEFINE sec == SecretsOf(f)
           read == ReadCredentials(sec, spec, creds)
<1>1. read.provider = IF spec.infra \in DOMAIN sec THEN sec[spec.infra] ELSE creds.provider
  BY AcceptedReads
<1>2. read.token = IF "github_token" \in DOMAIN sec THEN sec["github_token"] ELSE creds.token
  BY AcceptedReads
<1>3. ToSet(read.registries) \subseteq
         ToSet(IF "docker_registries" \in DOMAIN sec THEN sec["docker_registries"] ELSE creds.registries)
  BY AcceptedReads
<1>4. CASE part = "provider"
  <2>1. InSecrets(f)[part] = UNION {Named(Lookup(sec, i, NoCredential)) : i \in Infra}
    BY <1>4, InSecretsAre
  <2>2. Parts(read)[part] = Named(read.provider) /\ Parts(creds)[part] = Named(creds.provider)
    BY <1>4, PartsAre
  <2> HIDE DEF sec, read
  <2>3. CASE spec.infra \in DOMAIN sec
    <3>1. read.provider = Lookup(sec, spec.infra, NoCredential)
      BY <2>3, <1>1 DEF Lookup
    <3> QED
      BY <3>1, <2>1, <2>2 DEF sec, read
  <2>4. CASE spec.infra \notin DOMAIN sec
    BY <2>4, <2>2, <1>1 DEF sec, read
  <2> QED
    BY <2>3, <2>4
<1>5. CASE part = "registries"
  <2>1. InSecrets(f)[part] = UNION {Named(cred) : cred \in ToSet(Lookup(sec, "docker_registries", <<>>))}
    BY <1>5, InSecretsAre
  <2>2. /\ Parts(read)[part] = UNION {Named(cred) : cred \in ToSet(read.registries)}
        /\ Parts(creds)[part] = UNION {Named(cred) : cred \in ToSet(creds.registries)}
    BY <1>5, PartsAre
  <2> HIDE DEF sec, read
  <2>3. \/ ToSet(read.registries) \subseteq ToSet(creds.registries)
        \/ ToSet(read.registries) \subseteq ToSet(Lookup(sec, "docker_registries", <<>>))
    BY <1>3 DEF Lookup
  <2>4. Parts(read)[part] \subseteq Parts(creds)[part] \union InSecrets(f)[part]
    BY <2>1, <2>2, <2>3
  <2> QED
    BY <2>4 DEF sec, read
<1>6. CASE part = "token"
  <2>1. InSecrets(f)[part] = {Lookup(sec, "github_token", "")} \ {""}
    BY <1>6, InSecretsAre
  <2>2. Parts(read)[part] = {read.token} \ {""} /\ Parts(creds)[part] = {creds.token} \ {""}
    BY <1>6, PartsAre
  <2> HIDE DEF sec, read
  <2>3. Parts(read)[part] \subseteq Parts(creds)[part] \union InSecrets(f)[part]
    BY <2>1, <2>2, <1>2 DEF Lookup
  <2> QED
    BY <2>3 DEF sec, read
<1> QED
  BY <1>4, <1>5, <1>6 DEF Three

(* Steps that leave the files and what was held alone keep what is stored  *)
(* and held where it is.                                                   *)
LEMMA SameFiles ==
  ASSUME Travel, UNCHANGED <<descriptor, secrets, held, lost, stored>>
  PROVE  Stored' /\ CredentialsKept'
BY DEF Travel, Stored, CredentialsKept, Kept

(* CredentialsKept, one part after the other.                              *)
LEMMA KeptParts ==
  CredentialsKept <=> \A part \in Three :
      held[part] \subseteq InDescriptor(descriptor)[part] \union InSecrets(secrets)[part] \union lost[part]
BY DEF CredentialsKept, Kept, Three

LEMMA TravelStep ==
  ASSUME Shapes, Travel, [Next]_vars
  PROVE  Travel'
<1> DEFINE sec == SecretsOf(secrets)
<1>0. /\ \A part \in Three :
            held[part] \subseteq InDescriptor(descriptor)[part] \union InSecrets(secrets)[part] \union lost[part]
      /\ CredentialsKept' <=> \A part \in Three :
            held'[part] \subseteq InDescriptor(descriptor')[part] \union InSecrets(secrets')[part] \union lost'[part]
  BY KeptParts DEF Travel, CredentialsKept, Kept, Three
<1>1. ASSUME NEW flags \in FlagSets, NEW p \in Passwords, Call(flags, p)
      PROVE  Travel'
  <2>1. call'.pc = "validate" /\ UNCHANGED <<descriptor, secrets, held, lost, stored>>
    BY <1>1 DEF Call, KeepFiles
  <2> QED
    BY <2>1, SameFiles DEF Travel, Reads, Handed
<1>2. ASSUME NEW c \in Clouds, Validate(c)
      PROVE  Travel'
  <2> DEFINE creds == ReadCredentials(sec, call.spec, call.read.creds)
  <2>1. /\ call.pc = "validate" /\ call'.pc = "private" /\ call'.spec = call.spec /\ call'.creds = creds
        /\ held' = Parts(IF descriptor = call.read THEN creds ELSE NoCredentials)
        /\ lost' = Parts(NoCredentials)
        /\ UNCHANGED <<descriptor, secrets, stored>>
    BY <1>2 DEF Validate, KeepFiles
  <2>2. Cluster(secrets, call.password, call.spec, call.read.creds, c)
    BY <1>2 DEF Validate
  <2>3. call.spec.infra \in Infra /\ WellFormed(call.read)
    BY <2>1 DEF Shapes
  <2>4. Reads'
    <3>1. creds.provider = IF call.spec.infra \in DOMAIN sec THEN sec[call.spec.infra] ELSE call.read.creds.provider
      BY <2>2, AcceptedReads
    <3>2. creds.token = IF "github_token" \in DOMAIN sec THEN sec["github_token"] ELSE call.read.creds.token
      BY <2>2, AcceptedReads
    <3>3. ToSet(creds.registries) \subseteq
             ToSet(IF "docker_registries" \in DOMAIN sec THEN sec["docker_registries"] ELSE call.read.creds.registries)
      BY <2>2, AcceptedReads
    <3> HIDE DEF creds
    <3> QED
      BY <2>1, <3>1, <3>2, <3>3 DEF Reads
  <2>5. Handed'
    <3>1. \A part \in Three : held'[part] \subseteq Parts(creds)[part]
      BY <2>1, NoParts
    <3> QED
      BY <2>1, <3>1 DEF Handed
  <2>6. CredentialsKept'
    <3>1. CASE descriptor = call.read
      <4>1. call.read # Torn
        <5>1. "spec" \in DOMAIN call.read /\ "spec" \notin DOMAIN Torn
          BY <2>3 DEF WellFormed, Torn
        <5> QED
          BY <5>1
      <4>2. InDescriptor(descriptor) = Parts(call.read.creds)
        BY <3>1, <4>1 DEF InDescriptor
      <4>3. \A part \in Three : Parts(creds)[part] \subseteq Parts(call.read.creds)[part] \union InSecrets(secrets)[part]
        BY <2>2, <2>3, PartsRead
      <4> QED
        BY <3>1, <4>2, <4>3, <2>1, <1>0
    <3>2. CASE descriptor # call.read
      BY <3>2, <2>1, <1>0, NoParts
    <3> QED
      BY <3>1, <3>2
  <2>7. Stored'
    BY <2>1 DEF Travel, Stored
  <2> QED
    BY <2>4, <2>5, <2>6, <2>7 DEF Travel
<1>3. ASSUME GetConfigFile
      PROVE  Travel'
  <2>1. /\ call.pc = "private" /\ call'.pc = "create" /\ call'.spec = call.spec /\ call'.creds = call.creds
        /\ UNCHANGED <<descriptor, secrets, held, lost, stored>>
    BY <1>3 DEF GetConfigFile, KeepFiles, KeepHistory
  <2> QED
    BY <2>1, SameFiles DEF Travel, Reads, Handed
<1>4. CASE ValidateOnly \/ FailOrKill
  <2>1. call'.pc = "idle" /\ UNCHANGED <<descriptor, secrets, held, lost, stored>>
    BY <1>4 DEF ValidateOnly, FailOrKill, KeepFiles, KeepHistory, Idle
  <2> QED
    BY <2>1, SameFiles DEF Travel, Reads, Handed
<1>5. ASSUME EnsureSecretsFile
      PROVE  Travel'
  <2>1. /\ call.pc = "create" /\ call'.pc = "rewrite"
        /\ secrets' \in IF Edited(secrets, call) THEN SecretsAfter(secrets, call) ELSE {secrets}
        /\ secrets # Torn
        /\ stored' = [stored EXCEPT ![call.spec.infra] = IF @ = "" THEN call.creds.provider.id ELSE @]
        /\ UNCHANGED <<descriptor, held, lost>>
    BY <1>5, ReadableIsWhole DEF EnsureSecretsFile
  <2>2. call.spec.infra \in Infra /\ IsKey(call.creds.provider) /\ DOMAIN stored = Infra
    BY <2>1 DEF Shapes
  <2>3. /\ call.spec.infra \in DOMAIN sec => call.creds.provider = sec[call.spec.infra]
        /\ "github_token" \in DOMAIN sec => call.creds.token = sec["github_token"]
        /\ "docker_registries" \in DOMAIN sec =>
               ToSet(call.creds.registries) \subseteq ToSet(sec["docker_registries"])
    BY <2>1 DEF Travel, Reads
  <2>4. \A part \in Three : InSecrets(secrets)[part] \union Parts(call.creds)[part] \subseteq InSecrets(secrets')[part]
    BY <2>1, <2>2, <2>3, PartsStored
  <2>5. Handed'
    <3>1. \A part \in Three : held[part] \subseteq Parts(call.creds)[part]
      BY <2>1 DEF Travel, Handed
    <3>2. \A part \in Three : held'[part] \subseteq InSecrets(secrets')[part]
      BY <2>1, <2>4, <3>1
    <3> QED
      BY <2>1, <3>2 DEF Handed
  <2>6. CredentialsKept'
    BY <2>1, <2>4, <1>0
  <2>7. Stored'
    <3> DEFINE new == SecretsOf(secrets')
    <3>1. \A k \in KeptKeys : k \in DOMAIN sec => k \in DOMAIN new /\ new[k] = sec[k]
      BY <2>1, <2>2, SecretsStored
    <3>2. call.spec.infra \notin DOMAIN sec =>
             call.spec.infra \in DOMAIN new /\ new[call.spec.infra].id = call.creds.provider.id
      <4>1. call.spec.infra \notin DOMAIN sec =>
               call.spec.infra \in DOMAIN new /\ new[call.spec.infra] \in WithRegion(call.creds.provider, call.spec)
        BY <2>1, <2>2, SecretsStored
      <4> HIDE DEF new, sec
      <4> QED
        BY <2>2, <4>1, RegionOnly
    <3> HIDE DEF sec
    <3>3. SUFFICES ASSUME NEW i \in Infra, stored'[i] # ""
                   PROVE  i \in DOMAIN new /\ new[i].id = stored'[i]
      BY DEF Stored
    <3> HIDE DEF new
    <3>4. i \in KeptKeys
      BY DEF KeptKeys
    <3>5. stored[i] # "" => i \in DOMAIN sec /\ sec[i].id = stored[i]
      BY DEF Travel, Stored, sec
    <3>6. CASE stored'[i] = stored[i]
      BY <3>1, <3>3, <3>4, <3>5, <3>6
    <3>7. CASE stored'[i] # stored[i]
      <4>1. i = call.spec.infra /\ stored'[i] = call.creds.provider.id
        BY <3>7, <2>1, <2>2
      <4> QED
        BY <4>1, <3>1, <3>2, <3>3, <3>4, <2>3 DEF sec
    <3> QED
      BY <3>6, <3>7
  <2> QED
    BY <2>1, <2>5, <2>6, <2>7 DEF Travel, Reads
<1>6. ASSUME RewriteRead
      PROVE  Travel'
  <2>1. /\ call.pc = "rewrite" /\ call'.pc = "write"
        /\ UNCHANGED <<descriptor, secrets, held, lost, stored>>
    BY <1>6 DEF RewriteRead, KeepFiles, KeepHistory
  <2> QED
    BY <2>1, SameFiles DEF Travel, Reads, Handed
<1>7. CASE RewriteDescriptorFile \/ CutDescriptor
  <2>1. call.pc = "write" /\ call'.pc = "idle" /\ UNCHANGED <<secrets, held, lost, stored>>
    BY <1>7 DEF RewriteDescriptorFile, CutDescriptor, KeepHistory, Idle
  <2>2. \A part \in Three : held[part] \subseteq InSecrets(secrets)[part]
    BY <2>1 DEF Travel, Handed
  <2>3. CredentialsKept'
    BY <2>1, <2>2, <1>0
  <2> QED
    BY <2>1, <2>3 DEF Travel, Reads, Handed, Stored
<1>8. ASSUME CutSecrets
      PROVE  Travel'
  <2>1. /\ call'.pc = "idle" /\ secrets' = Torn
        /\ lost' = [part \in DOMAIN lost |-> lost[part] \union InSecrets(secrets)[part]]
        /\ stored' = [i \in Infra |-> ""] /\ UNCHANGED <<descriptor, held>>
    BY <1>8 DEF CutSecrets, Idle
  <2>2. Three \subseteq DOMAIN lost
    BY DEF Shapes, Parts, Three
  <2>3. CredentialsKept'
    <3>1. \A part \in Three : lost'[part] = lost[part] \union InSecrets(secrets)[part]
      BY <2>1, <2>2
    <3> QED
      BY <2>1, <3>1, <1>0
  <2> QED
    BY <2>1, <2>3 DEF Travel, Reads, Handed, Stored
<1>9. ASSUME NEW d \in EditedFiles, UserEdit(d)
      PROVE  Travel'
  <2>1. /\ descriptor' = d /\ held' = [part \in DOMAIN held |-> held[part] \intersect InSecrets(secrets)[part]]
        /\ UNCHANGED <<secrets, call, lost, stored>>
    BY <1>9 DEF UserEdit
  <2>2. Three \subseteq DOMAIN held
    BY DEF Shapes, Parts, Three
  <2>3. \A part \in Three : held'[part] \subseteq held[part] /\ held'[part] \subseteq InSecrets(secrets)[part]
    BY <2>1, <2>2
  <2>4. CredentialsKept'
    BY <2>1, <2>3, <1>0
  <2>5. Handed'
    BY <2>1, <2>3 DEF Travel, Handed
  <2> QED
    BY <2>1, <2>4, <2>5 DEF Travel, Reads, Stored
<1>10. ASSUME UserRemovesTorn
       PROVE  Travel'
  <2>1. /\ call.pc = "idle" /\ secrets = Torn /\ secrets' = Absent
        /\ UNCHANGED <<descriptor, call, held, lost, stored>>
    BY <1>10 DEF UserRemovesTorn, Idle
  <2>2. SecretsOf(secrets') = SecretsOf(secrets)
    BY <2>1, NothingStored
  <2>3. InSecrets(secrets') = InSecrets(secrets)
    BY <2>2 DEF InSecrets
  <2>4. CredentialsKept'
    BY <2>1, <2>3, <1>0
  <2> QED
    BY <2>1, <2>2, <2>4 DEF Travel, Reads, Handed, Stored
<1>11. CASE UNCHANGED vars
  BY <1>11, SameFiles DEF Travel, Reads, Handed, vars
<1> QED
  BY <1>1, <1>2, <1>3, <1>4, <1>5, <1>6, <1>7, <1>8, <1>9, <1>10, <1>11 DEF Next

-----------------------------------------------------------------------------
(* A descriptor without its credentials: only the default workload pool,   *)
(* which the project of the credentials names, may be another one.         *)

Same(s, t) ==
    /\ s.infra = t.infra /\ s.managed = t.managed /\ s.k8s = t.k8s /\ s.region = t.region
    /\ s.workers = t.workers /\ s.cp = t.cp /\ s.networks = t.networks /\ s.sc = t.sc
    /\ s.registries = t.registries /\ s.helm = t.helm /\ s.policy = t.policy
    /\ s.createIAM = t.createIAM /\ s.roleARN = t.roleARN /\ s.cpIdentity = t.cpIdentity
    /\ s.nodesIdentity = t.nodesIdentity /\ s.gcp = t.gcp

LEMMA ParsedAgain ==
  ASSUME NEW d, WellFormed(d), Parse(d) # Rejected
  PROVE  /\ Parse(RemoveCredentials(d)) # Rejected
         /\ Same(Parse(d), Parse(RemoveCredentials(d)))
         /\ Parse(d).config = Parse(RemoveCredentials(d)).config
         /\ Parse(d).helm.auth = d.spec.helm.auth
<1> DEFINE e == RemoveCredentials(d)
           s1 == [d.spec EXCEPT !.project = d.creds.provider.project]
           s2 == KeosSpecInit(s1)
           s3 == DefaultWorkloadPool(s2)
           s4 == [s3 EXCEPT !.config = ClusterConfigOf(s3)]
           s5 == Clean(s4)
           t1 == [d.spec EXCEPT !.project = ""]
           t2 == KeosSpecInit(t1)
           t3 == DefaultWorkloadPool(t2)
           t4 == [t3 EXCEPT !.config = ClusterConfigOf(t3)]
           t5 == Clean(t4)
<1>1. /\ DOMAIN d.spec = Sections /\ {"spec", "creds"} \subseteq DOMAIN d
      /\ "auth" \in DOMAIN d.spec.helm
      /\ {"enabled", "pool", "accounts"} \subseteq DOMAIN d.spec.identity
  BY DEF WellFormed
<1>2. Parse(d) = GetClusterDescriptor(s1)
  BY DEF Parse
<1>3. Parse(e) = GetClusterDescriptor(t1)
  <2>1. e.spec = d.spec /\ e.creds = NoCredentials /\ "spec" \in DOMAIN e
    BY <1>1 DEF RemoveCredentials
  <2>2. "spec" \notin DOMAIN Torn
    BY DEF Torn
  <2>3. NoCredentials.provider.project = ""
    BY DEF NoCredentials, NoCredential
  <2> HIDE DEF e
  <2> QED
    BY <2>1, <2>2, <2>3 DEF Parse
<1> HIDE DEF e
<1>4. /\ DOMAIN s1 = Sections /\ DOMAIN t1 = Sections
      /\ \A x \in Sections \ {"project"} : s1[x] = d.spec[x] /\ t1[x] = d.spec[x]
      /\ t1.project = ""
  BY <1>1 DEF Sections
<1> HIDE DEF s1, t1
<1>5. /\ DOMAIN s2 = Sections /\ DOMAIN t2 = Sections
      /\ \A x \in Sections \ {"project", "secureBoot"} : s2[x] = t2[x]
      /\ t2.project = "" /\ s2.identity = d.spec.identity /\ s2.helm = HelmInit(d.spec.helm)
  <2>1. /\ DOMAIN s2 = DOMAIN s1 /\ DOMAIN t2 = DOMAIN t1
    BY DEF KeosSpecInit
  <2>2. \A x \in Sections \ {"secureBoot", "gcp", "helm"} : s2[x] = s1[x] /\ t2[x] = t1[x]
    BY <1>4 DEF KeosSpecInit
  <2>3. /\ s2.gcp = GCPInit(s1.gcp) /\ t2.gcp = GCPInit(t1.gcp)
        /\ s2.helm = HelmInit(s1.helm) /\ t2.helm = HelmInit(t1.helm)
    BY <1>4 DEF KeosSpecInit, Sections
  <2>4. s1.gcp = t1.gcp /\ s1.helm = t1.helm /\ s1.helm = d.spec.helm /\ s1.identity = d.spec.identity
    BY <1>4 DEF Sections
  <2>5. s2.gcp = t2.gcp /\ s2.helm = t2.helm
    BY <2>3, <2>4
  <2> HIDE DEF s2, t2
  <2>6. t2.project = "" /\ s2.identity = d.spec.identity
    BY <2>2, <2>4, <1>4 DEF Sections
  <2>7. \A x \in Sections \ {"project", "secureBoot", "gcp", "helm"} : s2[x] = t2[x]
    BY <2>2, <1>4
  <2> QED
    BY <2>1, <2>3, <2>4, <2>5, <2>6, <2>7, <1>4
<1> HIDE DEF s2, t2
<1>6. t3 = t2
  BY <1>5 DEF DefaultWorkloadPool
<1>7. /\ DOMAIN s3 = Sections
      /\ \A x \in Sections \ {"identity"} : s3[x] = s2[x]
      /\ s3.identity = s2.identity
            \/ (s2.identity.pool = "" /\ s3.identity = [s2.identity EXCEPT !.pool = s2.project])
  <2>1. \/ s3 = s2
        \/ s3 = [s2 EXCEPT !.identity.pool = s2.project] /\ s2.identity.pool = ""
    BY DEF DefaultWorkloadPool
  <2> HIDE DEF s3
  <2>2. CASE s3 = s2
    BY <2>2, <1>5
  <2>3. CASE s3 = [s2 EXCEPT !.identity.pool = s2.project] /\ s2.identity.pool = ""
    BY <2>3, <1>5 DEF Sections
  <2> QED
    BY <2>1, <2>2, <2>3
<1> HIDE DEF s3, t3
<1>8. ValidateStruct(s3) /\ Parse(d) = s5
  BY <1>2 DEF GetClusterDescriptor, s2, s3
<1>9. Same(s3, t3) /\ s3.config = t3.config /\ t3.identity = d.spec.identity
  BY <1>5, <1>6, <1>7 DEF Same, Sections
<1>10. ValidateStruct(t3)
  <2>1. WorkloadIdentityTags(s3.identity) => WorkloadIdentityTags(t3.identity)
    <3>1. CASE s3.identity = t3.identity
      BY <3>1
    <3>2. CASE s3.identity # t3.identity
      <4>1. t3.identity.pool = "" /\ s3.identity = [t3.identity EXCEPT !.pool = s2.project]
        BY <3>2, <1>7, <1>9, <1>5
      <4>2. s3.identity.enabled = t3.identity.enabled /\ s3.identity.accounts = t3.identity.accounts
        BY <4>1, <1>1, <1>9
      <4> QED
        BY <4>1, <4>2 DEF WorkloadIdentityTags, GcpServiceAccountsValidator
    <3> QED
      BY <3>1, <3>2
  <2> QED
    BY <1>8, <1>9, <2>1 DEF ValidateStruct, Same
<1>11. Parse(e) = t5
  BY <1>3, <1>10 DEF GetClusterDescriptor, t2, t3
<1>12. DOMAIN t3 = Sections
  BY <1>5, <1>6
<1>13. \A x \in Sections \ {"config"} : s4[x] = s3[x] /\ t4[x] = t3[x]
  BY <1>7, <1>12
<1>14. s4.config = ClusterConfigOf(s3) /\ t4.config = ClusterConfigOf(t3) /\ DOMAIN s4 = Sections /\ DOMAIN t4 = Sections
  BY <1>7, <1>12 DEF Sections
<1>15. ClusterConfigOf(s3) = ClusterConfigOf(t3)
  BY <1>9 DEF ClusterConfigOf, Same
<1> HIDE DEF s4, t4
<1>16. \A x \in Sections \ {"identity"} : s5[x] = s4[x] /\ t5[x] = t4[x]
  BY <1>14 DEF Clean
<1> HIDE DEF s5, t5
<1>17. \A x \in Sections \ {"identity", "config"} : s5[x] = s3[x] /\ t5[x] = t3[x]
  BY <1>13, <1>16
<1>18. Same(s5, t5)
  BY <1>9, <1>17 DEF Same, Sections
<1>19. s5.config = t5.config
  BY <1>14, <1>15, <1>16 DEF Sections
<1>20. t5 # Rejected
  <2>1. t5.infra = t3.infra
    BY <1>17 DEF Sections
  <2>2. t5.infra # "rejected"
    BY <2>1, <1>10 DEF ValidateStruct
  <2>3. Rejected.infra = "rejected"
    BY DEF Rejected
  <2> QED
    BY <2>2, <2>3
<1>21. s5.helm.auth = d.spec.helm.auth
  <2>1. s5.helm = HelmInit(d.spec.helm)
    BY <1>5, <1>7, <1>17 DEF Sections
  <2> QED
    BY <2>1, <1>1 DEF HelmInit
<1> QED
  BY <1>8, <1>11, <1>18, <1>19, <1>20, <1>21 DEF e

(* validate.Cluster reads none of the rest.                                *)
LEMMA SameCommon ==
  ASSUME NEW s, NEW t, Same(s, t), s.config = t.config, ValidateCommon(s)
  PROVE  ValidateCommon(t)
<1>1. ValidateVolumes(t)
  BY DEF ValidateCommon, ValidateVolumes, Same
<1>2. ValidateClusterConfig(t)
  BY DEF ValidateCommon, ValidateClusterConfig, Same
<1> QED
  BY <1>1, <1>2 DEF ValidateCommon, ValidateK8SVersion, Same

LEMMA SameRegion ==
  ASSUME NEW s, NEW t, Same(s, t), NEW c
  PROVE  /\ ValidateRegion(s, c) => ValidateRegion(t, c)
         /\ \A azs : ZonesAndSizes(s, azs, c) => ZonesAndSizes(t, azs, c)
BY DEF ValidateRegion, ZonesAndSizes, Same

(* Of the credentials only the region of AWS and what is missing count.    *)
LEMMA SameAWS ==
  ASSUME NEW s, NEW t, Same(s, t), NEW c, NEW a, NEW b, a.region = b.region, a.missing = b.missing,
         ValidateAWS(s, a, c)
  PROVE  ValidateAWS(t, b, c)
<1>1. ValidateAWSSecurity(t)
  BY DEF ValidateAWS, ValidateAWSSecurity, Same
<1>2. ValidateAWSNetwork(t, c)
  <2>1. ValidateAWSNetwork(s, c)
    BY DEF ValidateAWS
  <2>2. ValidateAWSAZs(s, c) => ValidateAWSAZs(t, c)
    <3> DEFINE enough == Cardinality(c.privateAZs) >= 3
               fits(ws) == \A i \in DOMAIN ws :
                              ws[i].dist = "unbalanced" /\ ws[i].az # "" => ws[i].az \in c.privateAZs
    <3>1. s.workers = t.workers
      BY DEF Same
    <3>2. ValidateAWSAZs(s, c) <=> enough /\ fits(s.workers)
      BY DEF ValidateAWSAZs
    <3>3. ValidateAWSAZs(t, c) <=> enough /\ fits(t.workers)
      BY DEF ValidateAWSAZs
    <3> HIDE DEF enough, fits
    <3> QED
      BY <3>1, <3>2, <3>3
  <2>3. s.networks = t.networks /\ s.managed = t.managed
    BY DEF Same
  <2> DEFINE n == s.networks
             ids == {n.subnets[i].id : i \in DOMAIN n.subnets}
  <2>4. /\ n.vpc # "" =>
              /\ n.vpcCidr = NoBlock
              /\ ListedOrUnknown(c, "vpcs", c.vpcs, n.vpc)
              /\ n.subnets # <<>> /\ "" \notin ids
              /\ ValidateAWSAZs(s, c)
              /\ \A id \in ids : ListedOrUnknown(c, "subnets", c.subnets, id)
              /\ n.podsSubnets => n.podsCidr = NoBlock
        /\ n.vpc = "" => ~n.podsSubnets
        /\ n.vpcCidr # NoBlock => n.vpcCidr.ok /\ n.vpcCidr.bits <= 24 /\ n.subnets = <<>>
        /\ n.podsCidr # NoBlock /\ s.managed => ValidateAWSPodsNetwork(n.podsCidr)
    BY <2>1 DEF ValidateAWSNetwork
  <2> HIDE DEF n
  <2>5. t.networks = n
    BY <2>3 DEF n
  <2> QED
    BY <2>2, <2>3, <2>4, <2>5 DEF ValidateAWSNetwork
<1>3. \A i \in DOMAIN t.workers : AWSWorker(t, t.workers[i])
  BY DEF ValidateAWS, AWSWorker, Same
<1>4. AWSGetConfig(b, c)
  BY DEF ValidateAWS, AWSGetConfig
<1>5. GetAWSAzs(a, s.region, c) = GetAWSAzs(b, t.region, c)
  BY DEF GetAWSAzs, Same
<1> QED
  BY <1>1, <1>2, <1>3, <1>4, <1>5, SameRegion DEF ValidateAWS, Same

LEMMA SameAzure ==
  ASSUME NEW s, NEW t, Same(s, t), NEW c, ValidateAzure(s, c)
  PROVE  ValidateAzure(t, c)
<1>1. ValidateAzureNetwork(t, c)
  BY DEF ValidateAzure, ValidateAzureNetwork, Same
<1>2. AzureRegistries(t)
  BY DEF ValidateAzure, AzureRegistries, Same
<1> QED
  BY <1>1, <1>2, SameRegion DEF ValidateAzure, Same

LEMMA SameGCP ==
  ASSUME NEW s, NEW t, Same(s, t), NEW c, ValidateGCP(s, c)
  PROVE  ValidateGCP(t, c)
<1>1. GCPUnmanaged(s, c) => GCPUnmanaged(t, c)
  BY DEF GCPUnmanaged, Same
<1>2. GKEReturnsEarly(s) => GKEReturnsEarly(t)
  BY DEF GKEReturnsEarly, Same
<1> QED
  BY <1>1, <1>2, SameRegion DEF ValidateGCP, Same

LEMMA SameInfra ==
  ASSUME NEW s, NEW t, Same(s, t), NEW c, NEW a, NEW b, a.region = b.region, a.missing = b.missing,
         ValidateInfra(s, a, c)
  PROVE  ValidateInfra(t, b, c)
<1>1. s.infra = t.infra
  BY DEF Same
<1> QED
  BY <1>1, SameAWS, SameAzure, SameGCP DEF ValidateInfra

LEMMA SameCredentials ==
  ASSUME NEW s, NEW t, Same(s, t), NEW sec, NEW creds, ValidateCredentials(sec, s, creds)
  PROVE  ValidateCredentials(sec, t, creds)
<1>1. ProviderCredentials(sec, s, creds) = ProviderCredentials(sec, t, creds)
  BY DEF ProviderCredentials, Same
<1>2. ASSUME NEW list, ValidateRegistryCredentials(list, s)
      PROVE  ValidateRegistryCredentials(list, t)
  <2>1. AuthRegistries(s) = AuthRegistries(t) /\ KeosRegistries(s) = KeosRegistries(t) /\ s.registries = t.registries
    BY DEF AuthRegistries, KeosRegistries, Same
  <2>2. CredentialsExist(list, s) => CredentialsExist(list, t)
    BY <2>1 DEF CredentialsExist
  <2> QED
    BY <1>2, <2>1, <2>2 DEF ValidateRegistryCredentials
<1>3. s.helm = t.helm
  BY DEF Same
<1> QED
  BY <1>1, <1>2, <1>3 DEF ValidateCredentials

LEMMA SameCluster ==
  ASSUME NEW s, NEW t, Same(s, t), s.config = t.config,
         NEW f, NEW password, NEW creds, NEW c, Cluster(f, password, s, creds, c)
  PROVE  Cluster(f, password, t, creds, c)
<1>1. ProviderCredentials(SecretsOf(f), s, creds) = ProviderCredentials(SecretsOf(f), t, creds)
  BY DEF ProviderCredentials, Same
<1>2. ValidateInfra(t, ProviderCredentials(SecretsOf(f), t, creds), c)
  BY <1>1, SameInfra DEF Cluster
<1> QED
  BY <1>2, SameCommon, SameCredentials DEF Cluster

-----------------------------------------------------------------------------
(* The secrets file after EnsureSecretsFile holds all that the call was    *)
(* accepted with: the next call is accepted by it, with the credentials    *)
(* still in the descriptor or without them.  The Helm repository is an     *)
(* exception, and an EKS cluster for which another region is stored.       *)

HelmWhole(sec) ==
    "helm_repository" \in DOMAIN sec =>
        sec["helm_repository"] # NoCredential /\ Complete(sec["helm_repository"])

LEMMA ReadableAfter ==
  ASSUME NEW f, NEW c, Readable(f, c.password),
         NEW g \in IF Edited(f, c) THEN SecretsAfter(f, c) ELSE {f}
  PROVE  Readable(g, c.password)
<1>1. CASE ~Edited(f, c)
  BY <1>1
<1>2. CASE Edited(f, c)
  <2>1. PICK keys : g = [password |-> c.password, keys |-> keys]
    BY <1>2 DEF SecretsAfter
  <2>2. "keys" \in DOMAIN g /\ g.password = c.password
    BY <2>1
  <2>3. "keys" \notin DOMAIN Absent /\ "keys" \notin DOMAIN Torn
    BY DEF Absent, Torn
  <2>4. g \notin {Absent, Torn}
    BY <2>2, <2>3
  <2> QED
    BY <2>2, <2>4 DEF Readable
<1> QED
  BY <1>1, <1>2

LEMMA ProviderAgain ==
  ASSUME NEW f, f # Torn,
         NEW c, c.spec.infra \in Infra, IsKey(c.creds.provider),
         NEW g \in IF Edited(f, c) THEN SecretsAfter(f, c) ELSE {f},
         c.spec.infra \in DOMAIN SecretsOf(f) => c.creds.provider = SecretsOf(f)[c.spec.infra],
         ValidateProviderCredentials(c.creds.provider),
         NEW creds
  PROVE  LET p == ProviderCredentials(SecretsOf(g), c.spec, creds)
         IN  /\ ValidateProviderCredentials(p) /\ p.missing = c.creds.provider.missing
             /\ p.region = c.creds.provider.region \/ (c.spec.infra = "aws" /\ c.spec.managed)
<1> DEFINE old == SecretsOf(f)
           new == SecretsOf(g)
           infra == c.spec.infra
           q == c.creds.provider
           p == ProviderCredentials(new, c.spec, creds)
<1>1. infra \in KeptKeys
  BY DEF KeptKeys
<1>2. infra \in DOMAIN old => infra \in DOMAIN new /\ new[infra] = old[infra]
  BY <1>1, SecretsStored
<1>3. infra \notin DOMAIN old => infra \in DOMAIN new /\ new[infra] \in WithRegion(q, c.spec)
  BY SecretsStored
<1>4. infra \in DOMAIN old => q = old[infra]
  OBVIOUS
<1> HIDE DEF old, new
<1>5. infra \in DOMAIN new /\ p = new[infra]
  BY <1>2, <1>3 DEF ProviderCredentials, Lookup
<1>6. p = q \/ p \in WithRegion(q, c.spec)
  BY <1>2, <1>3, <1>4, <1>5
<1> HIDE DEF p, q
<1>7. /\ IsKey(p) /\ p.missing = q.missing
      /\ p.region = q.region \/ (c.spec.infra = "aws" /\ c.spec.managed)
  BY <1>6, RegionOnly DEF q
<1>8. p # NoCredential
  BY <1>7, NoId DEF IsKey
<1>9. ValidateProviderCredentials(p)
  BY <1>7, <1>8 DEF ValidateProviderCredentials, Complete, q
<1> QED
  BY <1>7, <1>9 DEF p, q, new

LEMMA RegistriesAgain ==
  ASSUME NEW f, f # Torn,
         NEW c, c.spec.infra \in Infra, IsKey(c.creds.provider),
         NEW g \in IF Edited(f, c) THEN SecretsAfter(f, c) ELSE {f},
         NEW read, ValidateRegistryCredentials(RegistryList(SecretsOf(f), read), c.spec),
         c.creds.registries = RegistriesCredentials(RegistryList(SecretsOf(f), read), c.spec),
         NEW creds
  PROVE  ValidateRegistryCredentials(RegistryList(SecretsOf(g), creds), c.spec)
<1> DEFINE old == SecretsOf(f)
           new == SecretsOf(g)
           list == RegistryList(old, read)
           next == RegistryList(new, creds)
           mine == c.creds.registries
           regs == c.spec.registries
<1>1. "docker_registries" \in KeptKeys
  BY DEF KeptKeys
<1>2. "docker_registries" \in DOMAIN old =>
         "docker_registries" \in DOMAIN new /\ new["docker_registries"] = old["docker_registries"]
  BY <1>1, SecretsStored
<1>3. mine # <<>> /\ "docker_registries" \notin DOMAIN old =>
         "docker_registries" \in DOMAIN new /\ new["docker_registries"] = mine
  BY SecretsStored
<1>4. CASE "docker_registries" \in DOMAIN old
  <2>1. next = list
    BY <1>2, <1>4 DEF RegistryList, Lookup
  <2> QED
    BY <2>1
<1>5. CASE "docker_registries" \notin DOMAIN old
  <2>1. DOMAIN mine = AuthRegistries(c.spec)
    BY AcceptedRegistries
  <2>2. \A i \in AuthRegistries(c.spec) : mine[i].url = regs[i].url /\ Complete(mine[i])
    <3>1. \A i \in AuthRegistries(c.spec) : mine[i] = CredentialsFor(regs[i].url, list)
      BY DEF RegistriesCredentials
    <3> HIDE DEF mine
    <3> QED
      BY <3>1, AcceptedLogins
  <2>3. /\ \A i, j \in DOMAIN regs : regs[i].url = regs[j].url => i = j
        /\ \E i \in DOMAIN regs : KeosRegistries(c.spec) = {i}
    BY DEF ValidateRegistryCredentials, Distinct
  <2>4. AuthRegistries(c.spec) \subseteq DOMAIN regs
    BY DEF AuthRegistries
  <2>5. CASE mine = <<>>
    <3>1. AuthRegistries(c.spec) = {}
      BY <2>1, <2>5
    <3> QED
      BY <2>3, <3>1 DEF ValidateRegistryCredentials, Distinct, CredentialsExist
  <2>6. CASE mine # <<>>
    <3>1. next = mine
      BY <1>3, <1>5, <2>6 DEF RegistryList, Lookup
    <3> HIDE DEF mine, next
    <3>2. \A i, j \in DOMAIN next : next[i].url = next[j].url => i = j
      BY <3>1, <2>1, <2>2, <2>3, <2>4
    <3>3. CredentialsExist(next, c.spec)
      BY <3>1, <2>1, <2>2 DEF CredentialsExist
    <3>4. ValidateRegistryCredentials(next, c.spec)
      BY <2>3, <3>2, <3>3 DEF ValidateRegistryCredentials, Distinct
    <3> QED
      BY <3>4 DEF next
  <2> QED
    BY <2>5, <2>6
<1> QED
  BY <1>4, <1>5

LEMMA TokenAgain ==
  ASSUME NEW f, f # Torn,
         NEW c, c.spec.infra \in Infra, IsKey(c.creds.provider),
         NEW g \in IF Edited(f, c) THEN SecretsAfter(f, c) ELSE {f},
         NEW read, Fits(GithubToken(SecretsOf(f), read)), c.creds.token = GithubToken(SecretsOf(f), read),
         NEW creds, creds.token = read.token \/ creds.token = ""
  PROVE  Fits(GithubToken(SecretsOf(g), creds))
<1> DEFINE old == SecretsOf(f)
           new == SecretsOf(g)
<1>1. "github_token" \in KeptKeys
  BY DEF KeptKeys
<1>2. "github_token" \in DOMAIN old =>
         "github_token" \in DOMAIN new /\ new["github_token"] = old["github_token"]
  BY <1>1, SecretsStored
<1>3. c.creds.token # "" /\ "github_token" \notin DOMAIN old =>
         "github_token" \in DOMAIN new /\ new["github_token"] = c.creds.token
  BY SecretsStored
<1>4. c.creds.token = "" /\ "github_token" \notin DOMAIN old => "github_token" \notin DOMAIN new
  BY SecretsStored
<1>5. /\ Fits(c.creds.token) /\ Fits("")
      /\ c.creds.token = IF "github_token" \in DOMAIN old THEN old["github_token"] ELSE read.token
  BY DEF Fits, GithubToken, Lookup
<1> HIDE DEF old, new
<1>6. GithubToken(new, creds) \in {c.creds.token, ""}
  BY <1>2, <1>3, <1>4, <1>5 DEF GithubToken, Lookup
<1>7. Fits(GithubToken(new, creds))
  BY <1>5, <1>6
<1> QED
  BY <1>7 DEF new

LEMMA HelmAgain ==
  ASSUME NEW f, f # Torn,
         NEW c, c.spec.infra \in Infra,
         NEW g \in IF Edited(f, c) THEN SecretsAfter(f, c) ELSE {f},
         HelmWhole(SecretsOf(f)),
         NEW read, ValidateHelmCredentials(HelmCredentials(SecretsOf(f), read), c.spec.helm),
         c.creds.helm = IF c.spec.helm.auth THEN HelmCredentials(SecretsOf(f), read) ELSE NoCredential,
         NEW creds, creds.helm = read.helm \/ creds.helm = NoCredential
  PROVE  /\ HelmWhole(SecretsOf(g))
         /\ \/ ValidateHelmCredentials(HelmCredentials(SecretsOf(g), creds), c.spec.helm)
            \/ creds.helm # read.helm /\ c.spec.helm.auth /\ InSecrets(g).helm = {}
<1> DEFINE old == SecretsOf(f)
           new == SecretsOf(g)
           key == "helm_repository"
           mine == c.creds.helm
           auth == c.spec.helm.auth
           before == HelmCredentials(old, read)
           after == HelmCredentials(new, creds)
<1>1. f = Absent =>
         /\ key \in DOMAIN new <=> mine # NoCredential
         /\ mine # NoCredential => new[key] = mine
  BY HelmStored
<1>2. f # Absent =>
         /\ key \in DOMAIN new <=> key \in DOMAIN old
         /\ key \in DOMAIN old => new[key] = old[key]
  BY HelmStored
<1>3. f = Absent => DOMAIN old = {}
  BY NothingStored
<1>4. InSecrets(g).helm = Named(Lookup(new, key, NoCredential))
  BY DEF InSecrets, Parts
<1>5. auth => Complete(before)
  BY DEF ValidateHelmCredentials
<1>6. before = IF key \in DOMAIN old THEN old[key] ELSE read.helm
  BY DEF HelmCredentials, Lookup, HelmWhole
<1>7. mine # NoCredential => auth /\ mine = before
  OBVIOUS
<1>8. HelmWhole(old) /\ (~auth => mine = NoCredential) /\ (auth => mine = before)
  OBVIOUS
<1> HIDE DEF old, new, mine, before
<1>9. HelmWhole(new)
  <2>1. CASE f = Absent
    BY <2>1, <1>1, <1>5, <1>7 DEF HelmWhole
  <2>2. CASE f # Absent
    BY <2>2, <1>2, <1>8 DEF HelmWhole
  <2> QED
    BY <2>1, <2>2
<1>10. after = IF key \in DOMAIN new THEN new[key] ELSE creds.helm
  BY <1>9 DEF HelmCredentials, Lookup, HelmWhole
<1> HIDE DEF after
<1>11. CASE ~auth
  BY <1>9, <1>11 DEF ValidateHelmCredentials, new
<1>12. CASE auth
  <2>1. CASE key \in DOMAIN new
    <3>1. new[key] = before
      <4>1. CASE f = Absent
        BY <4>1, <2>1, <1>1, <1>7
      <4>2. CASE f # Absent
        BY <4>2, <2>1, <1>2, <1>6
      <4> QED
        BY <4>1, <4>2
    <3>2. after = before
      BY <2>1, <3>1, <1>10
    <3> QED
      BY <1>9, <3>2 DEF before, after, old, new
  <2>2. CASE key \notin DOMAIN new
    <3>1. after = creds.helm /\ InSecrets(g).helm = {}
      <4>1. Lookup(new, key, NoCredential) = NoCredential
        BY <2>2 DEF Lookup
      <4> QED
        BY <4>1, <2>2, <1>4, <1>10, NoId DEF Named
    <3>2. before = read.helm
      <4>1. key \notin DOMAIN old
        BY <2>2, <1>2, <1>3
      <4> QED
        BY <4>1, <1>6
    <3>3. CASE creds.helm = read.helm
      <4>1. after = before
        BY <3>1, <3>2, <3>3
      <4> QED
        BY <1>9, <4>1 DEF before, after, old, new
    <3>4. CASE creds.helm # read.helm
      BY <1>9, <1>12, <3>1, <3>4 DEF new
    <3> QED
      BY <3>3, <3>4
  <2> QED
    BY <2>1, <2>2
<1> QED
  BY <1>11, <1>12

(* The whole of validate.Cluster for the next call.                        *)
LEMMA AcceptedAgain ==
  ASSUME NEW f, HelmWhole(SecretsOf(f)),
         NEW c, c.spec.infra \in Infra, IsKey(c.creds.provider),
         NEW cloud, NEW read, Cluster(f, c.password, c.spec, read, cloud),
         c.creds = ReadCredentials(SecretsOf(f), c.spec, read),
         NEW g \in IF Edited(f, c) THEN SecretsAfter(f, c) ELSE {f},
         NEW creds \in {read, NoCredentials}
  PROVE  /\ HelmWhole(SecretsOf(g))
         /\ \/ Cluster(g, c.password, c.spec, creds, cloud)
            \/ creds.helm # read.helm /\ c.spec.helm.auth /\ InSecrets(g).helm = {}
            \/ /\ c.spec.infra = "aws" /\ c.spec.managed
               /\ ProviderCredentials(SecretsOf(g), c.spec, creds).region # c.creds.provider.region
<1> DEFINE old == SecretsOf(f)
           new == SecretsOf(g)
           list == RegistryList(old, read)
<1>1. Readable(f, c.password) /\ f # Torn /\ ValidateCommon(c.spec)
  BY ReadableIsWhole DEF Cluster
<1>2. /\ ValidateProviderCredentials(ProviderCredentials(old, c.spec, read))
      /\ ValidateRegistryCredentials(list, c.spec)
      /\ ValidateHelmCredentials(HelmCredentials(old, read), c.spec.helm)
      /\ Fits(GithubToken(old, read))
  BY DEF Cluster, ValidateCredentials
<1>3. ValidateInfra(c.spec, ProviderCredentials(old, c.spec, read), cloud)
  BY DEF Cluster
<1>4. /\ c.creds.provider = ProviderCredentials(old, c.spec, read)
      /\ c.creds.registries = RegistriesCredentials(list, c.spec)
      /\ c.creds.helm = IF c.spec.helm.auth THEN HelmCredentials(old, read) ELSE NoCredential
      /\ c.creds.token = GithubToken(old, read)
  BY DEF ReadCredentials
<1>5. /\ creds.helm = read.helm \/ creds.helm = NoCredential
      /\ creds.token = read.token \/ creds.token = ""
  <2>1. NoCredentials.helm = NoCredential /\ NoCredentials.token = ""
    BY DEF NoCredentials
  <2>2. CASE creds = read
    BY <2>2
  <2>3. CASE creds = NoCredentials
    BY <2>1, <2>3
  <2> QED
    BY <2>2, <2>3
<1>6. Readable(g, c.password)
  BY <1>1, ReadableAfter
<1> DEFINE p == ProviderCredentials(new, c.spec, creds)
<1>8. c.spec.infra \in DOMAIN old => c.creds.provider = old[c.spec.infra]
  BY <1>4 DEF ProviderCredentials, Lookup
<1>9. /\ ValidateProviderCredentials(p) /\ p.missing = c.creds.provider.missing
      /\ p.region = c.creds.provider.region \/ (c.spec.infra = "aws" /\ c.spec.managed)
  BY <1>1, <1>2, <1>4, <1>8, ProviderAgain
<1>10. ValidateRegistryCredentials(RegistryList(new, creds), c.spec)
  BY <1>1, <1>2, <1>4, RegistriesAgain
<1>11. Fits(GithubToken(new, creds))
  <2>1. Fits(GithubToken(old, read)) /\ c.creds.token = GithubToken(old, read)
    BY <1>2, <1>4
  <2> QED
    BY <1>1, <1>5, <2>1, TokenAgain
<1>12. p.region = c.creds.provider.region => ValidateInfra(c.spec, p, cloud)
  <2>1. Same(c.spec, c.spec)
    BY DEF Same
  <2> HIDE DEF p
  <2> QED
    BY <1>3, <1>4, <1>9, <2>1, SameInfra
<1>13. /\ HelmWhole(new)
       /\ \/ ValidateHelmCredentials(HelmCredentials(new, creds), c.spec.helm)
          \/ creds.helm # read.helm /\ c.spec.helm.auth /\ InSecrets(g).helm = {}
  <2>1. /\ ValidateHelmCredentials(HelmCredentials(old, read), c.spec.helm)
        /\ c.creds.helm = IF c.spec.helm.auth THEN HelmCredentials(old, read) ELSE NoCredential
    BY <1>2, <1>4
  <2> QED
    BY <1>1, <1>5, <2>1, HelmAgain
<1>14. ValidateHelmCredentials(HelmCredentials(new, creds), c.spec.helm) /\ p.region = c.creds.provider.region =>
          Cluster(g, c.password, c.spec, creds, cloud)
  BY <1>1, <1>6, <1>9, <1>10, <1>11, <1>12 DEF Cluster, ValidateCredentials
<1> QED
  BY <1>9, <1>13, <1>14

LEMMA HelmWholeAfter ==
  ASSUME NEW f, f # Torn, NEW c, c.spec.infra \in Infra,
         c.creds.helm # NoCredential => Complete(c.creds.helm),
         NEW g \in IF Edited(f, c) THEN SecretsAfter(f, c) ELSE {f},
         HelmWhole(SecretsOf(f))
  PROVE  HelmWhole(SecretsOf(g))
<1> DEFINE old == SecretsOf(f)
           new == SecretsOf(g)
           key == "helm_repository"
           mine == c.creds.helm
<1>1. f = Absent =>
         /\ key \in DOMAIN new <=> mine # NoCredential
         /\ mine # NoCredential => new[key] = mine
  BY HelmStored
<1>2. f # Absent =>
         /\ key \in DOMAIN new <=> key \in DOMAIN old
         /\ key \in DOMAIN old => new[key] = old[key]
  BY HelmStored
<1>3. HelmWhole(old) /\ (mine # NoCredential => Complete(mine))
  OBVIOUS
<1> HIDE DEF old, new, mine
<1>4. HelmWhole(new)
  BY <1>1, <1>2, <1>3 DEF HelmWhole
<1> QED
  BY <1>4 DEF new

-----------------------------------------------------------------------------
(* An accepted call is accepted again.                                     *)

(* A secrets file that no password opens is removed by hand.               *)
Whole(f) == IF f = Torn THEN Absent ELSE f

(* The call s is accepted with the descriptor d, its credentials replaced  *)
(* by creds.                                                               *)
Accepts(f, s, d, creds) ==
    Parse(d) # Rejected /\ Cluster(f, s.password, Parse(d), creds, s.cloud)

HelmGone(f, d) == Parse(d).helm.auth /\ InSecrets(f).helm = {}

(* What the running call knows of the files.                               *)
Known ==
    /\ HelmWhole(SecretsOf(secrets))
    /\ secrets = Torn => call.pc \in {"idle", "validate"}
    /\ call.pc = "validate" => call.spec = Parse(call.read) /\ call.spec # Rejected
    /\ call.pc \in {"private", "create"} =>
          (call.creds.helm # NoCredential => Complete(call.creds.helm))
    /\ settled # {} => descriptor # Torn
    /\ call.pc = "write" => \A s \in settled : call.read = descriptor

(* The accepted call would be accepted now,                                *)
AtRest ==
    \A s \in settled :
        \/ HelmMisplaced \/ AsksElsewhere(Whole(secrets), descriptor, descriptor.creds, s.region)
        \/ Accepts(Whole(secrets), s, descriptor, descriptor.creds)

(* before EnsureSecretsFile with the files as they were,                   *)
BeforeStore ==
    call.pc \in {"private", "create"} => \A s \in settled :
        /\ s.password = call.password /\ s.region = call.creds.provider.region
        /\ call.spec = Parse(descriptor)
        /\ Accepts(secrets, s, descriptor, descriptor.creds)
        /\ call.creds = ReadCredentials(SecretsOf(secrets), call.spec, descriptor.creds)

(* and after it without the credentials in the descriptor.                 *)
AfterStore ==
    call.pc \in {"rewrite", "write"} => \A s \in settled :
        /\ Parse(descriptor) # Rejected
        /\ \/ HelmGone(secrets, descriptor) \/ AsksElsewhere(secrets, descriptor, NoCredentials, s.region)
           \/ Accepts(secrets, s, descriptor, NoCredentials)

Again == Known /\ AtRest /\ BeforeStore /\ AfterStore

(* RewriteDescriptorFile.                                                  *)
LEMMA AcceptedRewritten ==
  ASSUME NEW d, WellFormed(d), NEW f, f # Torn, NEW s, Parse(d) # Rejected,
         HelmGone(f, d) \/ AsksElsewhere(f, d, NoCredentials, s.region) \/ Accepts(f, s, d, NoCredentials)
  PROVE  LET e == RemoveCredentials(d)
         IN  \/ e.spec.helm.auth /\ e.creds.helm = NoCredential /\ InSecrets(f).helm = {}
             \/ AsksElsewhere(Whole(f), e, e.creds, s.region)
             \/ Accepts(Whole(f), s, e, e.creds)
<1> DEFINE e == RemoveCredentials(d)
<1>1. e.spec = d.spec /\ e.creds = NoCredentials /\ NoCredentials.helm = NoCredential
  BY DEF RemoveCredentials, WellFormed, NoCredentials
<1>2. /\ Parse(e) # Rejected /\ Same(Parse(d), Parse(e)) /\ Parse(d).config = Parse(e).config
      /\ Parse(d).helm.auth = d.spec.helm.auth
  BY ParsedAgain
<1>3. CASE HelmGone(f, d)
  BY <1>1, <1>2, <1>3 DEF HelmGone
<1>4. CASE Accepts(f, s, d, NoCredentials)
  <2> HIDE DEF e
  <2>1. Cluster(f, s.password, Parse(d), NoCredentials, s.cloud)
    BY <1>4 DEF Accepts
  <2>2. Cluster(f, s.password, Parse(e), NoCredentials, s.cloud)
    BY <2>1, <1>2, SameCluster
  <2> QED
    BY <2>2, <1>1, <1>2 DEF Accepts, Whole, e
<1>5. CASE AsksElsewhere(f, d, NoCredentials, s.region)
  <2> HIDE DEF e
  <2>1. AsksElsewhere(f, e, NoCredentials, s.region)
    BY <1>2, <1>5 DEF AsksElsewhere, ProviderCredentials, Same
  <2> QED
    BY <2>1, <1>1 DEF Whole, e
<1> QED
  BY <1>3, <1>4, <1>5


LEMMA SettledValidate ==
  ASSUME Shapes, Again, NEW c \in Clouds, Validate(c)
  PROVE  Again'
<1> DEFINE creds == ReadCredentials(SecretsOf(secrets), call.spec, call.read.creds)
<1>1. /\ call.pc = "validate" /\ call'.pc = "private"
      /\ call'.spec = call.spec /\ call'.creds = creds /\ call'.password = call.password
      /\ settled' = IF descriptor = call.read
                    THEN {[cloud |-> c, region |-> creds.provider.region, password |-> call.password]}
                    ELSE {}
      /\ UNCHANGED <<descriptor, secrets>>
  BY DEF Validate, KeepFiles
<1>2. Cluster(secrets, call.password, call.spec, call.read.creds, c)
  BY DEF Validate
<1>3. call.spec = Parse(call.read) /\ call.spec # Rejected
  BY <1>1 DEF Again, Known
<1>4. secrets # Torn
  BY <1>2, ReadableIsWhole DEF Cluster
<1>5. \A s \in settled' :
         /\ s.cloud = c /\ s.region = creds.provider.region /\ s.password = call.password
         /\ descriptor = call.read
  BY <1>1
<1>6. descriptor = call.read => descriptor # Torn
  BY <1>3 DEF Parse
<1>7. creds.helm # NoCredential => Complete(creds.helm)
  <2>1. creds.helm = IF call.spec.helm.auth THEN HelmCredentials(SecretsOf(secrets), call.read.creds) ELSE NoCredential
    BY DEF ReadCredentials
  <2>2. ValidateHelmCredentials(HelmCredentials(SecretsOf(secrets), call.read.creds), call.spec.helm)
    BY <1>2 DEF Cluster, ValidateCredentials
  <2> HIDE DEF creds
  <2> QED
    BY <2>1, <2>2 DEF ValidateHelmCredentials
<1>8. \A s \in settled' :
         Accepts(secrets, s, descriptor, descriptor.creds) /\ call.spec = Parse(descriptor)
  BY <1>2, <1>3, <1>5 DEF Accepts
<1>9. \A s \in settled' : creds = ReadCredentials(SecretsOf(secrets), call.spec, descriptor.creds)
  BY <1>5
<1> HIDE DEF creds
<1>10. Known'
  <2>1. HelmWhole(SecretsOf(secrets))
    BY DEF Again, Known
  <2> QED
    BY <1>1, <1>4, <1>5, <1>6, <1>7, <2>1 DEF Known
<1>11. AtRest'
  BY <1>1, <1>4, <1>8 DEF AtRest, Whole
<1>12. BeforeStore'
  BY <1>1, <1>5, <1>8, <1>9 DEF BeforeStore
<1> QED
  BY <1>1, <1>10, <1>11, <1>12 DEF Again, AfterStore

LEMMA SettledStore ==
  ASSUME Shapes, Again, EnsureSecretsFile
  PROVE  Again'
<1>1. /\ call.pc = "create" /\ call'.pc = "rewrite"
      /\ secrets' \in IF Edited(secrets, call) THEN SecretsAfter(secrets, call) ELSE {secrets}
      /\ Readable(secrets, call.password)
      /\ UNCHANGED <<descriptor, settled>>
  BY DEF EnsureSecretsFile
<1>2. secrets # Torn
  BY <1>1, ReadableIsWhole
<1>3. call.spec.infra \in Infra /\ IsKey(call.creds.provider)
  BY <1>1 DEF Shapes
<1>4. HelmWhole(SecretsOf(secrets)) /\ (call.creds.helm # NoCredential => Complete(call.creds.helm))
  BY <1>1 DEF Again, Known
<1>5. HelmWhole(SecretsOf(secrets'))
  BY <1>1, <1>2, <1>3, <1>4, HelmWholeAfter
<1>6. secrets' # Torn
  <2>1. Readable(secrets', call.password)
    BY <1>1, ReadableAfter
  <2> QED
    BY <2>1, ReadableIsWhole
<1>7. ASSUME NEW s \in settled
      PROVE  /\ \/ AsksElsewhere(secrets', descriptor, descriptor.creds, s.region)
                \/ Accepts(secrets', s, descriptor, descriptor.creds)
             /\ \/ HelmGone(secrets', descriptor) \/ AsksElsewhere(secrets', descriptor, NoCredentials, s.region)
                \/ Accepts(secrets', s, descriptor, NoCredentials)
             /\ Parse(descriptor) # Rejected
  <2> DEFINE read == descriptor.creds
  <2>1. /\ s.password = call.password /\ call.spec = Parse(descriptor)
        /\ s.region = call.creds.provider.region
        /\ Accepts(secrets, s, descriptor, read)
        /\ call.creds = ReadCredentials(SecretsOf(secrets), call.spec, read)
    BY <1>1 DEF Again, BeforeStore
  <2>3. Parse(descriptor) # Rejected /\ Cluster(secrets, call.password, call.spec, read, s.cloud)
    BY <2>1 DEF Accepts
  <2> HIDE DEF read
  <2>4. ASSUME NEW creds \in {read, NoCredentials}
        PROVE  \/ Cluster(secrets', call.password, call.spec, creds, s.cloud)
               \/ creds.helm # read.helm /\ call.spec.helm.auth /\ InSecrets(secrets').helm = {}
               \/ AsksElsewhere(secrets', descriptor, creds, s.region)
    <3>1. \/ Cluster(secrets', call.password, call.spec, creds, s.cloud)
          \/ creds.helm # read.helm /\ call.spec.helm.auth /\ InSecrets(secrets').helm = {}
          \/ /\ call.spec.infra = "aws" /\ call.spec.managed
             /\ ProviderCredentials(SecretsOf(secrets'), call.spec, creds).region # call.creds.provider.region
      BY <1>1, <1>3, <1>4, <2>1, <2>3, AcceptedAgain
    <3> QED
      BY <3>1, <2>1 DEF AsksElsewhere
  <2>5. \/ Cluster(secrets', call.password, call.spec, read, s.cloud)
        \/ AsksElsewhere(secrets', descriptor, read, s.region)
    BY <2>4
  <2>6. \/ Cluster(secrets', call.password, call.spec, NoCredentials, s.cloud)
        \/ call.spec.helm.auth /\ InSecrets(secrets').helm = {}
        \/ AsksElsewhere(secrets', descriptor, NoCredentials, s.region)
    BY <2>4
  <2> QED
    BY <2>1, <2>3, <2>5, <2>6 DEF Accepts, HelmGone, read
<1>8. Known'
  <2>1. settled # {} => descriptor # Torn
    BY DEF Again, Known
  <2> QED
    BY <1>1, <1>5, <1>6, <2>1 DEF Known
<1>9. AtRest'
  BY <1>1, <1>6, <1>7 DEF AtRest, Whole
<1>10. AfterStore'
  BY <1>1, <1>7 DEF AfterStore, HelmGone
<1> QED
  BY <1>1, <1>8, <1>9, <1>10 DEF Again, BeforeStore


LEMMA SettledRewritten ==
  ASSUME Shapes, Again, RewriteDescriptorFile
  PROVE  Again'
<1>1. /\ call.pc = "write" /\ call'.pc = "idle" /\ descriptor' = RemoveCredentials(call.read)
      /\ UNCHANGED <<secrets, settled>>
  BY DEF RewriteDescriptorFile, KeepHistory, Idle
<1>2. secrets # Torn /\ HelmWhole(SecretsOf(secrets))
  BY <1>1 DEF Again, Known
<1>3. WellFormed(call.read)
  BY <1>1 DEF Shapes
<1>4. ASSUME NEW s \in settled
      PROVE  /\ descriptor' # Torn
             /\ \/ HelmMisplaced' \/ AsksElsewhere(secrets, descriptor', descriptor'.creds, s.region)
                \/ Accepts(secrets, s, descriptor', descriptor'.creds)
  <2>1. /\ call.read = descriptor
        /\ Parse(descriptor) # Rejected
        /\ \/ HelmGone(secrets, descriptor) \/ AsksElsewhere(secrets, descriptor, NoCredentials, s.region)
           \/ Accepts(secrets, s, descriptor, NoCredentials)
    BY <1>1 DEF Again, Known, AfterStore
  <2>2. Parse(descriptor') # Rejected
    BY <1>1, <1>3, <2>1, ParsedAgain
  <2>3. \/ /\ descriptor'.spec.helm.auth /\ descriptor'.creds.helm = NoCredential
           /\ InSecrets(secrets).helm = {}
        \/ AsksElsewhere(Whole(secrets), descriptor', descriptor'.creds, s.region)
        \/ Accepts(Whole(secrets), s, descriptor', descriptor'.creds)
    BY <1>1, <1>2, <1>3, <2>1, AcceptedRewritten
  <2>4. descriptor' # Torn
    BY <2>2 DEF Parse
  <2>5. secrets' = secrets /\ Whole(secrets) = secrets
    BY <1>1, <1>2 DEF Whole
  <2> QED
    BY <2>3, <2>4, <2>5 DEF HelmMisplaced
<1>5. Known'
  BY <1>1, <1>2, <1>4 DEF Known
<1>6. AtRest'
  BY <1>1, <1>2, <1>4 DEF AtRest, Whole
<1> QED
  BY <1>1, <1>5, <1>6 DEF Again, BeforeStore, AfterStore

LEMMA SettledStep ==
  ASSUME Shapes, Again, [Next]_vars
  PROVE  Again'
<1>1. ASSUME call'.pc \in {"idle", "validate"}, UNCHANGED <<descriptor, secrets, settled>>,
             call'.pc = "validate" => call'.spec = Parse(call'.read) /\ call'.spec # Rejected
      PROVE  Again'
  <2>1. Known'
    BY <1>1 DEF Again, Known
  <2>2. AtRest'
    BY <1>1 DEF Again, AtRest, HelmMisplaced
  <2> QED
    BY <1>1, <2>1, <2>2 DEF Again, BeforeStore, AfterStore
<1>2. ASSUME settled' = {}, HelmWhole(SecretsOf(secrets'))
      PROVE  AtRest' /\ BeforeStore' /\ AfterStore'
  BY <1>2 DEF AtRest, BeforeStore, AfterStore
<1>3. CASE \E flags \in FlagSets, p \in Passwords : Call(flags, p)
  BY <1>1, <1>3 DEF Call, KeepFiles
<1>4. CASE \E c \in Clouds : Validate(c)
  BY <1>4, SettledValidate
<1>5. CASE GetConfigFile
  <2>1. /\ call.pc = "private" /\ call'.pc = "create"
        /\ call'.spec = call.spec /\ call'.creds = call.creds /\ call'.password = call.password
        /\ UNCHANGED <<descriptor, secrets, settled>>
    BY <1>5 DEF GetConfigFile, KeepFiles, KeepHistory
  <2>2. Known'
    BY <2>1 DEF Again, Known
  <2>3. AtRest'
    BY <2>1 DEF Again, AtRest, HelmMisplaced
  <2>4. BeforeStore'
    BY <2>1 DEF Again, BeforeStore
  <2> QED
    BY <2>1, <2>2, <2>3, <2>4 DEF Again, AfterStore
<1>6. CASE ValidateOnly \/ FailOrKill
  <2>1. call'.pc = "idle" /\ UNCHANGED <<descriptor, secrets, settled>>
    BY <1>6 DEF ValidateOnly, FailOrKill, KeepFiles, KeepHistory, Idle
  <2> QED
    BY <1>1, <2>1
<1>7. CASE EnsureSecretsFile
  BY <1>7, SettledStore
<1>8. CASE RewriteRead
  <2>1. /\ call.pc = "rewrite" /\ call'.pc = "write" /\ call'.read = descriptor
        /\ UNCHANGED <<descriptor, secrets, settled>>
    BY <1>8 DEF RewriteRead, KeepFiles, KeepHistory
  <2>2. Known'
    BY <2>1 DEF Again, Known
  <2>3. AtRest'
    BY <2>1 DEF Again, AtRest, HelmMisplaced
  <2>4. AfterStore'
    BY <2>1 DEF Again, AfterStore
  <2> QED
    BY <2>1, <2>2, <2>3, <2>4 DEF Again, BeforeStore
<1>9. CASE RewriteDescriptorFile
  BY <1>9, SettledRewritten
<1>10. CASE CutSecrets
  <2>1. /\ call.pc = "create" /\ call'.pc = "idle" /\ secrets' = Torn
        /\ settled' = IF secrets = Absent THEN settled ELSE {}
        /\ UNCHANGED descriptor
    BY <1>10 DEF CutSecrets, Idle
  <2>2. HelmWhole(SecretsOf(secrets'))
    BY <2>1, NothingStored DEF HelmWhole
  <2>3. Known'
    BY <2>1, <2>2 DEF Again, Known
  <2>4. AtRest'
    <3>1. \A s \in settled' : secrets = Absent /\ Accepts(secrets, s, descriptor, descriptor.creds)
      BY <2>1 DEF Again, BeforeStore
    <3> QED
      BY <2>1, <3>1 DEF AtRest, Whole
  <2> QED
    BY <2>1, <2>3, <2>4 DEF Again, BeforeStore, AfterStore
<1>11. CASE CutDescriptor
  <2>1. /\ call'.pc = "idle" /\ settled' = {} /\ UNCHANGED secrets
    BY <1>11 DEF CutDescriptor, Idle
  <2>2. Known'
    BY <2>1 DEF Again, Known
  <2> QED
    BY <1>2, <2>1, <2>2 DEF Again, Known
<1>12. CASE \E d \in EditedFiles : UserEdit(d)
  <2>1. settled' = {} /\ UNCHANGED <<secrets, call>>
    BY <1>12 DEF UserEdit
  <2>2. Known'
    BY <2>1 DEF Again, Known
  <2> QED
    BY <1>2, <2>1, <2>2 DEF Again, Known
<1>13. CASE UserRemovesTorn
  <2>1. /\ call.pc = "idle" /\ secrets = Torn /\ secrets' = Absent
        /\ UNCHANGED <<descriptor, call, settled>>
    BY <1>13 DEF UserRemovesTorn, Idle
  <2>2. SecretsOf(secrets') = SecretsOf(secrets)
    BY <2>1 DEF SecretsOf
  <2>3. InSecrets(secrets') = InSecrets(secrets)
    BY <2>2 DEF InSecrets
  <2>4. Whole(secrets') = Whole(secrets)
    BY <2>1 DEF Whole
  <2>5. Known'
    <3>1. Torn # Absent
      BY DEF Torn, Absent
    <3> QED
      BY <2>1, <2>2, <3>1 DEF Again, Known
  <2>6. AtRest'
    BY <2>1, <2>3, <2>4 DEF Again, AtRest, HelmMisplaced
  <2> QED
    BY <2>1, <2>5, <2>6 DEF Again, BeforeStore, AfterStore
<1>14. CASE UNCHANGED vars
  BY <1>14 DEF vars, Again, Known, AtRest, BeforeStore, AfterStore, HelmMisplaced
<1> QED
  BY <1>3, <1>4, <1>5, <1>6, <1>7, <1>8, <1>9, <1>10, <1>11, <1>12, <1>13, <1>14 DEF Next


-----------------------------------------------------------------------------
Inductive == Shapes /\ Travel /\ Again

LEMMA InductiveInit == Init => Inductive
<1> SUFFICES ASSUME Init PROVE Inductive
  OBVIOUS
<1>1. call.pc = "idle"
  BY DEF Init, Idle
<1>2. DOMAIN SecretsOf(secrets) = {}
  BY NothingStored DEF Init
<1>3. WellFormed(descriptor)
  BY FilesWellFormed DEF Init
<1>4. Shapes
  BY <1>1, <1>2, <1>3 DEF Init, Shapes
<1>5. CredentialsKept
  <2>1. \A part \in Three : held[part] = {}
    BY NoParts DEF Init
  <2> QED
    BY <2>1, KeptParts
<1>6. Stored
  <2>1. stored = [i \in Infra |-> ""]
    BY DEF Init
  <2>2. \A i \in Infra : stored[i] = ""
    BY <2>1
  <2> QED
    BY <2>2 DEF Stored
<1>7. Again
  <2>1. secrets # Torn /\ settled = {}
    BY DEF Init, Absent, Torn
  <2> QED
    BY <1>1, <1>2, <2>1 DEF Again, Known, HelmWhole, AtRest, BeforeStore, AfterStore
<1> QED
  BY <1>1, <1>4, <1>5, <1>6, <1>7 DEF Inductive, Travel, Reads, Handed

LEMMA InductiveHolds == Spec => []Inductive
<1>1. Inductive /\ [Next]_vars => Inductive'
  BY ShapesStep, TravelStep, SettledStep DEF Inductive
<1> QED
  BY <1>1, InductiveInit, PTL DEF Spec

(* Whatever fails, and wherever a call is killed, the credentials of the   *)
(* provider, of the registries and of GitHub that a call was accepted with *)
(* are in the secrets file or in the descriptor until the user takes them  *)
(* out: EnsureSecretsFile has stored them before RewriteDescriptorFile     *)
(* removes them.  What a secrets file that exists held is excepted once a  *)
(* kill cuts the write of that file (encryptSecret writes it in place).    *)
THEOREM CredentialsSurvive == Spec => []CredentialsKept
<1>1. Inductive => CredentialsKept
  BY DEF Inductive, Travel
<1> QED
  BY <1>1, InductiveHolds, PTL

(* A call that was accepted is accepted again, after a failure or a kill   *)
(* of the program at any step and with a first secrets file that was cut   *)
(* removed by hand, as long as the user changes nothing and the cloud      *)
(* answers the same: what RewriteDescriptorFile takes from the descriptor  *)
(* is read from the secrets file, and the spec without it is accepted too. *)
(* There are two exceptions: the Helm credentials that EnsureSecretsFile   *)
(* writes to the key of the registry, and an EKS cluster with credentials  *)
(* of another region, over which the region of the spec may be stored.     *)
THEOREM RerunIsAccepted == Spec => []RerunAccepted
<1>1. ASSUME Inductive PROVE RerunAccepted
  <2>1. secrets # Torn => Whole(secrets) = secrets
    BY DEF Whole
  <2> QED
    BY <1>1, <2>1 DEF RerunAccepted, Inductive, Again, AtRest, Accepts
<1> QED
  BY <1>1, InductiveHolds, PTL

(* Every accepted call for a cloud works with the key that was stored for  *)
(* it first, whatever the descriptor says by then: validateCredentials     *)
(* reads the secrets file first, and EnsureSecretsFile never replaces a    *)
(* key that is there.                                                      *)
THEOREM StoredKeyWins == Spec => []StoredWins
<1>1. ASSUME Inductive PROVE StoredWins
  <2>1. ASSUME call.pc \in {"private", "create"}, stored[call.spec.infra] # ""
        PROVE  call.creds.provider.id = stored[call.spec.infra]
    <3>1. call.spec.infra \in Infra
      BY <1>1, <2>1 DEF Inductive, Shapes
    <3>2. /\ call.spec.infra \in DOMAIN SecretsOf(secrets)
          /\ SecretsOf(secrets)[call.spec.infra].id = stored[call.spec.infra]
      BY <1>1, <2>1, <3>1 DEF Inductive, Travel, Stored
    <3>3. call.creds.provider = SecretsOf(secrets)[call.spec.infra]
      BY <1>1, <2>1, <3>2 DEF Inductive, Travel, Reads
    <3> QED
      BY <3>2, <3>3
  <2> QED
    BY <2>1 DEF StoredWins
<1> QED
  BY <1>1, InductiveHolds, PTL
=============================================================================
