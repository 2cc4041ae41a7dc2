----------------------------- MODULE PluginConfig ------------------------------
(***************************************************************************)
(* What a plugin is configured with, from the manifest and the request to  *)
(* its environment: the manifest's rules (internal/plugins/manifest), the  *)
(* request's (manager/manager.go, parseRequest), the record kept as JSON,  *)
(* and the environment and limits an instance is started with              *)
(* (manager.go, ensureInstance; controller/server.go, Start).              *)
(*                                                                         *)
(* A value is a pair of its Go type and its content; numbers are counted   *)
(* in halves, so that an odd one is a fraction.  The rules about the       *)
(* wording of names, paths and versions, which accept or refuse a manifest *)
(* as a whole, are left out, and so are the variables that the platform    *)
(* adds to every instance of a type (PORT, VECTOR_DIM, the runner's).      *)
(***************************************************************************)
EXTENDS FiniteSets, Integers

CONSTANTS
  Names,         \* names of configuration properties
  EnvName,       \* the variable each becomes: CONFIG_ and upper case
  SecretNames,   \* names of secrets
  Schemas,       \* the properties of each manifest considered, by name
  Requests,      \* the values of each request considered, by name
  Durations,     \* the texts that are positive durations
  Exponential,   \* the least number a float64 is printed of with an exponent
  MaxUpgrades

CONSTANTS
  Asks,                          \* memory asked for: a count and a unit, or Absent
  HalfWord,                      \* integers wrap around at this
  MaxCount,                      \* of ParseBytes
  MinMemory, MaxMemory, Ceiling  \* of the manifest, and of the operator

Absent == <<"absent">>
Text(s) == <<"string", s>>
Number(v) == v[1] \in {"int64", "float64"}

ASSUME ConfigAssumption ==
  /\ EnvName \in [Names -> STRING]
  /\ SecretNames \subseteq STRING
  /\ MaxUpgrades \in Nat
  /\ Absent \in Asks
  /\ MinMemory \in Nat /\ MaxMemory \in Nat /\ Ceiling \in Nat
  /\ MinMemory <= Ceiling
  /\ Exponential \in Int
  /\ \A values \in Requests : \A n \in DOMAIN values :
       Number(values[n]) => values[n][2] \in Int
  /\ \A s \in Schemas : \A n \in DOMAIN s :
       Number(s[n].default) => s[n].default[2] \in Int

VARIABLES
  stage,      \* "new", then "recorded", then "started"
  schema,     \* the properties the recorded manifest declares
  declared,   \* the secrets it declares
  config,     \* the recorded configuration
  secrets,    \* the names of the recorded secrets
  memory,     \* the memory the manifest asks for
  env,        \* the environment of the instance
  limit,      \* the memory limit of the instance
  upgrades

configVars == <<stage, schema, declared, config, secrets, memory, env, limit, upgrades>>

-------------------------------------------------------------------------------
(* Properties and values                                                   *)

InRange(prop, n) ==
  /\ prop.min # Absent => n >= prop.min[2]
  /\ prop.max # Absent => n <= prop.max[2]

(* CoerceValue: whether a value fits a property, and its canonical form.   *)
Fits(prop, v) ==
  \/ prop.type = "string" /\ v[1] = "string"
  \/ prop.type = "enum" /\ v[1] = "string" /\ v[2] \in prop.enum
  \/ prop.type = "duration" /\ v[1] = "string" /\ v[2] \in Durations
  \/ prop.type = "boolean" /\ v[1] = "bool"
  \/ prop.type = "integer" /\ Number(v) /\ v[2] % 2 = 0 /\ InRange(prop, v[2])
  \/ prop.type = "number" /\ Number(v) /\ InRange(prop, v[2])

Canonical(prop, v) ==
  CASE prop.type = "integer" -> <<"int64", v[2]>>
    [] prop.type = "number"  -> <<"float64", v[2]>>
    [] OTHER                 -> v

CheckPropertyButDefault(prop) ==
  /\ (prop.type = "enum") = (prop.enum # {})
  /\ prop.default # Absent => ~prop.required

CheckProperty(prop) ==
  /\ CheckPropertyButDefault(prop)
  /\ prop.default # Absent => Fits(prop, prop.default)

(* ResolveConfig: an empty text counts as not given.                       *)
Given(values, n) == n \in DOMAIN values /\ values[n] \notin {Absent, Text("")}

Resolvable(s, values) ==
  /\ DOMAIN values \subseteq DOMAIN s
  /\ \A n \in DOMAIN s :
       IF Given(values, n) THEN Fits(s[n], values[n])
                           ELSE s[n].default # Absent \/ ~s[n].required

Resolved(s, values) ==
  [n \in {k \in DOMAIN s : Given(values, k) \/ s[k].default # Absent} |->
     Canonical(s[n], IF Given(values, n) THEN values[n] ELSE s[n].default)]

(* A record is kept as JSON, which has one kind of number.                 *)
FromJSON(values) ==
  [n \in DOMAIN values |->
     IF Number(values[n]) THEN <<"float64", values[n][2]>> ELSE values[n]]

(* CheckSecrets: each is declared, and each required one is there.         *)
SecretsFit(decl, names) ==
  /\ names \subseteq DOMAIN decl
  /\ \A n \in DOMAIN decl : decl[n] => n \in names

-------------------------------------------------------------------------------
(* Quantities                                                              *)

Wrapped(n) == ((n + HalfWord) % (2 * HalfWord)) - HalfWord

(* ParseBytes refuses a count over MaxCount and then multiplies.           *)
ParseBytes(ask) == Wrapped(ask[1] * ask[2])
Parses(ask) == ask[1] \in 1 .. MaxCount

(* validate's rule for spec.resources.memory.                              *)
MemoryValid(ask) ==
  ask # Absent => Parses(ask) /\ ParseBytes(ask) \in MinMemory .. MaxMemory

(* Effective: the manifest's limit or the operator's default.              *)
Effective(ask) == IF ask = Absent THEN Ceiling ELSE ParseBytes(ask)

-------------------------------------------------------------------------------
Declarations == UNION {[ns -> BOOLEAN] : ns \in SUBSET SecretNames}

NoEntries == [n \in {} |-> Absent]

ConfigTypeOK ==
  /\ stage \in {"new", "recorded", "started"}
  /\ schema \in Schemas \cup {NoEntries}
  /\ declared \in Declarations
  /\ DOMAIN config \subseteq DOMAIN schema
  /\ secrets \subseteq SecretNames
  /\ memory \in Asks
  /\ limit \in Int
  /\ upgrades \in Nat

ConfigInit ==
  /\ stage = "new"
  /\ schema = NoEntries
  /\ declared = NoEntries
  /\ config = NoEntries
  /\ secrets = {}
  /\ memory = Absent
  /\ env = NoEntries
  /\ limit = Ceiling
  /\ upgrades = 0

(* What parseRequest and the pipeline check before a record can be         *)
(* started: the manifest, the values and the secrets.                      *)
Admissible(s, decl, values, names, ask) ==
  /\ \A n \in DOMAIN s : CheckProperty(s[n])
  /\ MemoryValid(ask)
  /\ Resolvable(s, values)
  /\ SecretsFit(decl, names)

RecordConfig(s, decl, values, names, ask) ==
  /\ Admissible(s, decl, values, names, ask)
  /\ stage' = "recorded"
  /\ schema' = s
  /\ declared' = decl
  /\ config' = FromJSON(Resolved(s, values))
  /\ secrets' = names
  /\ memory' = ask
  /\ env' = NoEntries
  /\ limit' = Ceiling

(* A request's numbers come from JSON and are floats.                      *)
InstallConfig(s, decl, values, names, ask) ==
  /\ stage = "new"
  /\ RecordConfig(s, decl, FromJSON(values), names, ask)
  /\ UNCHANGED upgrades

(* An upgrade without a configuration keeps the recorded one, and secrets  *)
(* that are not entered anew are carried over.                             *)
UpgradeConfig(s, decl, names) ==
  /\ stage # "new"
  /\ upgrades < MaxUpgrades
  /\ upgrades' = upgrades + 1
  /\ RecordConfig(s, decl, config, secrets \cup names, memory)

-------------------------------------------------------------------------------
(* The environment of an instance                                          *)

(* fmt.Sprint of a value.                                                  *)
Sprint(v) ==
  IF v[1] = "float64" /\ v[2] >= Exponential THEN <<"exponent", v[2]>> ELSE <<"plain", v[2]>>

(* configEnv visits the properties in any order, so that of those with the *)
(* same variable any may be the last.  Secrets come after it, and the      *)
(* controller's own token after them.                                      *)
Environment(last) ==
  [k \in {EnvName[n] : n \in DOMAIN config} \cup secrets \cup {"PLUGIN_AUTH_TOKEN"} |->
     CASE k = "PLUGIN_AUTH_TOKEN" -> <<"platform">>
       [] k \in secrets           -> <<"secret", k>>
       [] OTHER                   -> Sprint(config[last[k]])]

StartInstance(last) ==
  /\ stage = "recorded"
  /\ \A k \in DOMAIN last : last[k] \in DOMAIN config /\ EnvName[last[k]] = k
  /\ DOMAIN last = {EnvName[n] : n \in DOMAIN config}
  /\ Effective(memory) <= Ceiling
  /\ stage' = "started"
  /\ env' = Environment(last)
  /\ limit' = Effective(memory)
  /\ UNCHANGED <<schema, declared, config, secrets, memory, upgrades>>

Orders == UNION {[ks -> Names] : ks \in SUBSET {EnvName[n] : n \in Names}}

ConfigNext ==
  \/ \E s \in Schemas, decl \in Declarations, values \in Requests,
        names \in SUBSET SecretNames, ask \in Asks :
          InstallConfig(s, decl, values, names, ask)
  \/ \E s \in Schemas, decl \in Declarations, names \in SUBSET SecretNames :
          UpgradeConfig(s, decl, names)
  \/ \E last \in Orders : StartInstance(last)

ConfigSpec == ConfigInit /\ [][ConfigNext]_configVars

-------------------------------------------------------------------------------
Own(n) ==
  /\ EnvName[n] \notin secrets \cup {"PLUGIN_AUTH_TOKEN"}
  /\ \A k \in DOMAIN config : EnvName[k] = EnvName[n] => k = n

Small(n) == Number(config[n]) => config[n][2] < Exponential

(* A recorded configuration fits its own manifest and resolves to itself,  *)
(* although it went through JSON: the pipeline of an image and an upgrade  *)
(* that keeps it resolve it again (install.go:203, lifecycle.go:37).  An   *)
(* instance gets each value as plain text, except a number printed with an *)
(* exponent and a variable that is not the property's own, and a memory    *)
(* limit between the least and the operator's ceiling, although the size   *)
(* in the manifest wraps around (manager.go:374, manifest.go:793).         *)
ConfigKept ==
  /\ stage # "new" =>
       Resolvable(schema, config) /\ FromJSON(Resolved(schema, config)) = config
  /\ stage = "started" =>
       /\ \A n \in DOMAIN config :
            Own(n) /\ Small(n) => env[EnvName[n]] = <<"plain", config[n][2]>>
       /\ limit \in MinMemory .. Ceiling

(* At run time a container receives each value as CONFIG_<NAME>            *)
(* (docs/PLUGIN_MANIFEST.md:114).                                          *)
DeliveredAsConfigured ==
  stage = "started" =>
    \A n \in DOMAIN config : env[EnvName[n]] = <<"plain", config[n][2]>>
===============================================================================
