----------------------------- MODULE AgentConfig -----------------------------
(***************************************************************************)
(* What a process accepts as its configuration: the loaders of shared/     *)
(* (network, game parameters, resolution, strategy, language, belief,      *)
(* scent, deception, security, tunnel, reporting, league), the bundle of   *)
(* network/agent_wiring.py and the secret of network/secret_wiring.py.     *)
(* Read once, before anything runs; a refusal is an exception that ends    *)
(* the process.  Every loader is a predicate on the parsed file and, where *)
(* another module relies on the values, the record it returns.             *)
(*                                                                         *)
(* A JSON value is [is |-> kind, v |-> payload]; an object's payload is a  *)
(* function from keys to values.  A decimal is counted in units of 1/One.  *)
(***************************************************************************)
EXTENDS Integers, Sequences

CONSTANTS
  One,            \* units of a decimal in 1.0
  Providers,      \* names in the language-model provider registry
  Brains,         \* names in the brain registry
  Blank,          \* texts that are empty or only white space
  Placeholder,    \* texts that hold a placeholder token
  EnvName,        \* texts of the form of an environment variable's name
  MandatoryAddress,
  Step            \* the largest set of cells one step can reach

-----------------------------------------------------------------------------
(* Fields.  isinstance(True, int) holds in Python: an integer field takes a *)
(* boolean and reads it as 0 or 1; a decimal field takes an integer and no *)
(* boolean.                                                                *)

IsObject(j) == j.is = "object"
Has(d, k)   == IsObject(d) /\ k \in DOMAIN d.v
At(d, k)    == d.v[k]

Whole(j)   == j.is = "int" /\ j.v \in Int
Truth(j)   == j.is = "bool" /\ j.v \in BOOLEAN
Decimal(j) == j.is = "float" /\ j.v \in Int

IsInt(d, k)   == Has(d, k) /\ (Whole(At(d, k)) \/ Truth(At(d, k)))
IntAt(d, k)   == IF Whole(At(d, k)) THEN At(d, k).v ELSE IF At(d, k).v THEN 1 ELSE 0
IsFloat(d, k) == Has(d, k) /\ (Whole(At(d, k)) \/ Decimal(At(d, k)))
FloatAt(d, k) == IF Whole(At(d, k)) THEN At(d, k).v * One ELSE At(d, k).v
IsStr(d, k)   == Has(d, k) /\ At(d, k).is = "str"
StrAt(d, k)   == At(d, k).v
IsBool(d, k)  == Has(d, k) /\ Truth(At(d, k))
IsSeed(d, k)  == Has(d, k) /\ (At(d, k).is = "null" \/ Whole(At(d, k)))
IsGroup(d, k) == Has(d, k) /\ IsObject(At(d, k))

AtLeast(d, k, floor) == IsInt(d, k) /\ IntAt(d, k) >= floor
NonBlank(d, k) == IsStr(d, k) /\ StrAt(d, k) \notin Blank

-----------------------------------------------------------------------------
(* role.json, network.json, game_params.json, resolution.json.             *)

LoadsRole(d) == NonBlank(d, "role")

(* An empty environment variable is an unset one; a port must read as a    *)
(* number, which is then its value here.                                   *)
Overrides(env, name) == env[name].is = "int" \/ (env[name].is = "str" /\ env[name].v # "")

NetworkFields == {"port", "response_timeout", "watchdog_threshold", "retry_count",
                  "backoff_seconds", "watchdog_poll_seconds"}

LoadsNetwork(d, env) ==
  /\ IsStr(d, "host") /\ IsStr(d, "opponent_url")
  /\ \A k \in NetworkFields : IsInt(d, k)
  /\ Overrides(env, "PURSUIT_PORT") => env["PURSUIT_PORT"].is = "int"

NetworkParams(d, env) ==
  [host |-> IF Overrides(env, "PURSUIT_HOST") THEN env["PURSUIT_HOST"].v ELSE StrAt(d, "host"),
   opponent_url |-> IF Overrides(env, "PURSUIT_OPPONENT_URL")
                    THEN env["PURSUIT_OPPONENT_URL"].v ELSE StrAt(d, "opponent_url"),
   port |-> IF Overrides(env, "PURSUIT_PORT") THEN env["PURSUIT_PORT"].v ELSE IntAt(d, "port"),
   timing |-> [k \in NetworkFields \ {"port"} |-> IntAt(d, k)]]

(* What tuple() and an index accept; the cells and the scores themselves   *)
(* are not looked at.                                                      *)
Iterable(d, k)   == Has(d, k) /\ At(d, k).is \in {"list", "str", "object"}
Indexed(d, k, n) == Has(d, k) /\ At(d, k).is \in {"list", "str"} /\ Len(At(d, k).v) >= n

LoadsGameParams(d) ==
  /\ \A k \in {"board_size", "barrier_quota", "move_ceiling", "survival_threshold"} : IsInt(d, k)
  /\ Iterable(d, "cop_start") /\ Iterable(d, "thief_start") /\ Has(d, "version")
  /\ Has(d, "scoring")
  /\ \A k \in {"capture", "survival", "technical_loss"} : Indexed(At(d, "scoring"), k, 2)
  /\ Indexed(At(d, "scoring"), "tie", 1)

(* Absent file, absent key: nothing agreed.                                *)
RuleKeys == {"capture_on_barrier_race", "capture_on_swap"}
LoadsResolution(d) ==
  \/ d.is = "null"
  \/ d.is \in {"object", "list", "str"} /\ \A k \in RuleKeys : Has(d, k) => IsBool(d, k)
ResolutionRules(d) == [k \in RuleKeys |-> Has(d, k) /\ At(d, k).v]

-----------------------------------------------------------------------------
(* strategy.json, security.json, tunnel.json.                              *)

BrainKey(s) == IF Has(s, "police_class") THEN "police_class" ELSE "thief_class"

LoadsStrategy(d) ==
  LET s == At(d, "strategy") IN
  /\ Has(d, "strategy")
  /\ IsStr(s, BrainKey(s)) /\ IsStr(s, "weights_path")
  /\ IsFloat(s, "epsilon_eval") /\ FloatAt(s, "epsilon_eval") \in 0 .. One
  /\ IsInt(s, "max_decision_ms")
  /\ IsStr(s, "leaf_mode") /\ StrAt(s, "leaf_mode") \in {"stock", "adaptive", "cautious"}
  /\ AtLeast(s, "relax_turn", 0)

(* build_brain, on the loaded file: the class must be registered, and the  *)
(* belief layer wraps it when belief.json turns it on.                     *)
BuildsBrain(d) == StrAt(At(d, "strategy"), BrainKey(At(d, "strategy"))) \in Brains
Wraps(belief)  == At(At(belief, "belief"), "enabled").v

(* With no path the prior; otherwise the file must hold a full vector.     *)
LoadsWeights(d, file, count) ==
  \/ StrAt(At(d, "strategy"), "weights_path") = ""
  \/ Indexed(file, "weights", count) /\ Len(At(file, "weights").v) = count

LoadsSecurity(d) == IsStr(d, "version") /\ IsBool(d, "commit_reveal") /\ IsStr(d, "team_code")

LoadsTunnel(d) ==
  \A k \in {"version", "provider", "secret_header", "authtoken_env", "domain_env",
            "secret_env"} : IsStr(d, k)

(* The secret a peer guards itself with: none without the file, none when  *)
(* the variable the file names is not set.                                 *)
NoSecret == [header |-> "none", value |-> "none"]
SharedSecret(d, env) ==
  IF d.is = "null" \/ ~Overrides(env, StrAt(d, "secret_env")) THEN NoSecret
  ELSE [header |-> StrAt(d, "secret_header"), value |-> env[StrAt(d, "secret_env")].v]

-----------------------------------------------------------------------------
(* language.json and reporting.json: one gatekeeper group, two services.   *)

Minimum == [requests_per_minute |-> 30, parallel_requests |-> 2,
            wait_after_error_seconds |-> 5, retries_before_failure |-> 3,
            queue_depth |-> 100]
Negotiable == {"response_timeout_seconds", "watchdog_threshold_seconds"}

ReadsGatekeeper(g) ==
  /\ \A k \in DOMAIN Minimum : AtLeast(g, k, Minimum[k])
  /\ \A k \in Negotiable : IsInt(g, k)
GatekeeperParams(g) == [k \in DOMAIN Minimum \cup Negotiable |-> IntAt(g, k)]

BudgetFields == {"token_budget_per_series", "short_prompt_threshold_tokens",
                 "template_only_threshold_tokens"}
BudgetParams(b) == [k \in BudgetFields |-> IntAt(b, k)]
DegradeOrder(b) ==
  /\ 0 < b.short_prompt_threshold_tokens
  /\ b.short_prompt_threshold_tokens < b.template_only_threshold_tokens
  /\ b.template_only_threshold_tokens <= b.token_budget_per_series

LoadsModel(m) ==
  /\ IsStr(m, "provider") /\ StrAt(m, "provider") \in Providers
  /\ IsStr(m, "model_id") /\ StrAt(m, "model_id") # ""
  /\ IsStr(m, "game_arena")
  /\ \A k \in {"every_n_steps", "max_tokens", "timeout_seconds", "hint_word_limit"} :
       AtLeast(m, k, 1)

LoadsLanguage(d) ==
  /\ Has(d, "version") /\ Has(d, "gatekeeper") /\ Has(d, "budget") /\ IsGroup(d, "model")
  /\ LoadsModel(At(d, "model"))
  /\ ReadsGatekeeper(At(d, "gatekeeper"))
  /\ \A k \in BudgetFields : IsInt(At(d, "budget"), k)
  /\ DegradeOrder(BudgetParams(At(d, "budget")))

ReadsReporting(r) ==
  /\ IsStr(r, "mode") /\ StrAt(r, "mode") \in {"dry_run", "live"}
  /\ IsStr(r, "recipient") /\ StrAt(r, "recipient") = MandatoryAddress
  /\ NonBlank(r, "artifact_dir")
  /\ \A k \in {"credentials_env_var", "token_env_var"} : IsStr(r, k) /\ StrAt(r, k) \in EnvName

LoadsReporting(d) ==
  /\ IsObject(d) /\ IsStr(d, "version") /\ IsGroup(d, "gatekeeper") /\ IsGroup(d, "reporting")
  /\ ReadsGatekeeper(At(d, "gatekeeper")) /\ AtLeast(At(d, "gatekeeper"), "requests_per_hour", 1)
  /\ ReadsReporting(At(d, "reporting"))
Live(d) == StrAt(At(d, "reporting"), "mode") = "live"

(* league.json: a link may be a stated absence, in live mode it may not,   *)
(* nor may it look like a placeholder.                                     *)
RepoSlots    == {"own_cop", "own_thief", "opponent_cop", "opponent_thief"}
AddressSlots == {"own", "opponent"}

ValidSlot(j, live) ==
  \/ j.is = "null" /\ ~live
  \/ j.is = "str" /\ j.v \notin Blank /\ ~(live /\ j.v \in Placeholder)

ReadsSlots(d, name, slots, live) ==
  /\ IsGroup(d, name) /\ DOMAIN At(d, name).v = slots
  /\ \A s \in slots : ValidSlot(At(At(d, name), s), live)

LoadsLeague(d, live) ==
  /\ IsObject(d) /\ IsStr(d, "version") /\ IsGroup(d, "league")
  /\ ReadsSlots(At(d, "league"), "repo_urls", RepoSlots, live)
  /\ ReadsSlots(At(d, "league"), "mcp_server_addresses", AddressSlots, live)
  /\ Has(At(d, "league"), "token_ceiling") /\ Whole(At(At(d, "league"), "token_ceiling"))
  /\ At(At(d, "league"), "token_ceiling").v > 0
AbsentSlots(d) ==
  {s \in RepoSlots : At(At(At(d, "league"), "repo_urls"), s).is = "null"}
    \cup {s \in AddressSlots : At(At(At(d, "league"), "mcp_server_addresses"), s).is = "null"}

-----------------------------------------------------------------------------
(* belief.json, scent.json, deception.json.                                *)

Reliability(r) == [k \in {"prior", "r_min", "r_max", "contradiction_step", "recovery_rate"}
                     |-> FloatAt(r, k)]
ValidReliability(r) ==
  /\ 0 < r.r_min /\ r.r_min < r.r_max /\ r.r_max < One
  /\ r.r_min <= r.prior /\ r.prior <= r.r_max
  /\ r.contradiction_step \in 1 .. One /\ r.recovery_rate \in 1 .. One

ValidScentLikelihood(s) ==
  /\ FloatAt(s, "weight") > 0 /\ FloatAt(s, "epsilon") \in 0 .. One - 1
  /\ AtLeast(s, "age_cap", 1) /\ FloatAt(s, "freshness_decay") \in 1 .. One - 1

(* A hint never outweighs the scent (D-40).                                *)
ValidHintLikelihood(weight, scentWeight) ==
  0 < weight /\ weight < One /\ weight < scentWeight

ValidDisplayFloors(f) ==
  IsFloat(f, "min_entropy_bits") /\ FloatAt(f, "min_entropy_bits") > 0
    /\ AtLeast(f, "min_support_cells", Step + 1)

LoadsBelief(d) ==
  LET scent == At(d, "scent_likelihood")
      reliability == At(d, "reliability")
      hint == At(d, "hint_likelihood")
  IN
  /\ \A k \in {"version", "scent_likelihood", "reliability", "hint_likelihood", "belief",
               "display"} : Has(d, k)
  /\ \A k \in {"weight", "epsilon", "freshness_decay"} : IsFloat(scent, k)
  /\ ValidScentLikelihood(scent)
  /\ \A k \in DOMAIN Reliability(reliability) : IsFloat(reliability, k)
  /\ ValidReliability(Reliability(reliability))
  /\ IsFloat(hint, "weight")
  /\ ValidHintLikelihood(FloatAt(hint, "weight"), FloatAt(scent, "weight"))
  /\ IsBool(At(d, "belief"), "enabled") /\ IsSeed(At(d, "belief"), "seed")
  /\ ValidDisplayFloors(At(d, "display"))
MinSupportOf(d) == IntAt(At(d, "display"), "min_support_cells")

(* A square of odd side, between 0 and the source, the source at its        *)
(* centre, equal to each of its mirror images.                             *)
ValidKernel(rows, w, source) ==
  /\ Len(rows) = w
  /\ \A i \in 1 .. w : rows[i].is = "list" /\ Len(rows[i].v) = w
  /\ LET K == [i \in 1 .. w |-> [j \in 1 .. w |-> rows[i].v[j]]]
         V(i, j) == IF Whole(K[i][j]) THEN K[i][j].v * One ELSE K[i][j].v
     IN  /\ \A i, j \in 1 .. w : /\ Whole(K[i][j]) \/ Decimal(K[i][j])
                                 /\ V(i, j) \in 0 .. source
                                 /\ V(i, j) = V(w + 1 - i, j)
                                 /\ V(i, j) = V(i, w + 1 - j)
                                 /\ V(i, j) = V(j, i)
         /\ V((w + 1) \div 2, (w + 1) \div 2) = source

ValidWorkedExample(e, source, decay) ==
  /\ IsFloat(e, "initial") /\ IsFloat(e, "after_one_turn")
  /\ FloatAt(e, "initial") = source
  /\ FloatAt(e, "after_one_turn") * One = source * (One - decay)

LoadsScent(d) ==
  /\ IsStr(d, "version") /\ IsFloat(d, "source") /\ IsFloat(d, "decay")
  /\ IsInt(d, "window") /\ IntAt(d, "window") % 2 # 0
  /\ Has(d, "kernel") /\ At(d, "kernel").is = "list"
  /\ ValidKernel(At(d, "kernel").v, IntAt(d, "window"), FloatAt(d, "source"))
  /\ Has(d, "worked_example")
  /\ ValidWorkedExample(At(d, "worked_example"), FloatAt(d, "source"), FloatAt(d, "decay"))

LoadsDeception(d) ==
  LET t == At(d, "thief")  c == At(d, "cop") IN
  /\ Has(d, "version") /\ Has(d, "thief") /\ Has(d, "cop")
  /\ \A k \in {"truth_floor", "min_lie_probability", "danger_distance", "safe_distance"} :
       IsFloat(t, k)
  /\ FloatAt(t, "truth_floor") \in 1 .. One - 1
  /\ FloatAt(t, "min_lie_probability") \in 0 .. One - FloatAt(t, "truth_floor")
  /\ 0 <= FloatAt(t, "danger_distance") /\ FloatAt(t, "danger_distance") < FloatAt(t, "safe_distance")
  /\ AtLeast(t, "lie_candidate_pool", 1)
  /\ IsFloat(c, "min_herding_gain") /\ FloatAt(c, "min_herding_gain") >= 0
MaxLieProbability(d) == One - FloatAt(At(d, "thief"), "truth_floor")

-----------------------------------------------------------------------------
(* load_agent_config: every file of the directory, or an exception.        *)
LoadsAgent(files, env) ==
  /\ LoadsRole(files.role)
  /\ LoadsNetwork(files.network, env)
  /\ LoadsGameParams(files.game_params)
  /\ LoadsResolution(files.resolution)
  /\ LoadsStrategy(files.strategy)
  /\ LoadsLanguage(files.language)
  /\ LoadsBelief(files.belief)
  /\ LoadsScent(files.scent)
  /\ LoadsDeception(files.deception)
  /\ LoadsSecurity(files.security)
=============================================================================
