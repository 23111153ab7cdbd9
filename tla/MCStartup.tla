------------------------------ MODULE MCStartup ------------------------------
(* Startup at the proportions of Table 19: two attempts outlast the        *)
(* watchdog's threshold, one attempt and a pause do not.                   *)
EXTENDS Startup, TLC

MCDigest == {"agreed", "foreign"}
MCSecret == {"none", "league"}

(* Our build, open and behind a secret; with other parameters; with        *)
(* another scent model; an older build that knows only the configuration   *)
(* digest; and two of another team: one that publishes the digest of its   *)
(* declaration and an id no file can have, one that hashes its declaration *)
(* differently.                                                            *)
Ours == OwnBuild("agreed", "agreed", "none")
MCTheirs ==
  {Ours, [Ours EXCEPT !.secret = "league"], [Ours EXCEPT !.params = "foreign"],
   [Ours EXCEPT !.scent = "foreign"],
   [Ours EXCEPT !.scent = "absent", !.step0 = "absent", !.id = "absent"],
   [Ours EXCEPT !.step0 = "digest_only", !.id = "unsafe"],
   [Ours EXCEPT !.step0 = "other_hash"]}
MCPairings == {b \in [Peer -> MCTheirs] : \E p \in Peer : b[p] = Ours}

(* Nobody listens, nobody answers, or a tunnel without an agent answers;   *)
(* the last two on one side at a time.                                     *)
Refuses == Wrapped("transport")
MCNetworks ==
  {e \in [Peer -> {Refuses, Mute, Bare("404")}] : \E p \in Peer : e[p] = Refuses}

-----------------------------------------------------------------------------
(* The configuration the repository ships (config/police) is accepted, and  *)
(* one with any of the faults below is not.  Decimals in hundredths.        *)
MCOne == 100
Config == INSTANCE AgentConfig WITH
  One <- MCOne, Providers <- {"claude_api", "ollama", "template"},
  Brains <- {"value_search", "naive"}, Blank <- {"", " "}, Placeholder <- {"TODO"},
  EnvName <- {"CREDENTIALS", "TOKEN"}, MandatoryAddress <- "lecturer", Step <- 5

Json(kind, payload) == [is |-> kind, v |-> payload]
I(n) == Json("int", n)
F(n) == Json("float", n)
S(t) == Json("str", t)
B(b) == Json("bool", b)
L(l) == Json("list", l)
O(f) == Json("object", f)
Null == [is |-> "null", v |-> "null"]

Gate == [requests_per_minute |-> I(30), parallel_requests |-> I(2),
         wait_after_error_seconds |-> I(5), retries_before_failure |-> I(3),
         queue_depth |-> I(100), response_timeout_seconds |-> I(30),
         watchdog_threshold_seconds |-> I(60)]
Kernel == [i \in 1 .. 3 |-> L([j \in 1 .. 3 |->
             F(IF i = 2 /\ j = 2 THEN 90 ELSE IF i = 2 \/ j = 2 THEN 62 ELSE 42)])]
Files ==
  [role |-> O([role |-> S("cop")]),
   network |-> O([host |-> S("local"), opponent_url |-> S("peer"), port |-> I(8001),
                  response_timeout |-> I(30), watchdog_threshold |-> I(60),
                  watchdog_poll_seconds |-> I(1), retry_count |-> I(3),
                  backoff_seconds |-> I(5)]),
   game_params |-> O([version |-> S("1"), board_size |-> I(7), barrier_quota |-> I(14),
                      move_ceiling |-> I(35), survival_threshold |-> I(35),
                      cop_start |-> L(<<I(0), I(0)>>), thief_start |-> L(<<I(3), I(3)>>),
                      scoring |-> O([capture |-> L(<<I(20), I(5)>>),
                                     survival |-> L(<<I(5), I(10)>>), tie |-> L(<<I(2), I(2)>>),
                                     technical_loss |-> L(<<I(0), I(0)>>)])]),
   resolution |-> O([capture_on_barrier_race |-> B(TRUE), capture_on_swap |-> B(FALSE)]),
   strategy |-> O([strategy |-> O([police_class |-> S("value_search"), weights_path |-> S(""),
                                   epsilon_eval |-> F(0), max_decision_ms |-> I(50),
                                   leaf_mode |-> S("stock"), relax_turn |-> I(10)])]),
   language |-> O([version |-> S("1"), gatekeeper |-> O(Gate),
                   budget |-> O([token_budget_per_series |-> I(200000),
                                 short_prompt_threshold_tokens |-> I(140000),
                                 template_only_threshold_tokens |-> I(180000)]),
                   model |-> O([provider |-> S("claude_api"), model_id |-> S("haiku"),
                                max_tokens |-> I(300), timeout_seconds |-> I(30),
                                every_n_steps |-> I(1), game_arena |-> S("New York"),
                                hint_word_limit |-> I(15)])]),
   belief |-> O([version |-> S("1"),
                 scent_likelihood |-> O([weight |-> F(400), epsilon |-> F(5), age_cap |-> I(5),
                                         freshness_decay |-> F(75)]),
                 reliability |-> O([prior |-> F(50), r_min |-> F(5), r_max |-> F(95),
                                    contradiction_step |-> F(30), recovery_rate |-> F(5)]),
                 hint_likelihood |-> O([weight |-> F(30)]),
                 display |-> O([min_entropy_bits |-> F(100), min_support_cells |-> I(6)]),
                 belief |-> O([enabled |-> B(TRUE), seed |-> I(20260809)])]),
   scent |-> O([version |-> S("1"), source |-> F(90), decay |-> F(10), window |-> I(3),
                kernel |-> L(Kernel),
                worked_example |-> O([initial |-> F(90), after_one_turn |-> F(81)])]),
   deception |-> O([version |-> S("1"),
                    thief |-> O([truth_floor |-> F(20), min_lie_probability |-> F(10),
                                 danger_distance |-> F(200), safe_distance |-> F(800),
                                 lie_candidate_pool |-> I(3)]),
                    cop |-> O([min_herding_gain |-> F(1)])]),
   security |-> O([version |-> S("1"), commit_reveal |-> B(TRUE), team_code |-> S("khm-mn17")])]
Unset == [n \in {"PURSUIT_HOST", "PURSUIT_PORT", "PURSUIT_OPPONENT_URL"} |-> Null]

Faulty ==
  {[Files EXCEPT !.network.v.retry_count = S("3")],
   [Files EXCEPT !.game_params.v.scoring.v.tie = L(<< >>)],
   [Files EXCEPT !.resolution.v.capture_on_swap = I(0)],
   [Files EXCEPT !.strategy.v.strategy.v.leaf_mode = S("bold")],
   [Files EXCEPT !.language.v.gatekeeper.v.parallel_requests = B(TRUE)],
   [Files EXCEPT !.language.v.budget.v.template_only_threshold_tokens = I(200001)],
   [Files EXCEPT !.belief.v.hint_likelihood.v.weight = F(100)],
   [Files EXCEPT !.belief.v.display.v.min_support_cells = I(5)],
   [Files EXCEPT !.scent.v.kernel.v[1].v[1] = F(41)],
   [Files EXCEPT !.scent.v.window = I(2)],
   [Files EXCEPT !.deception.v.thief.v.min_lie_probability = F(81)],
   [Files EXCEPT !.security.v.commit_reveal = S("yes")]}

ASSUME Config!LoadsAgent(Files, Unset)
ASSUME Config!BuildsBrain(Files.strategy) /\ Config!Wraps(Files.belief)
ASSUME Config!NetworkParams(Files.network, [Unset EXCEPT !["PURSUIT_PORT"] = I(9)]).port = 9
ASSUME \A f \in Faulty : ~Config!LoadsAgent(f, Unset)
ASSUME
  LET report(mode) ==
        O([version |-> S("1"), gatekeeper |-> O(Gate @@ [requests_per_hour |-> I(500)]),
           reporting |-> O([mode |-> S(mode), recipient |-> S("lecturer"),
                            artifact_dir |-> S("game_artifacts"),
                            credentials_env_var |-> S("CREDENTIALS"),
                            token_env_var |-> S("TOKEN")])])
      league(url) ==
        O([version |-> S("1"),
           league |-> O([repo_urls |-> O([s \in Config!RepoSlots |-> url]),
                         mcp_server_addresses |-> O([s \in Config!AddressSlots |-> S("peer")]),
                         token_ceiling |-> I(200000)])])
  IN  /\ Config!LoadsReporting(report("live")) /\ ~Config!LoadsReporting(report("test"))
      /\ \A live \in BOOLEAN : Config!LoadsLeague(league(S("github")), live)
      /\ \A url \in {Null, S("TODO")} :
           /\ Config!LoadsLeague(league(url), FALSE)
           /\ ~Config!LoadsLeague(league(url), TRUE)
=============================================================================
