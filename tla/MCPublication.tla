---------------------------- MODULE MCPublication ----------------------------
(***************************************************************************)
(* A small instance of Publication: eight ways to ask for a stage, two of  *)
(* which are refused; payloads with and without conflicting controls;      *)
(* answers that end well, badly or not at all; and an archive with a run   *)
(* of every kind the leaderboard treats differently.                       *)
(***************************************************************************)
EXTENDS Publication

Offers(c, d, s) == [configured |-> c, declared |-> d, supported |-> s]
Runs(r, p, q, m, s) ==
  [runtime |-> r, profile |-> p, requested |-> q, model |-> m, spark |-> s]
Qwen == Offers("native", TRUE, {"off", "native"})

MCConfigurations ==
  {Runs("vllm", "qwen", q, Qwen, FALSE) : q \in {"configured", "off", "native"}}
    \cup {Runs("vllm", "qwen", "configured", Qwen, TRUE),
          Runs("vllm", "none", "off", Qwen, FALSE),
          Runs("ollama", "none", "configured", Offers("low", TRUE, {"off", "low"}), FALSE),
          Runs("ollama", "none", "low", Offers("absent", FALSE, {}), FALSE),
          Runs("ds4", "none", "native", Offers("absent", FALSE, {}), FALSE)}

Sends(controls, other, opaque, stream) ==
  [object |-> TRUE, controls |-> controls, other |-> other, opaque |-> opaque, stream |-> stream]

MCPayloads == {
  Sends({}, {}, {}, TRUE),
  Sends({Control("chat_template_kwargs", "enable_thinking", "True")}, {}, {}, TRUE),
  Sends({Control("top", "reasoning_effort", "none"), Control("options", "think", "False")},
       {"options"}, {}, TRUE),
  Sends({Control("top", "think", "True"),
        Control("chat_template_kwargs", "enable_thinking", "False")}, {}, {}, TRUE),
  Sends({Control("top", "reasoning", "on")}, {}, {"chat_template_kwargs"}, FALSE),
  [Sends({}, {}, {}, FALSE) EXCEPT !.object = FALSE]}

Says(m) == [kind |-> "object", members |-> m, folded |-> FALSE]
Folds(m) == [kind |-> "object", members |-> m, folded |-> TRUE]
Other(k) == [kind |-> k, members |-> <<>>, folded |-> FALSE]
Replies(s, c, e) == [status |-> s, crlf |-> c, cut |-> FALSE, events |-> e]

MCAnswers == <<{
  Replies("ok", FALSE, <<Says(<<"say", "u1", "u2">>), Other("comment"), Folds(<<"stop">>),
                         Other("done")>>),
  Replies("ok", TRUE, <<Says(<<"think", "<th">>), Says(<<"ink>", "call">>), Says(<<"end">>)>>),
  [Replies("ok", FALSE, <<Says(<<"say", "stop">>)>>) EXCEPT !.cut = TRUE],
  Replies("ok", FALSE, <<Says(<<"u1", "say">>), Says(<<"stop">>)>>),
  Replies("ok", FALSE, <<Other("done"), Other("noise")>>),
  Replies("ok", FALSE, <<Says(<<"<th">>), Says(<<"ink>", "say", "say", "say", "say">>)>>),
  Replies("ok", TRUE, <<Says(<<"say", "say", "stop">>)>>),
  Replies("ok", FALSE, <<Other("list")>>),
  Replies("error", FALSE, <<Says(<<"say", "say", "say", "say", "stop">>)>>)},
  {Replies("ok", FALSE, <<Says(<<"say", "stop">>), Other("done")>>)}>>

Full == {<<"name", "m">>, <<"source", "s">>, <<"version", "1">>, <<"variant", "7b">>,
               <<"architecture", "a">>, <<"quantization", "q4">>}
MCRegistry == [d \in {"d1", "d2"} |-> IF d = "d1" THEN Full ELSE {<<"name", "m">>}]
MCCurrent == [generation |-> "v5", setup |-> "current", profile |-> "standard",
              track |-> "primary-deployment", rule |-> "configured-per-model"]

MCLiveResult ==
  [run |-> 20, stamp |-> 20, generation |-> "v5", setup |-> "current", profile |-> "standard",
   outcome |-> "none", validity |-> "absent", decision |-> "absent", status |-> "RUNNING",
   quarantined |-> FALSE, score |-> 70, components |-> <<50, 60>>,
   requested |-> "absent", selection |-> "absent", track |-> "absent", source |-> "absent",
   policy |-> "absent", effective |-> "absent", configured |-> "absent", thinking |-> "absent",
   model |-> [digest |-> "d1", context |-> TRUE, observed |-> {<<"quantization", "q4">>}]]

Good == [MCLiveResult EXCEPT !.outcome = "QUALIFIED", !.validity = "VALID",
  !.decision = "MEETS_PROFILE", !.status = "COMPLETE", !.requested = "configured",
  !.selection = "configured", !.track = "primary-deployment", !.source = "models.yaml",
  !.policy = "native", !.effective = "native", !.configured = "native",
  !.run = 1, !.stamp = 1]
Is(r) == [kind |-> "result", result |-> r]
Holding(k) == [kind |-> k, result |-> MCLiveResult]

MCArchive == <<
  Is(Good),
  Is(Good),                                              \* a copy of the directory
  Is([Good EXCEPT !.run = 2, !.score = 80]),
  Is([Good EXCEPT !.run = 3, !.components = <<Missing, 60>>]),
  Is([Good EXCEPT !.run = 4, !.outcome = "NOT_QUALIFIED", !.decision = "DOES_NOT_MEET_PROFILE"]),
  Is([Good EXCEPT !.run = 5, !.requested = "native", !.selection = "explicit", !.score = 90,
                  !.track = "controlled-policy", !.source = "explicit CLI"]),
  Is([Good EXCEPT !.run = 6, !.configured = "off"]),
  Is([Good EXCEPT !.run = 7, !.profile = "smoke"]),
  Is([Good EXCEPT !.run = 8, !.generation = "v2", !.validity = "absent"]),
  Is([Good EXCEPT !.run = 9, !.generation = "v3", !.thinking = "off"]),
  Is([Good EXCEPT !.run = 10, !.outcome = "INFRA_ERROR", !.validity = "QUARANTINED"]),
  Is([Good EXCEPT !.run = 11, !.model.observed = {<<"architecture", "b">>}]),
  Is([Good EXCEPT !.run = 12, !.model.digest = "d2"]),
  Is([Good EXCEPT !.run = 13, !.status = "RUNNING"]),
  Is([Good EXCEPT !.run = 14, !.setup = "other"]),
  Holding("broken"), Holding("started"), Holding("empty")>>

MCOutputs == <<"comparison.json", "leaderboard.json">>
MCAnnounced == {"none", "started", "QUALIFIED", "NOT_QUALIFIED", "INFRA_ERROR"}
=============================================================================
