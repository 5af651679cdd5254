----------------------------- MODULE MCOpsMain -----------------------------
(***************************************************************************)
(* OpsMain with four layers, the fourth being `logs`; two rounds that swap *)
(* the order of the incidents and shrink their number; and sessions that   *)
(* each exercise one part of the keyboard with one part of the answers.    *)
(***************************************************************************)
EXTENDS OpsMain

MCStem == [hp1 |-> "hp", dpu1 |-> "dpu", host1 |-> "host", tool |-> "plain", drift |-> "plain"]
MCLayerNames == {"cluster", "dpu", "workflows", "logs"}
MCBaseline == [cluster |-> "Ok", dpu |-> "Fail"]

Check(status, value, next) == [name |-> <<"drift">>, status |-> status, value |-> value, next |-> next]
Layer(name, status, checks) == [name |-> name, status |-> status, checks |-> checks]

OkCheck == Check("Ok", << >>, << >>)

Round1 == << Layer("cluster", "Ok", << OkCheck >>),
             Layer("dpu", "Warn", << Check("Warn", <<"dpu1">>, << >>) >>),
             Layer("workflows", "Fail", << Check("Fail", <<"hp1">>, <<"tool", " ", "hp1">>),
                                           Check("Warn", <<"tool">>, << >>) >>),
             Layer("logs", "Warn", << Check("Warn", <<"tool">>, << >>) >>) >>

Round2 == << Layer("cluster", "Fail", << Check("Fail", <<"hp1">>, << >>) >>),
             Layer("dpu", "Fail", << Check("Fail", <<"tool">>, <<"tool", " ", "host1", " ", "dpu1">>) >>),
             Layer("workflows", "Ok", << OkCheck >>),
             Layer("logs", "Skipped", << OkCheck >>) >>

Lines == << <<"hp1", " ", "[", "dpu1", "]">>, <<"tool", "/", "hp1">>, <<"host1">> >>

Key(k)   == [kind |-> "key", what |-> k]
Keys(ks) == {Key(k) : k \in ks}
Wheel    == {[kind |-> "mouse", what |-> w] : w \in {"wheel-up", "wheel-down"}}
Presses  == [kind : {"press"}, cell : {<<0, 0>>, <<0, 1>>, <<1, 0>>}]
Resize   == [kind |-> "resize"]

Grid1 == [events |-> Keys({"left", "right", "up", "down", "enter", "question", "esc", "release", "other"})
                     \cup Presses \cup {Resize, [kind |-> "paste"]},
          rounds |-> {Round1, Round2}, lines |-> {}, updates |-> {}, ticks |-> {}]

Spot  == [events |-> Keys({"s", "up", "down", "enter", "esc", "q", "ctrl-c"}),
          rounds |-> {Round1, Round2}, lines |-> {},
          updates |-> {[kind |-> "Landed", source |-> "loki", any |-> TRUE], [kind |-> "Done"]},
          ticks |-> {}]

Scroll == [events |-> Keys({"up", "down", "left", "right", "enter", "esc", "l"}) \cup Wheel
                      \cup {[kind |-> "mouse", what |-> "move"]},
           rounds |-> {Round1}, lines |-> {Lines}, updates |-> {}, ticks |-> {}]

Logs  == [events |-> Keys({"l", "c", "enter", "down", "up", "right", "left", "esc"}),
          rounds |-> {Round1}, lines |-> {Lines}, ticks |-> {},
          updates |-> {[kind |-> "Loading", names |-> <<"loki">>],
                       [kind |-> "Failed", source |-> "k8s"], [kind |-> "Diagnosis", found |-> TRUE]}]

Clock == [events |-> Keys({"s", "y", "o", "m", "M", "r", "space"}),
          rounds |-> {Round1, Round2}, lines |-> {}, updates |-> {}, ticks |-> BOOLEAN]

(* A round whose layers have all panicked is empty. *)
Again == [events |-> Keys({"s", "down", "r"}), rounds |-> {Round1, Round2, << >>}, lines |-> {},
          updates |-> {}, ticks |-> {}]

MCSessions == {Grid1, Spot, Scroll, Logs, Clock, Again}

Row(machine, status, age) ==
  [machine |-> machine, status |-> status, age |-> age, mh |-> status = "Drift", inst |-> FALSE,
   quarantine |-> IF status = "Quarantined" THEN "blocked" ELSE "none"]

MCHbnAnswers == { << Row(1, "Healthy", 0), Row(2, "Drift", 59), Row(3, "Drift", 60) >>,
                  << Row(2, "Quarantined", 0), Row(1, "Unhealthy", 3600) >>, << >> }
=============================================================================
