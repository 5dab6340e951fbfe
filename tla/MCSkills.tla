------------------------------ MODULE MCSkills ------------------------------
(* Skills of two drivers and one worker: two drivers that vote together    *)
(* and may both ask the worker; a forced verb with a loop to detect; one   *)
(* whose closing step has two serial actions; and a file that is refused.  *)
EXTENDS Skills

vote(a) == [agent |-> a, shape |-> "vote"]
say(a) == [agent |-> a, shape |-> "text"]
step(w, p, a) == [when |-> w, parallel |-> p, actions |-> a]

Debate ==
  [roundSteps |-> << step("", TRUE, <<vote("lead"), vote("peer")>>) >>,
   onConverge |-> << step("round>1", TRUE, <<say("peer")>>) >>,
   maxRounds |-> 2, maxToolIters |-> 2, submitReserve |-> 1, maxParallel |-> 1,
   toolMode |-> "auto", dynamicDispatch |-> TRUE, converge |-> "all_agree",
   stopSlot |-> "", loopDetect |-> ""]
Forced ==
  [Debate EXCEPT !.roundSteps = << step("round>1", FALSE, <<say("peer")>>),
                                   step("round==1", FALSE, <<vote("peer"), say("lead")>>) >>,
                 !.onConverge = <<>>, !.dynamicDispatch = FALSE, !.toolMode = "verb",
                 !.maxRounds = 3, !.converge = "none",
                 !.stopSlot = "lead", !.loopDetect = "peer"]
Closing ==
  [Debate EXCEPT !.roundSteps = << step("", FALSE, <<vote("peer"), say("peer")>>) >>,
                 !.onConverge = << step("", FALSE, <<say("lead"), say("peer")>>) >>,
                 !.maxRounds = 1]
Typo == [Debate EXCEPT !.submitReserve = 2]

MCConfigs == {Debate, Forced, Closing, Typo}

calls(c, r) == [calls |-> c, text |-> FALSE, report |-> r]
prose(t) == [calls |-> <<>>, text |-> t, report |-> "empty"]
MCReplies ==
  [lead   |-> {calls(<<"verb">>, "yes"), calls(<<"worker", "peer", "worker">>, "empty"),
               prose(TRUE)},
   peer   |-> {calls(<<"worker", "files">>, "yes"), calls(<<"verb">>, "no"), prose(FALSE)},
   worker |-> {calls(<<"side", "lead">>, "empty"), calls(<<"verb">>, "empty"),
               prose(FALSE)}]
=============================================================================
