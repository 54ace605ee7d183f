------------------------------- MODULE MCBoot -------------------------------
(* The boot for TLC: two LEDs; testPassed and testFailed with one of their   *)
(* seven flashes                                                             *)
EXTENDS Boot

Lit(action) == [value |-> TRUE, action |-> action]
Dark(action) == [value |-> FALSE, action |-> action]
Flash == <<Lit("wait"), Dark("wait"), Dark("stop")>>

MCRegistered == <<"testPassed", "testFailed", "alive", "linkUp">>
MCLedOf == [testPassed |-> "link", testFailed |-> "sys", alive |-> "sys", linkUp |-> "link"]
MCStepsOf == [testPassed |-> Flash, testFailed |-> Flash,
              alive |-> <<Lit("wait"), Dark("wait"), Dark("loop")>>,
              linkUp |-> <<Lit("wait"), Dark("go_on"), Dark("stop")>>]
=============================================================================
