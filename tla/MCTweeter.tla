------------------------------ MODULE MCTweeter ------------------------------
(* What an author ann and a follower bob may send. *)
EXTENDS Tweeter, TLC

CONSTANTS ann, bob

Cmd(c, x) == [cmd |-> c, to |-> x]
Scenario(ofAnn, ofBob, broken) == [script |-> ann :> ofAnn @@ bob :> ofBob, breaks |-> broken]
Connects(u) == Cmd("connect", u)
Disconnects(u) == Cmd("disconnect", u)
TweetsAt(u) == Cmd("send", <<u>>)

MCScenarios ==
  { Scenario(<<Connects(ann), TweetsAt(ann)>>,
             <<Connects(bob), Cmd("subscribe", ann), Cmd("unsubscribe", ann)>>, {}),
    Scenario(<<TweetsAt(bob)>>, <<Connects(bob), Disconnects(bob), Connects(bob)>>, {}),
    Scenario(<<TweetsAt(bob)>>, <<Connects(bob)>>, {bob}),
    Scenario(<<Connects(ann)>>, <<Disconnects(bob), Cmd("subscribe", ann)>>, {}) }
=============================================================================
